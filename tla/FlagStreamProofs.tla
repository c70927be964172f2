-------------------------- MODULE FlagStreamProofs --------------------------
(***************************************************************************)
(* StreamInv of FlagStream is inductive, and the safety properties of the  *)
(* distribution path follow from it.  The argument goes from the ring,     *)
(* which holds the newest events that Run has taken, over the hub, whose   *)
(* books and closed channels stay apart, to one connection at a time:      *)
(* PerConn says what it has written, has left to write and finds in its    *)
(* channel.  Most steps are about one connection or about none, so each    *)
(* is a lemma about that connection and a frame lemma for the others.      *)
(***************************************************************************)
EXTENDS FlagStream, WellFoundedInduction, TLAPS

-----------------------------------------------------------------------------
(* Sets of naturals.                                                       *)

LEMMA LeastNat ==
  ASSUME NEW T, T \subseteq Nat, T # {}
  PROVE  \E x \in T : \A y \in T : x <= y
<1>1. PICK x \in T : \A y \in T : ~ (<<y, x>> \in OpToRel(<, Nat))
  BY NatLessThanWellFounded, WFMin, Zenon
<1>2. \A y \in T : ~(y < x)
  BY <1>1 DEF OpToRel
<1> QED BY <1>2

LEMMA MinIn ==
  ASSUME NEW T, T \subseteq Nat, T # {}
  PROVE  Min(T) \in T /\ \A y \in T : Min(T) <= y
<1>1. \E x \in T : \A y \in T : x <= y
  BY LeastNat
<1> QED BY <1>1, Zenon DEF Min

\* A largest element, if there is one, is the Max.
LEMMA MaxIs ==
  ASSUME NEW T, T \subseteq Nat, NEW x \in T, \A y \in T : y <= x
  PROVE  Max(T) = x /\ Max(T) \in T
<1>1. \A y \in T : x >= y
  OBVIOUS
<1>2. Max(T) \in T /\ \A y \in T : Max(T) >= y
  BY <1>1, Zenon DEF Max
<1>3. ASSUME NEW m \in T, \A y \in T : m >= y
      PROVE  m = x
  <2>1. m \in Nat /\ x \in Nat /\ m <= x /\ m >= x
    BY <1>3
  <2> QED BY <2>1
<1> QED BY <1>2, <1>3, Zenon

LEMMA MaxIn ==
  ASSUME NEW n \in Nat, NEW T, T \subseteq 0 .. n, T # {}
  PROVE  Max(T) \in T /\ \A y \in T : y <= Max(T)
<1> DEFINE U == {k \in Nat : \A y \in T : y <= k}
<1>1. n \in U
  OBVIOUS
<1>2. PICK k \in U : \A j \in U : k <= j
  <2>1. U \subseteq Nat /\ U # {}
    BY <1>1
  <2> HIDE DEF U
  <2> QED BY <2>1, LeastNat
<1>3. k \in T
  <2> SUFFICES ASSUME k \notin T PROVE FALSE
    OBVIOUS
  <2>1. \A y \in T : y \in Nat /\ y <= k /\ y # k
    BY <1>2
  <2>2. k # 0
    <3>1. PICK y \in T : TRUE
      OBVIOUS
    <3>2. y \in Nat /\ y <= k /\ y # k
      BY <2>1, <3>1
    <3> QED BY <3>2
  <2>3. k - 1 \in U
    BY <1>2, <2>1, <2>2
  <2> QED BY <1>2, <2>3
<1>4. T \subseteq Nat /\ \A y \in T : y <= k
  BY <1>2
<1> QED BY <1>3, <1>4, MaxIs

-----------------------------------------------------------------------------
(* Sequences, and the events in them.                                      *)

LEMMA SeqAppend ==
  ASSUME NEW S, NEW s \in Seq(S), NEW x \in S
  PROVE  /\ Append(s, x) \in Seq(S) /\ Len(Append(s, x)) = Len(s) + 1 /\ Len(s) \in Nat
         /\ Append(s, x)[Len(s) + 1] = x
         /\ \A j \in 1 .. Len(s) : Append(s, x)[j] = s[j]
OBVIOUS

LEMMA SeqTail ==
  ASSUME NEW S, NEW s \in Seq(S), s # <<>>
  PROVE  /\ Head(s) \in S /\ Head(s) = s[1] /\ Tail(s) \in Seq(S)
         /\ Len(s) \in Nat /\ Len(s) >= 1 /\ Len(Tail(s)) = Len(s) - 1
         /\ \A j \in 1 .. Len(s) - 1 : Tail(s)[j] = s[j + 1]
OBVIOUS

LEMMA SeqEmpty ==
  ASSUME NEW S, NEW s \in Seq(S)
  PROVE  s = <<>> <=> Len(s) = 0
OBVIOUS

LEMMA ResetApart == Reset \notin Message
BY DEF Reset, Message

LEMMA EventMsg ==
  /\ \A m \in Message : IsEvent(m) /\ m.rev \in Nat
  /\ \A m \in Message \cup {Reset} : IsEvent(m) => m \in Message
  /\ \A m \in Message \cup {Ping} : IsEvent(m) => m \in Message
<1>1. \A m \in Message : m.rev \in Nat
  BY DEF Message
<1> QED BY <1>1, ResetApart, MessagesApart DEF IsEvent

LEMMA RevsIn ==
  ASSUME NEW S, NEW s \in Seq(S), NEW q
  PROVE  q \in RevsOf(s) <=> \E i \in 1 .. Len(s) : IsEvent(s[i]) /\ s[i].rev = q
BY DEF RevsOf

LEMMA AscAppend ==
  ASSUME NEW S, NEW s \in Seq(S), NEW x \in S, Ascending(s),
         IsEvent(x) => \A i \in 1 .. Len(s) : IsEvent(s[i]) => s[i].rev < x.rev
  PROVE  Ascending(Append(s, x))
<1> DEFINE t == Append(s, x)
<1>1. /\ t \in Seq(S) /\ Len(t) = Len(s) + 1 /\ Len(s) \in Nat
      /\ t[Len(s) + 1] = x /\ \A j \in 1 .. Len(s) : t[j] = s[j]
  BY SeqAppend
<1> HIDE DEF t
<1> SUFFICES ASSUME NEW i \in 1 .. Len(t), NEW j \in 1 .. Len(t), i < j, IsEvent(t[i]), IsEvent(t[j])
             PROVE  t[i].rev < t[j].rev
  BY <1>1 DEF Ascending, t
<1>2. i \in 1 .. Len(s) /\ t[i] = s[i]
  BY <1>1
<1>3. CASE j \in 1 .. Len(s)
  <2>1. t[j] = s[j]
    BY <1>1, <1>3
  <2> QED BY <1>2, <1>3, <2>1 DEF Ascending
<1>4. CASE j = Len(s) + 1
  BY <1>1, <1>2, <1>4
<1> QED BY <1>1, <1>3, <1>4

LEMMA AscTail ==
  ASSUME NEW S, NEW s \in Seq(S), s # <<>>, Ascending(s)
  PROVE  Ascending(Tail(s))
<1> DEFINE t == Tail(s)
<1>1. /\ t \in Seq(S) /\ Len(s) \in Nat /\ Len(s) >= 1 /\ Len(t) = Len(s) - 1
      /\ \A j \in 1 .. Len(s) - 1 : t[j] = s[j + 1]
  BY SeqTail
<1> HIDE DEF t
<1> SUFFICES ASSUME NEW i \in 1 .. Len(t), NEW j \in 1 .. Len(t), i < j, IsEvent(t[i]), IsEvent(t[j])
             PROVE  t[i].rev < t[j].rev
  BY <1>1 DEF Ascending, t
<1>2. t[i] = s[i + 1] /\ t[j] = s[j + 1] /\ i + 1 \in 1 .. Len(s) /\ j + 1 \in 1 .. Len(s) /\ i + 1 < j + 1
  BY <1>1
<1> QED BY <1>2 DEF Ascending

LEMMA RevsAppend ==
  ASSUME NEW S, NEW s \in Seq(S), NEW x \in S
  PROVE  RevsOf(Append(s, x)) = IF IsEvent(x) THEN RevsOf(s) \cup {x.rev} ELSE RevsOf(s)
<1> DEFINE t == Append(s, x)
<1>1. /\ t \in Seq(S) /\ Len(t) = Len(s) + 1 /\ Len(s) \in Nat
      /\ t[Len(s) + 1] = x /\ \A j \in 1 .. Len(s) : t[j] = s[j]
  BY SeqAppend
<1> HIDE DEF t
<1>2. ASSUME NEW q
      PROVE  q \in RevsOf(t) <=> q \in RevsOf(s) \/ (IsEvent(x) /\ q = x.rev)
  <2>1. ASSUME NEW i \in 1 .. Len(t), IsEvent(t[i]), t[i].rev = q
        PROVE  q \in RevsOf(s) \/ (IsEvent(x) /\ q = x.rev)
    <3>1. CASE i \in 1 .. Len(s)
      BY <1>1, <2>1, <3>1, RevsIn
    <3>2. CASE i = Len(s) + 1
      BY <1>1, <2>1, <3>2
    <3> QED BY <1>1, <3>1, <3>2
  <2>2. ASSUME NEW i \in 1 .. Len(s), IsEvent(s[i]), s[i].rev = q
        PROVE  q \in RevsOf(t)
    <3>1. i \in 1 .. Len(t) /\ t[i] = s[i]
      BY <1>1
    <3> QED BY <1>1, <2>2, <3>1, RevsIn
  <2>3. ASSUME IsEvent(x), q = x.rev
        PROVE  q \in RevsOf(t)
    <3>1. Len(s) + 1 \in 1 .. Len(t)
      BY <1>1
    <3> QED BY <1>1, <2>3, <3>1, RevsIn
  <2> QED BY <1>1, <2>1, <2>2, <2>3, RevsIn
<1> QED BY <1>2 DEF t

LEMMA RevsTail ==
  ASSUME NEW S, NEW s \in Seq(S), s # <<>>
  PROVE  RevsOf(s) = IF IsEvent(Head(s)) THEN RevsOf(Tail(s)) \cup {Head(s).rev} ELSE RevsOf(Tail(s))
<1> DEFINE t == Tail(s)
<1>1. /\ t \in Seq(S) /\ Len(s) \in Nat /\ Len(s) >= 1 /\ Len(t) = Len(s) - 1
      /\ Head(s) = s[1] /\ \A j \in 1 .. Len(s) - 1 : t[j] = s[j + 1]
  BY SeqTail
<1> HIDE DEF t
<1>2. ASSUME NEW q
      PROVE  q \in RevsOf(s) <=> q \in RevsOf(t) \/ (IsEvent(s[1]) /\ q = s[1].rev)
  <2>1. ASSUME NEW i \in 1 .. Len(s), IsEvent(s[i]), s[i].rev = q
        PROVE  q \in RevsOf(t) \/ (IsEvent(s[1]) /\ q = s[1].rev)
    <3>1. CASE i = 1
      BY <2>1, <3>1
    <3>2. CASE i # 1
      <4>1. i - 1 \in 1 .. Len(t) /\ t[i - 1] = s[i]
        BY <1>1, <3>2
      <4> QED BY <1>1, <2>1, <4>1, RevsIn
    <3> QED BY <3>1, <3>2
  <2>2. ASSUME NEW i \in 1 .. Len(t), IsEvent(t[i]), t[i].rev = q
        PROVE  q \in RevsOf(s)
    <3>1. i + 1 \in 1 .. Len(s) /\ t[i] = s[i + 1]
      BY <1>1
    <3> QED BY <2>2, <3>1, RevsIn
  <2>3. ASSUME IsEvent(s[1]), q = s[1].rev
        PROVE  q \in RevsOf(s)
    <3>1. 1 \in 1 .. Len(s)
      BY <1>1
    <3> QED BY <2>3, <3>1, RevsIn
  <2> QED BY <1>1, <2>1, <2>2, <2>3, RevsIn
<1> QED BY <1>1, <1>2 DEF t
LEMMA CarriesAppend ==
  ASSUME NEW S, NEW s \in Seq(S), NEW x \in S, NEW R, Carries(s, R),
         IsEvent(x) => x.rev \in R /\ x = Msg(x.rev)
  PROVE  Carries(Append(s, x), R)
<1> DEFINE t == Append(s, x)
<1>1. /\ t \in Seq(S) /\ Len(t) = Len(s) + 1 /\ Len(s) \in Nat
      /\ t[Len(s) + 1] = x /\ \A j \in 1 .. Len(s) : t[j] = s[j]
  BY SeqAppend
<1> HIDE DEF t
<1> SUFFICES ASSUME NEW i \in 1 .. Len(t), IsEvent(t[i])
             PROVE  t[i].rev \in R /\ t[i] = Msg(t[i].rev)
  BY <1>1 DEF Carries, t
<1>2. CASE i \in 1 .. Len(s)
  BY <1>1, <1>2 DEF Carries
<1>3. CASE i = Len(s) + 1
  BY <1>1, <1>3
<1> QED BY <1>1, <1>2, <1>3

LEMMA CarriesTail ==
  ASSUME NEW S, NEW s \in Seq(S), s # <<>>, NEW R, Carries(s, R)
  PROVE  /\ Carries(Tail(s), R)
         /\ IsEvent(Head(s)) => Head(s).rev \in R /\ Head(s) = Msg(Head(s).rev)
<1> DEFINE t == Tail(s)
<1>1. /\ t \in Seq(S) /\ Len(s) \in Nat /\ Len(s) >= 1 /\ Len(t) = Len(s) - 1
      /\ Head(s) = s[1] /\ \A j \in 1 .. Len(s) - 1 : t[j] = s[j + 1]
  BY SeqTail
<1> HIDE DEF t
<1>2. ASSUME NEW i \in 1 .. Len(t), IsEvent(t[i])
      PROVE  t[i].rev \in R /\ t[i] = Msg(t[i].rev)
  <2>1. i + 1 \in 1 .. Len(s) /\ t[i] = s[i + 1]
    BY <1>1
  <2> QED BY <1>2, <2>1 DEF Carries
<1>3. IsEvent(s[1]) => s[1].rev \in R /\ s[1] = Msg(s[1].rev)
  <2>1. 1 \in 1 .. Len(s)
    BY <1>1
  <2> QED BY <2>1 DEF Carries
<1> QED BY <1>1, <1>2, <1>3 DEF Carries, t

\* The events of a sequence of messages are all of it.
LEMMA CarriesRevs ==
  ASSUME NEW S, NEW s \in Seq(S), NEW R, Carries(s, R)
  PROVE  RevsOf(s) \subseteq R /\ \A q \in RevsOf(s) : \E i \in 1 .. Len(s) : s[i] = Msg(q) /\ s[i].rev = q
<1> SUFFICES ASSUME NEW q \in RevsOf(s)
             PROVE  q \in R /\ \E i \in 1 .. Len(s) : s[i] = Msg(q) /\ s[i].rev = q
  OBVIOUS
<1>1. PICK i \in 1 .. Len(s) : IsEvent(s[i]) /\ s[i].rev = q
  BY RevsIn
<1>2. q \in R /\ s[i] = Msg(q)
  BY <1>1 DEF Carries
<1> QED BY <1>1, <1>2

\* The first event of an ascending sequence is its oldest.
LEMMA AscHead ==
  ASSUME NEW S, NEW s \in Seq(S), s # <<>>, Ascending(s), IsEvent(Head(s)),
         NEW q \in RevsOf(s)
  PROVE  q = Head(s).rev \/ Head(s).rev < q
<1>1. Head(s) = s[1] /\ Len(s) \in Nat /\ 1 \in 1 .. Len(s)
  BY SeqTail
<1>2. PICK i \in 1 .. Len(s) : IsEvent(s[i]) /\ s[i].rev = q
  BY RevsIn
<1>3. CASE i = 1
  BY <1>1, <1>2, <1>3
<1>4. CASE i # 1
  <2>1. 1 < i
    BY <1>4
  <2> QED BY <1>1, <1>2, <2>1 DEF Ascending
<1> QED BY <1>3, <1>4

\* The last message of an ascending sequence of them is its newest.
LEMMA AscLast ==
  ASSUME NEW s \in Seq(Message), s # <<>>, Ascending(s), NEW q \in RevsOf(s)
  PROVE  q <= Last(s).rev /\ Last(s) \in Message /\ Last(s).rev \in RevsOf(s)
<1>1. Len(s) \in Nat /\ Len(s) \in 1 .. Len(s) /\ Last(s) = s[Len(s)] /\ s[Len(s)] \in Message
  BY SeqTail DEF Last
<1>2. PICK i \in 1 .. Len(s) : IsEvent(s[i]) /\ s[i].rev = q
  BY RevsIn
<1>3. IsEvent(s[Len(s)]) /\ s[Len(s)].rev \in Nat
  BY <1>1, EventMsg
<1>4. s[Len(s)].rev \in RevsOf(s)
  BY <1>1, <1>3, RevsIn
<1>5. CASE i = Len(s)
  BY <1>1, <1>2, <1>3, <1>4, <1>5
<1>6. CASE i # Len(s)
  <2>1. i < Len(s)
    BY <1>1, <1>6
  <2>2. s[i].rev < s[Len(s)].rev /\ s[i] \in Message
    BY <1>1, <1>2, <1>3, <2>1 DEF Ascending
  <2>3. s[i].rev \in Nat
    BY <2>2, EventMsg
  <2> QED BY <1>1, <1>2, <1>3, <1>4, <2>2, <2>3
<1> QED BY <1>5, <1>6

-----------------------------------------------------------------------------
(* Events.                                                                 *)

LEMMA FeatureType ==
  ASSUME StreamTypeOK
  PROVE  /\ Len(hist) \in Nat
         /\ \A r \in Revs : /\ r \in Nat /\ r # 0
                            /\ IsFeature(r) => hist[r] \in [act : {"put", "del"}, scope : Scopes, name : Names]
<1>1. hist \in Seq(Events)
  BY DEF StreamTypeOK
<1>2. Len(hist) \in Nat /\ \A r \in Revs : hist[r] \in Events /\ r \in Nat /\ r # 0
  BY <1>1 DEF Revs
<1>3. \A e \in Events : e.act # "other" => e \in [act : {"put", "del"}, scope : Scopes, name : Names]
  BY StreamConstants
<1> QED BY <1>2, <1>3 DEF IsFeature

LEMMA MsgType ==
  ASSUME StreamTypeOK, NEW r \in Revs, IsFeature(r)
  PROVE  /\ Msg(r) \in Message /\ Msg(r).rev = r /\ Msg(r).act = hist[r].act
         /\ Msg(r).scope = hist[r].scope /\ Msg(r).name = hist[r].name
<1>1. r \in Nat /\ hist[r] \in [act : {"put", "del"}, scope : Scopes, name : Names]
  BY FeatureType
<1> QED BY <1>1 DEF Msg, Message

LEMMA RingedFacts ==
  ASSUME StreamTypeOK
  PROVE  /\ \A r \in Ringed : /\ r \in Revs /\ r \in Nat /\ IsFeature(r) /\ r > run.base /\ r <= run.pos
                              /\ Msg(r) \in Message /\ Msg(r).rev = r
         /\ Given \subseteq Ringed
         /\ \A r \in Ringed, g \in Given : r <= g => r \in Given
<1>0. run.pos \in Nat /\ run.base \in Nat
  BY DEF StreamTypeOK
<1>1. \A r \in Ringed : r \in Revs /\ r \in Nat /\ IsFeature(r) /\ r > run.base /\ r <= run.pos
  BY FeatureType DEF Ringed
<1>2. Given \subseteq Ringed
  BY DEF Ringed, Given
<1>3. \A r \in Ringed, g \in Given : r <= g => r \in Given
  <2> SUFFICES ASSUME NEW r \in Ringed, NEW g \in Given, r <= g PROVE r \in Given
    OBVIOUS
  <2>1. r \in Nat /\ g \in Nat /\ g <= run.pos
    BY <1>1, <1>2
  <2>2. run.pc \in {"buffer", "bcast"} => r < run.pos
    BY <1>0, <2>1 DEF Given
  <2> QED BY <1>1, <2>2 DEF Given
<1> QED BY <1>1, <1>2, <1>3, MsgType
-----------------------------------------------------------------------------
(* The ring.                                                               *)

LEMMA ModLemma ==
  ASSUME NEW n \in Nat, n > 0, NEW a \in Nat, NEW b \in Nat, a < n, b <= n
  PROVE  (a + b) % n = IF a + b < n THEN a + b ELSE a + b - n
<1>1. CASE a + b < n
  BY <1>1
<1>2. CASE ~(a + b < n)
  <2>1. a + b - n \in 0 .. n - 1
    BY <1>2
  <2> QED BY <1>2, <2>1
<1> QED BY <1>1, <1>2

RingType ==
  /\ messages \in [Slots -> Message \cup {NoMsg}]
  /\ head \in Slots
  /\ isFull \in BOOLEAN

LEMMA CountType ==
  ASSUME RingType
  PROVE  /\ Size \in Nat /\ Size > 0 /\ head \in Nat /\ head < Size
         /\ Count \in Nat /\ Count <= Size /\ (isFull => Count = Size) /\ (~isFull => Count = head)
BY SizeOK DEF RingType, Count, Slots

LEMMA AtIs ==
  ASSUME RingType, NEW i \in 0 .. Size - 1
  PROVE  /\ ~isFull => At(i) = messages[i]
         /\ isFull => At(i) = IF head + i < Size THEN messages[head + i] ELSE messages[head + i - Size]
<1>1. Size \in Nat /\ Size > 0 /\ head \in Nat /\ head < Size
  BY CountType, SizeOK
<1>2. CASE ~isFull
  <2>1. (0 + i) % Size = i
    BY <1>1, ModLemma
  <2> QED BY <1>2, <2>1 DEF At, Start
<1>3. CASE isFull
  <2>1. (head + i) % Size = IF head + i < Size THEN head + i ELSE head + i - Size
    BY <1>1, ModLemma
  <2> QED BY <1>3, <2>1 DEF At, Start
<1> QED BY <1>2, <1>3

\* AddMessage appends, and drops the oldest message of a full ring.
LEMMA RingAdd ==
  ASSUME RingType, NEW m \in Message, AddMessage(m)
  PROVE  /\ RingType'
         /\ isFull => /\ isFull' /\ Count' = Count
                      /\ \A i \in 0 .. Count - 1 : At(i)' = IF i = Count - 1 THEN m ELSE At(i + 1)
         /\ ~isFull => /\ Count' = Count + 1
                       /\ \A i \in 0 .. Count : At(i)' = IF i = Count THEN m ELSE At(i)
<1>1. Size \in Nat /\ Size > 0 /\ head \in Nat /\ head < Size /\ Slots = 0 .. Size - 1
  BY CountType, SizeOK DEF Slots
<1>2. /\ head' = IF head + 1 < Size THEN head + 1 ELSE 0
      /\ isFull' = (isFull \/ head' = 0)
      /\ messages' = [messages EXCEPT ![head] = m]
  <2>1. (head + 1) % Size = IF head + 1 < Size THEN head + 1 ELSE head + 1 - Size
    BY <1>1, ModLemma
  <2>2. head + 1 < Size \/ head + 1 - Size = 0
    BY <1>1
  <2> QED BY <2>1, <2>2 DEF AddMessage
<1>3. RingType'
  <2>1. head' \in Slots
    BY <1>1, <1>2
  <2>2. messages' \in [Slots -> Message \cup {NoMsg}]
    BY <1>2 DEF RingType
  <2>3. isFull' \in BOOLEAN
    BY <1>2 DEF RingType
  <2> QED BY <2>1, <2>2, <2>3 DEF RingType
<1>4. \A k \in 0 .. Size - 1 : messages'[k] = IF k = head THEN m ELSE messages[k]
  BY <1>1, <1>2 DEF RingType
<1>5. /\ \A i \in 0 .. Size - 1 :
            /\ ~isFull' => At(i)' = messages'[i]
            /\ isFull' => At(i)' = IF head' + i < Size THEN messages'[head' + i]
                                   ELSE messages'[head' + i - Size]
      /\ Count' = IF isFull' THEN Size ELSE head'
  <2>1. \A i \in 0 .. Size - 1 : (0 + i) % Size = i
    BY <1>1, ModLemma
  <2>2. head' \in Nat /\ head' < Size
    BY <1>1, <1>2
  <2>3. \A i \in 0 .. Size - 1 :
          (head' + i) % Size = IF head' + i < Size THEN head' + i ELSE head' + i - Size
    <3> SUFFICES ASSUME NEW i \in 0 .. Size - 1
                 PROVE  (head' + i) % Size = IF head' + i < Size THEN head' + i ELSE head' + i - Size
      OBVIOUS
    <3>1. i \in Nat /\ i <= Size
      BY <1>1
    <3> QED BY <1>1, <2>2, <3>1, ModLemma
  <2> QED BY <2>1, <2>3 DEF At, Start, Count
<1>6. CASE ~isFull
  <2>1. Count = head /\ Count' = head + 1
    <3>1. Count = head /\ isFull' = (head' = 0)
      BY <1>2, <1>6 DEF Count
    <3>2. CASE head + 1 < Size
      <4>1. head' = head + 1 /\ head' # 0
        BY <1>1, <1>2, <3>2
      <4> QED BY <1>5, <3>1, <4>1
    <3>3. CASE ~(head + 1 < Size)
      <4>1. head' = 0 /\ head + 1 = Size
        BY <1>1, <1>2, <3>3
      <4> QED BY <1>5, <3>1, <4>1
    <3> QED BY <3>2, <3>3
  <2>2. ASSUME NEW i \in 0 .. head
        PROVE  At(i)' = messages'[i]
    <3>1. i \in 0 .. Size - 1
      BY <1>1
    <3>2. CASE isFull'
      <4>1. head' = 0
        BY <1>2, <1>6, <3>2
      <4> QED BY <1>1, <1>5, <3>1, <3>2, <4>1
    <3> QED BY <1>5, <3>1, <3>2
  <2>3. ASSUME NEW i \in 0 .. Count - 1
        PROVE  At(i)' = At(i)
    <3>1. i \in 0 .. head /\ i # head /\ i \in 0 .. Size - 1
      BY <1>1, <2>1
    <3> QED BY <1>4, <1>6, <2>2, <3>1, AtIs
  <2>4. \A i \in 0 .. head : i = head => At(i)' = m
    <3>1. head \in 0 .. Size - 1
      BY <1>1
    <3> QED BY <1>4, <2>2, <3>1
  <2>5. \A i \in 0 .. Count : At(i)' = IF i = Count THEN m ELSE At(i)
    <3> SUFFICES ASSUME NEW i \in 0 .. Count
                 PROVE  At(i)' = IF i = Count THEN m ELSE At(i)
      OBVIOUS
    <3>1. i = Count \/ i \in 0 .. Count - 1
      BY <1>1, <2>1
    <3> QED BY <1>1, <2>1, <2>3, <2>4, <3>1
  <2> QED BY <1>3, <1>6, <2>1, <2>5
<1>7. CASE isFull
  <2>1. isFull' /\ Count' = Size /\ Count = Size
    BY <1>2, <1>5, <1>7 DEF Count
  <2>2. ASSUME NEW i \in 0 .. Size - 2
        PROVE  At(i)' = At(i + 1)
    <3>1. i \in 0 .. Size - 1 /\ i + 1 \in 0 .. Size - 1
      BY <1>1
    <3>2. At(i + 1) = IF head + (i + 1) < Size THEN messages[head + (i + 1)]
                      ELSE messages[head + (i + 1) - Size]
      BY <1>7, <3>1, AtIs
    <3>3. At(i)' = IF head' + i < Size THEN messages'[head' + i] ELSE messages'[head' + i - Size]
      BY <1>5, <2>1, <3>1
    <3>4. CASE head + 1 < Size
      <4>1. head' + i = head + (i + 1)
        BY <1>1, <1>2, <3>4
      <4>2. CASE head + (i + 1) < Size
        <5>1. head + (i + 1) \in 0 .. Size - 1 /\ head + (i + 1) # head
          BY <1>1, <4>2
        <5>2. At(i)' = messages'[head + (i + 1)] /\ At(i + 1) = messages[head + (i + 1)]
          BY <3>2, <3>3, <4>1, <4>2
        <5> QED BY <1>4, <5>1, <5>2
      <4>3. CASE ~(head + (i + 1) < Size)
        <5>1. head + (i + 1) - Size \in 0 .. Size - 1 /\ head + (i + 1) - Size # head
          BY <1>1, <4>3
        <5>2. ~(head' + i < Size) /\ head' + i - Size = head + (i + 1) - Size
          <6>1. head' = head + 1
            BY <1>2, <3>4
          <6>2. ~(head + 1 + i < Size) /\ head + 1 + i - Size = head + (i + 1) - Size
            BY <1>1, <4>3
          <6> QED BY <6>1, <6>2
        <5>3. At(i)' = messages'[head + (i + 1) - Size] /\ At(i + 1) = messages[head + (i + 1) - Size]
          BY <3>2, <3>3, <4>3, <5>2
        <5> QED BY <1>4, <5>1, <5>3
      <4> QED BY <4>2, <4>3
    <3>5. CASE ~(head + 1 < Size)
      <4>1. head' = 0 /\ head = Size - 1
        BY <1>1, <1>2, <3>5
      <4>2. ~(head + (i + 1) < Size) /\ head + (i + 1) - Size = i /\ head' + i = i /\ i < Size /\ i # head
        BY <1>1, <4>1
      <4> QED BY <1>4, <3>1, <3>2, <3>3, <4>2
    <3> QED BY <3>4, <3>5
  <2>3. At(Size - 1)' = m
    <3>1. Size - 1 \in 0 .. Size - 1 /\ head \in 0 .. Size - 1
      BY <1>1
    <3>2. At(Size - 1)' = IF head' + (Size - 1) < Size THEN messages'[head' + (Size - 1)]
                          ELSE messages'[head' + (Size - 1) - Size]
      BY <1>5, <2>1, <3>1
    <3>3. CASE head + 1 < Size
      <4>1. ~(head' + (Size - 1) < Size) /\ head' + (Size - 1) - Size = head
        BY <1>1, <1>2, <3>3
      <4> QED BY <1>4, <3>1, <3>2, <4>1
    <3>4. CASE ~(head + 1 < Size)
      <4>1. head' + (Size - 1) < Size /\ head' + (Size - 1) = head
        BY <1>1, <1>2, <3>4
      <4> QED BY <1>4, <3>1, <3>2, <4>1
    <3> QED BY <3>3, <3>4
  <2>4. \A i \in 0 .. Count - 1 : At(i)' = IF i = Count - 1 THEN m ELSE At(i + 1)
    <3> SUFFICES ASSUME NEW i \in 0 .. Count - 1
                 PROVE  At(i)' = IF i = Count - 1 THEN m ELSE At(i + 1)
      OBVIOUS
    <3>1. i = Size - 1 \/ i \in 0 .. Size - 2
      BY <1>1, <2>1
    <3> QED BY <1>1, <2>1, <2>2, <2>3, <3>1
  <2> QED BY <1>3, <1>7, <2>1, <2>4
<1> QED BY <1>6, <1>7
LEMMA RingTyped == StreamTypeOK => RingType
BY DEF StreamTypeOK, RingType

\* The messages in a sound ring.
LEMMA RingMsgs ==
  ASSUME StreamTypeOK, RingOK
  PROVE  \A i \in 0 .. Count - 1 : /\ At(i) \in Message /\ At(i).rev \in Ringed /\ At(i).rev \in Nat
                                   /\ At(i) = Msg(At(i).rev)
<1> SUFFICES ASSUME NEW i \in 0 .. Count - 1
             PROVE  /\ At(i) \in Message /\ At(i).rev \in Ringed /\ At(i).rev \in Nat
                    /\ At(i) = Msg(At(i).rev)
  OBVIOUS
<1>1. At(i).rev \in Ringed /\ At(i) = Msg(At(i).rev)
  BY DEF RingOK
<1>2. At(i).rev \in Nat /\ Msg(At(i).rev) \in Message
  BY <1>1, RingedFacts
<1> QED BY <1>1, <1>2

LEMMA RingKept ==
  ASSUME StreamTypeOK, RingOK, UNCHANGED bufVars, Ringed' = Ringed,
         \A r \in Ringed : hist'[r] = hist[r]
  PROVE  RingOK'
<1>1. Count' = Count /\ isFull' = isFull /\ \A i : At(i)' = At(i)
  BY DEF bufVars, Count, At, Start
<1>2. \A r \in Ringed : Msg(r)' = Msg(r)
  BY DEF Msg
<1>3. \A i \in 0 .. Count - 1 : At(i).rev \in Ringed /\ At(i) = Msg(At(i).rev)
  BY DEF RingOK
<1>4. \A i \in 0 .. Count' - 1 : (At(i).rev \in Ringed /\ At(i) = Msg(At(i).rev))'
  BY <1>1, <1>2, <1>3
<1>5. \A i, j \in 0 .. Count' - 1 : i < j => At(i)'.rev < At(j)'.rev
  BY <1>1 DEF RingOK
<1>6. \A r \in Ringed' : (isFull' => At(0)'.rev <= r) => \E i \in 0 .. Count' - 1 : At(i)'.rev = r
  BY <1>1 DEF RingOK
<1>7. SlotsOK'
  BY <1>2 DEF RingOK, SlotsOK, bufVars, Slots
<1> QED BY <1>4, <1>5, <1>6, <1>7 DEF RingOK

\* Run puts its event, which is newer than the ring's, into the ring.
LEMMA RingPut ==
  ASSUME StreamTypeOK, RingOK, NEW p \in Revs, IsFeature(p), AddMessage(Msg(p)), hist' = hist,
         \A r \in Ringed : r < p, Ringed' = Ringed \cup {p}
  PROVE  RingOK' /\ RingType'
<1> DEFINE m == Msg(p)
<1>1. m \in Message /\ m.rev = p /\ p \in Nat
  BY MsgType, FeatureType
<1>2. RingType
  BY RingTyped
<1> HIDE DEF m
<1>3. /\ RingType'
      /\ isFull => /\ isFull' /\ Count' = Count
                   /\ \A i \in 0 .. Count - 1 : At(i)' = IF i = Count - 1 THEN m ELSE At(i + 1)
      /\ ~isFull => /\ Count' = Count + 1
                    /\ \A i \in 0 .. Count : At(i)' = IF i = Count THEN m ELSE At(i)
  BY <1>1, <1>2, RingAdd DEF m
<1>4. /\ Count \in Nat /\ Size \in Nat /\ Size > 0 /\ (isFull => Count = Size)
  BY <1>2, CountType
<1>5. \A i \in 0 .. Count - 1 : /\ At(i) \in Message /\ At(i).rev \in Ringed /\ At(i).rev \in Nat
                                /\ At(i) = Msg(At(i).rev) /\ At(i).rev < p
  BY RingMsgs
<1>6. \A i, j \in 0 .. Count - 1 : i < j => At(i).rev < At(j).rev
  BY DEF RingOK
<1>7. \A r \in Ringed : (isFull => At(0).rev <= r) => \E i \in 0 .. Count - 1 : At(i).rev = r
  BY DEF RingOK
<1>8. \A r : Msg(r)' = Msg(r)
  BY DEF Msg
<1>9. \A r \in Ringed : r \in Nat
  BY RingedFacts
<1>c. SlotsOK'
  <2>1. messages' = [messages EXCEPT ![head] = m] /\ messages \in [Slots -> Message \cup {NoMsg}]
    BY <1>2 DEF AddMessage, RingType, m
  <2>2. m.rev \in Ringed' /\ m = Msg(m.rev)
    BY <1>1 DEF m
  <2> SUFFICES ASSUME NEW i \in Slots, messages'[i] # NoMsg
               PROVE  (messages[i].rev \in Ringed /\ messages[i] = Msg(messages[i].rev))'
    BY DEF SlotsOK, Slots
  <2>3. CASE i = head
    <3>1. messages'[i] = m
      BY <2>1, <2>3
    <3> QED BY <1>8, <2>2, <3>1
  <2>4. CASE i # head
    <3>1. messages'[i] = messages[i]
      BY <2>1, <2>4
    <3>2. messages[i].rev \in Ringed /\ messages[i] = Msg(messages[i].rev)
      BY <3>1 DEF RingOK, SlotsOK
    <3> QED BY <1>8, <3>1, <3>2
  <2> QED BY <2>3, <2>4
<1>a. CASE ~isFull
  <2>1. /\ Count' = Count + 1 /\ 0 .. Count' - 1 = 0 .. Count
        /\ \A i \in 0 .. Count : At(i)' = IF i = Count THEN m ELSE At(i)
        /\ \A i \in 0 .. Count : i # Count => i \in 0 .. Count - 1
    BY <1>3, <1>4, <1>a
  <2>2. \A i \in 0 .. Count' - 1 : (At(i).rev \in Ringed /\ At(i) = Msg(At(i).rev))'
    BY <1>1, <1>5, <1>8, <2>1 DEF m
  <2>3. \A i, j \in 0 .. Count' - 1 : i < j => At(i)'.rev < At(j)'.rev
    <3> SUFFICES ASSUME NEW i \in 0 .. Count, NEW j \in 0 .. Count, i < j
                 PROVE  At(i)'.rev < At(j)'.rev
      BY <2>1
    <3>1. i \in 0 .. Count - 1 /\ At(i)' = At(i)
      BY <1>4, <2>1
    <3>2. CASE j = Count
      BY <1>1, <1>5, <2>1, <3>1, <3>2
    <3>3. CASE j # Count
      BY <1>6, <2>1, <3>1, <3>3
    <3> QED BY <3>2, <3>3
  <2>4. ASSUME NEW r \in Ringed'
        PROVE  \E i \in 0 .. Count' - 1 : At(i)'.rev = r
    <3>1. CASE r = p
      <4>1. Count \in 0 .. Count
        BY <1>4
      <4> QED BY <1>1, <2>1, <3>1, <4>1
    <3>2. CASE r \in Ringed
      <4>1. PICK i \in 0 .. Count - 1 : At(i).rev = r
        BY <1>7, <1>a, <3>2
      <4>2. i \in 0 .. Count /\ i # Count
        BY <1>4
      <4> QED BY <2>1, <4>1, <4>2
    <3> QED BY <3>1, <3>2
  <2> QED BY <1>3, <1>c, <2>2, <2>3, <2>4 DEF RingOK
<1>b. CASE isFull
  <2>1. /\ isFull' /\ Count' = Count
        /\ \A i \in 0 .. Count - 1 : At(i)' = IF i = Count - 1 THEN m ELSE At(i + 1)
        /\ \A i \in 0 .. Count - 1 : i # Count - 1 => i + 1 \in 0 .. Count - 1
    BY <1>3, <1>4, <1>b
  <2>2. \A i \in 0 .. Count' - 1 : (At(i).rev \in Ringed /\ At(i) = Msg(At(i).rev))'
    BY <1>1, <1>5, <1>8, <2>1 DEF m
  <2>3. \A i, j \in 0 .. Count' - 1 : i < j => At(i)'.rev < At(j)'.rev
    <3> SUFFICES ASSUME NEW i \in 0 .. Count - 1, NEW j \in 0 .. Count - 1, i < j
                 PROVE  At(i)'.rev < At(j)'.rev
      BY <2>1
    <3>1. i + 1 \in 0 .. Count - 1 /\ At(i)' = At(i + 1)
      BY <1>4, <2>1
    <3>2. CASE j = Count - 1
      BY <1>1, <1>5, <2>1, <3>1, <3>2
    <3>3. CASE j # Count - 1
      <4>1. j + 1 \in 0 .. Count - 1 /\ At(j)' = At(j + 1) /\ i + 1 < j + 1
        BY <1>4, <2>1, <3>3
      <4> QED BY <1>6, <3>1, <4>1
    <3> QED BY <3>2, <3>3
  <2>4. ASSUME NEW r \in Ringed', At(0)'.rev <= r
        PROVE  \E i \in 0 .. Count' - 1 : At(i)'.rev = r
    <3>0. 0 \in 0 .. Count - 1 /\ Count - 1 \in 0 .. Count - 1
      BY <1>4, <1>b
    <3>1. CASE r = p
      BY <1>1, <2>1, <3>0, <3>1
    <3>2. CASE r \in Ringed
      <4>0. r \in Nat /\ r < p
        BY <1>9, <3>2
      <4>1. Count # 1
        <5>1. Count = 1 => At(0)' = m
          BY <2>1, <3>0
        <5> QED BY <1>1, <2>4, <4>0, <5>1
      <4>2. At(0)' = At(1) /\ 1 \in 0 .. Count - 1
        BY <1>4, <2>1, <3>0, <4>1
      <4>3. At(0).rev < At(1).rev /\ At(1).rev <= r /\ At(0).rev \in Nat /\ At(1).rev \in Nat
        BY <1>5, <1>6, <2>4, <3>0, <4>2
      <4>4. At(0).rev <= r /\ At(0).rev # r
        BY <4>0, <4>3
      <4>5. PICK i \in 0 .. Count - 1 : At(i).rev = r
        BY <1>7, <3>2, <4>4
      <4>6. i # 0
        BY <4>4, <4>5
      <4>7. i - 1 \in 0 .. Count - 1 /\ i - 1 # Count - 1 /\ (i - 1) + 1 = i
        BY <1>4, <4>6
      <4>8. At(i - 1)' = At(i)
        BY <2>1, <4>7
      <4> QED BY <2>1, <4>5, <4>7, <4>8
    <3> QED BY <3>1, <3>2
  <2> QED BY <1>3, <1>c, <2>1, <2>2, <2>3, <2>4 DEF RingOK
<1> QED BY <1>a, <1>b

\* Where sort.Search ends: a place between old and new messages.
LEMMA SearchFinds ==
  ASSUME NEW last \in Nat, Count \in Nat, Count > 0, \A i \in 0 .. Count - 1 : At(i).rev \in Nat,
         At(0).rev <= last
  PROVE  \E i \in Search(last) : TRUE
<1> DEFINE T == {i \in 0 .. Count : i < Count => At(i).rev > last}
<1>1. PICK i \in T : \A j \in T : i <= j
  <2>1. Count \in T
    OBVIOUS
  <2>2. T \subseteq Nat /\ T # {}
    BY <2>1
  <2> HIDE DEF T
  <2> QED BY <2>2, LeastNat
<1>2. i > 0 => At(i - 1).rev <= last
  <2> SUFFICES ASSUME i > 0 PROVE At(i - 1).rev <= last
    OBVIOUS
  <2>1. i - 1 \in 0 .. Count - 1 /\ i - 1 \in 0 .. Count /\ ~(i <= i - 1)
    BY <1>1
  <2>2. i - 1 \notin T
    <3> HIDE DEF T
    <3> QED BY <1>1, <2>1
  <2>3. ~(At(i - 1).rev > last) /\ At(i - 1).rev \in Nat
    BY <2>1, <2>2
  <2> QED BY <2>3
<1>3. i \in Search(last)
  BY <1>1, <1>2 DEF Search
<1> QED BY <1>3

\* The answer of a sound ring is exact.
LEMMA SinceExact ==
  ASSUME StreamTypeOK, RingOK, NEW last \in Nat, GetSince(last).ok
  PROVE  /\ GetSince(last).msgs \in Seq(Message)
         /\ Ascending(GetSince(last).msgs)
         /\ Range(GetSince(last).msgs) = {Msg(r) : r \in {q \in Ringed : q > last}}
         /\ Carries(GetSince(last).msgs, {q \in Ringed : q > last})
         /\ \A r \in Ringed : r > last => r \in RevsOf(GetSince(last).msgs)
<1>0. RingType /\ Count \in Nat /\ (isFull => Count = Size) /\ Size > 0 /\ Size \in Nat
  BY RingTyped, CountType
<1>1. \A i \in 0 .. Count - 1 : /\ At(i) \in Message /\ At(i).rev \in Ringed /\ At(i).rev \in Nat
                                /\ At(i) = Msg(At(i).rev)
  BY RingMsgs
<1>2. \A i, j \in 0 .. Count - 1 : i < j => At(i).rev < At(j).rev
  BY DEF RingOK
<1>3. \A r \in Ringed : (isFull => At(0).rev <= r) => \E i \in 0 .. Count - 1 : At(i).rev = r
  BY DEF RingOK
<1>4. \A r \in Ringed : r \in Nat /\ Msg(r) \in Message /\ Msg(r).rev = r
  BY RingedFacts
<1>5. CASE Count = 0
  <2>1. GetSince(last).msgs = <<>>
    BY <1>5 DEF GetSince
  <2>2. Ringed = {}
    <3>1. ~isFull
      BY <1>0, <1>5
    <3> QED BY <1>3, <1>5, <3>1
  <2>3. <<>> \in Seq(Message) /\ DOMAIN <<>> = {}
    OBVIOUS
  <2> QED BY <2>1, <2>2, <2>3 DEF Ascending, Range, Carries
<1>6. CASE Count # 0
  <2>0. Count > 0 /\ 0 \in 0 .. Count - 1
    BY <1>0, <1>6
  <2>1. ~(last < At(0).rev) /\ GetSince(last).msgs = Since(CHOOSE i \in Search(last) : TRUE)
    BY <1>6 DEF GetSince
  <2>2. At(0).rev <= last
    BY <1>1, <2>0, <2>1
  <2> DEFINE k == CHOOSE i \in Search(last) : TRUE
             s == Since(k)
  <2>3. k \in Search(last)
    <3>1. \E i \in Search(last) : TRUE
      BY <1>0, <1>1, <2>0, <2>2, SearchFinds
    <3> QED BY <3>1, Zenon
  <2>4. k \in 0 .. Count /\ (k < Count => At(k).rev > last) /\ (k > 0 => At(k - 1).rev <= last)
    BY <2>3 DEF Search
  <2> HIDE DEF k
  <2>5. /\ s \in Seq(Message) /\ Len(s) = Count - k /\ DOMAIN s = 1 .. Count - k
        /\ \A j \in 1 .. Count - k : s[j] = At(k + j - 1) /\ k + j - 1 \in 0 .. Count - 1
    <3>1. \A j \in 1 .. Count - k : k + j - 1 \in 0 .. Count - 1
      BY <1>0, <2>4
    <3>2. \A j \in 1 .. Count - k : At(k + j - 1) \in Message
      BY <1>1, <3>1
    <3>3. Count - k \in Nat /\ s = [j \in 1 .. Count - k |-> At(k + j - 1)]
      BY <1>0, <2>4 DEF Since
    <3> HIDE DEF s
    <3> QED BY <3>1, <3>2, <3>3
  <2> HIDE DEF s
  <2>6. Ascending(s)
    <3> SUFFICES ASSUME NEW i \in 1 .. Count - k, NEW j \in 1 .. Count - k, i < j
                 PROVE  s[i].rev < s[j].rev
      BY <2>5 DEF Ascending
    <3>1. k + i - 1 < k + j - 1
      BY <1>0, <2>4
    <3> QED BY <1>2, <2>5, <3>1
  <2>7. ASSUME NEW i \in 0 .. Count - 1
        PROVE  At(i).rev > last <=> i >= k
    <3>1. CASE i >= k
      <4>1. At(k).rev > last /\ k \in 0 .. Count - 1
        BY <1>0, <2>4, <3>1
      <4>2. i = k \/ At(k).rev < At(i).rev
        BY <1>2, <2>4, <3>1, <4>1
      <4>3. At(k).rev \in Nat /\ At(i).rev \in Nat
        BY <1>1, <4>1
      <4> QED BY <3>1, <4>1, <4>2, <4>3
    <3>2. CASE ~(i >= k)
      <4>1. At(k - 1).rev <= last /\ k - 1 \in 0 .. Count - 1 /\ i <= k - 1
        BY <1>0, <2>4, <3>2
      <4>2. i = k - 1 \/ At(i).rev < At(k - 1).rev
        BY <1>2, <2>4, <4>1
      <4>3. At(k - 1).rev \in Nat /\ At(i).rev \in Nat
        BY <1>1, <4>1
      <4> QED BY <3>2, <4>1, <4>2, <4>3
    <3> QED BY <3>1, <3>2
  <2>8. ASSUME NEW j \in 1 .. Count - k
        PROVE  s[j].rev \in Ringed /\ s[j].rev > last /\ s[j] = Msg(s[j].rev) /\ IsEvent(s[j])
    <3>1. s[j] = At(k + j - 1) /\ k + j - 1 \in 0 .. Count - 1 /\ k + j - 1 >= k
      BY <1>0, <2>4, <2>5
    <3> QED BY <1>1, <2>7, <3>1, EventMsg
  <2>9. ASSUME NEW r \in Ringed, r > last
        PROVE  \E j \in 1 .. Count - k : s[j].rev = r /\ s[j] = Msg(r)
    <3>1. At(0).rev <= r
      BY <1>1, <1>4, <2>0, <2>2, <2>9
    <3>2. PICK i \in 0 .. Count - 1 : At(i).rev = r
      BY <1>3, <3>1
    <3>3. i >= k
      BY <2>7, <2>9, <3>2
    <3>4. i - k + 1 \in 1 .. Count - k /\ k + (i - k + 1) - 1 = i
      BY <1>0, <2>4, <3>3
    <3>5. s[i - k + 1] = At(i)
      BY <2>5, <3>4
    <3> QED BY <1>1, <3>2, <3>4, <3>5
  <2>10. Carries(s, {q \in Ringed : q > last})
    BY <2>5, <2>8 DEF Carries
  <2>11. \A r \in Ringed : r > last => r \in RevsOf(s)
    BY <2>5, <2>8, <2>9, RevsIn
  <2>12. Range(s) = {Msg(r) : r \in {q \in Ringed : q > last}}
    <3>1. ASSUME NEW x \in Range(s) PROVE x \in {Msg(r) : r \in {q \in Ringed : q > last}}
      <4>1. PICK j \in 1 .. Count - k : x = s[j]
        BY <2>5 DEF Range
      <4> QED BY <2>8, <4>1
    <3>2. ASSUME NEW r \in Ringed, r > last PROVE Msg(r) \in Range(s)
      BY <2>5, <2>9, <3>2 DEF Range
    <3> QED BY <3>1, <3>2
  <2> QED BY <2>1, <2>5, <2>6, <2>10, <2>11, <2>12 DEF s, k
<1> QED BY <1>5, <1>6

LEMMA BufferFromInv ==
  ASSUME StreamTypeOK, RingOK
  PROVE  BufferExact
<1> SUFFICES ASSUME NEW last \in 0 .. Len(hist), GetSince(last).ok
             PROVE  /\ Ascending(GetSince(last).msgs)
                    /\ Range(GetSince(last).msgs) = {Msg(r) : r \in {q \in Ringed : q > last}}
  BY DEF BufferExact
<1>1. last \in Nat
  BY FeatureType
<1> QED BY <1>1, SinceExact
-----------------------------------------------------------------------------
(* A connection that the step is not about.                                *)

\* Its part of StreamOrdered.
OrderedOK(c) ==
  /\ Ascending(wire[c])
  /\ \A i \in DOMAIN wire[c] :
       wire[c][i] # Reset => wire[c][i].scope \in Sub[c] /\ wire[c][i].rev > h[c].last

PerConn(c) == OrderedOK(c) /\ ConnOK(c) /\ GapOK(c)

LEMMA ConnType ==
  ASSUME StreamTypeOK, NEW c \in Conns
  PROVE  /\ send[c] \in Seq(Message \cup {Ping}) /\ wire[c] \in Seq(Message \cup {Reset})
         /\ h[c] \in {NoHandler} \cup Handler
         /\ h[c] # NoHandler => /\ h[c] \in Handler /\ h[c].last \in Nat /\ h[c].max \in Nat
                                /\ h[c].todo \in Seq(Message)
         /\ h[c] = NoHandler <=> h[c].pc = "new"
         /\ h[c].pc \in {"open", "history", "stream", "leaving", "gone"} => h[c] # NoHandler
BY DEF StreamTypeOK, Handler, NoHandler

\* History that is left to send ends with an event of the ring.
LEMMA TodoLast ==
  ASSUME StreamTypeOK, NEW c \in Conns, ConnOK(c), h[c].pc = "history"
  PROVE  /\ h[c].todo \in Seq(Message) /\ h[c].todo # <<>>
         /\ Last(h[c].todo).rev \in Ringed /\ Last(h[c].todo).rev \in RevsOf(h[c].todo)
         /\ \A q \in RevsOf(h[c].todo) : q \in Ringed /\ q <= Last(h[c].todo).rev
<1> DEFINE s == h[c].todo
<1>1. s \in Seq(Message) /\ s # <<>> /\ Carries(s, Ringed) /\ Ascending(s)
  BY ConnType DEF ConnOK
<1> HIDE DEF s
<1>2. \A q \in RevsOf(s) : q \in Ringed /\ q <= Last(s).rev
  BY <1>1, AscLast, CarriesRevs
<1>3. Head(s) \in Message /\ Head(s) = s[1] /\ 1 \in 1 .. Len(s)
  BY <1>1, SeqTail
<1>4. Head(s).rev \in RevsOf(s)
  BY <1>1, <1>3, EventMsg, RevsIn
<1>5. Last(s).rev \in RevsOf(s)
  BY <1>1, <1>4, AscLast
<1> QED BY <1>1, <1>2, <1>5 DEF s

LEMMA CarriesKept ==
  ASSUME NEW s, NEW R, NEW Q, Carries(s, R), R \subseteq Q, \A r \in R : hist'[r] = hist[r]
  PROVE  Carries(s, Q)'
BY DEF Carries, Msg, IsEvent, Reset

LEMMA ConnKept ==
  ASSUME StreamTypeOK, NEW c \in Conns, PerConn(c),
         h'[c] = h[c], wire'[c] = wire[c], send'[c] = send[c],
         Revs \subseteq Revs', Len(hist) <= Len(hist'), Len(hist') \in Nat,
         \A r \in Revs : hist'[r] = hist[r],
         Given' = Given, Ringed \subseteq Ringed',
         \A r \in Ringed' : r \in Nat /\ (r \notin Ringed => \A q \in Ringed : r > q),
         \A r \in Ringed' : r \notin Ringed /\ r > h[c].last => r > h[c].max,
         h[c] # NoHandler /\ (run.pc \in {"boot", "stopped"} \/ h[c].max <= run.base)
           => run'.pc \in {"boot", "stopped"} \/ h[c].max <= run'.base,
         c \in clients \cup closed => c \in clients' \cup closed',
         c \in clients' => c \in clients \/ ~(h[c].pc \in {"history", "stream"} /\ h[c].early /\ ~h[c].reset)
  PROVE  PerConn(c)'
<1>1. /\ send[c] \in Seq(Message \cup {Ping}) /\ wire[c] \in Seq(Message \cup {Reset})
      /\ h[c] # NoHandler => h[c].last \in Nat /\ h[c].max \in Nat
      /\ h[c].pc \in {"open", "history", "stream", "leaving", "gone"} => h[c] # NoHandler
  BY ConnType
<1>2. Ringed \subseteq Revs /\ Given \subseteq Ringed /\ Len(hist) \in Nat
  BY RingedFacts, FeatureType
<1>3. \A r \in Revs : Msg(r)' = Msg(r)
  BY DEF Msg
<1>4. OrderedOK(c)'
  BY DEF PerConn, OrderedOK, Ascending, IsEvent, Reset
<1>5. ConnOK(c) /\ GapOK(c)
  BY DEF PerConn
<1>6. ConnOK(c)'
  <2>1. Carries(send[c], Given)' /\ Ascending(send[c])'
    <3>1. Carries(send[c], Given) /\ Ascending(send[c]) /\ \A r \in Given : hist'[r] = hist[r]
      BY <1>2, <1>5 DEF ConnOK
    <3> QED BY <3>1, CarriesKept DEF Ascending, IsEvent, Reset
  <2>2. Carries(wire[c], Revs)'
    <3>1. Carries(wire[c], Revs)
      BY <1>5 DEF ConnOK
    <3> QED BY <3>1, CarriesKept
  <2>3. h[c].pc = "history" =>
          /\ h[c].todo # <<>> /\ Carries(h[c].todo, Ringed)' /\ Ascending(h[c].todo)'
          /\ \A i \in DOMAIN h[c].todo : h[c].todo[i].rev > h[c].max
    <3> SUFFICES ASSUME h[c].pc = "history"
                 PROVE  /\ h[c].todo # <<>> /\ Carries(h[c].todo, Ringed)' /\ Ascending(h[c].todo)'
                        /\ \A i \in DOMAIN h[c].todo : h[c].todo[i].rev > h[c].max
      OBVIOUS
    <3>1. /\ h[c].todo # <<>> /\ Carries(h[c].todo, Ringed) /\ Ascending(h[c].todo)
          /\ \A i \in DOMAIN h[c].todo : h[c].todo[i].rev > h[c].max
      BY <1>5 DEF ConnOK
    <3>2. \A r \in Ringed : hist'[r] = hist[r]
      BY <1>2
    <3>3. Carries(h[c].todo, Ringed)'
      BY <3>1, <3>2, CarriesKept
    <3> QED BY <3>1, <3>3 DEF Ascending, IsEvent, Reset
  <2>4. /\ h[c] = NoHandler => wire[c] = <<>>
        /\ h[c].pc = "open" => wire[c] = <<>> /\ h[c].max = h[c].last /\ ~h[c].reset
        /\ h[c] # NoHandler =>
             /\ h[c].last <= h[c].max /\ h[c].max <= Len(hist)
             /\ \A i \in DOMAIN wire[c] : wire[c][i] # Reset => wire[c][i].rev <= h[c].max
             /\ \/ h[c].max = h[c].last
                \/ h[c].max \in Ringed
                \/ h[c].pc = "gone" /\ (run.pc \in {"boot", "stopped"} \/ h[c].max <= run.base)
    BY <1>5 DEF ConnOK
  <2>5. h[c] # NoHandler =>
             /\ h[c].max <= Len(hist')
             /\ \/ h[c].max = h[c].last
                \/ h[c].max \in Ringed'
                \/ h[c].pc = "gone" /\ (run'.pc \in {"boot", "stopped"} \/ h[c].max <= run'.base)
    BY <1>1, <1>2, <2>4
  <2> QED BY <2>1, <2>2, <2>3, <2>4, <2>5 DEF ConnOK, Reset, NoHandler
<1>7. GapOK(c)'
  <2> SUFFICES ASSUME h[c] # NoHandler, h[c].pc # "open", h[c].early, ~h[c].reset
               PROVE  /\ h[c].pc \in {"history", "stream"} => c \in clients' \cup closed'
                      /\ \A r \in Asked(c, Ringed)' : r <= h[c].max => r \in RevsOf(wire[c])
                      /\ h[c].pc \in {"history", "stream"} =>
                           /\ \A r \in Asked(c, Ringed)' :
                                r > h[c].max => Behind(c, r) \/ r \in RevsOf(h[c].todo)
                           /\ \A r \in Asked(c, Given)' :
                                (/\ r > h[c].max /\ Behind(c, r)
                                 /\ c \in clients' \/ \E q \in RevsOf(send[c]) : r <= q)
                                   => r \in RevsOf(send[c])
    <3>1. \A r : Behind(c, r)' <=> Behind(c, r)
      BY DEF Behind, Last
    <3>2. /\ RevsOf(wire[c])' = RevsOf(wire[c]) /\ RevsOf(send[c])' = RevsOf(send[c])
          /\ RevsOf(h[c].todo)' = RevsOf(h[c].todo)
      BY DEF RevsOf, IsEvent, Reset
    <3> QED BY <3>1, <3>2 DEF GapOK, NoHandler
  <2>1. /\ h[c].pc \in {"history", "stream"} => c \in clients \cup closed
        /\ \A r \in Asked(c, Ringed) : r <= h[c].max => r \in RevsOf(wire[c])
        /\ h[c].pc \in {"history", "stream"} =>
             /\ \A r \in Asked(c, Ringed) :
                  r > h[c].max => Behind(c, r) \/ r \in RevsOf(h[c].todo)
             /\ \A r \in Asked(c, Given) :
                  (/\ r > h[c].max /\ Behind(c, r)
                   /\ c \in clients \/ \E q \in RevsOf(send[c]) : r <= q) => r \in RevsOf(send[c])
    BY <1>5 DEF GapOK
  <2>2. Asked(c, Given)' = Asked(c, Given)
    <3>1. \A r \in Given : hist'[r] = hist[r]
      BY <1>2
    <3> QED BY <3>1 DEF Asked
  <2>3. ASSUME NEW r \in Asked(c, Ringed)'
        PROVE  r \in Nat /\ (r \in Asked(c, Ringed) \/ (r > h[c].max /\ \A q \in Ringed : r > q))
    <3>1. r \in Ringed' /\ r > h[c].last /\ hist'[r].scope \in Sub[c]
      BY <2>3 DEF Asked
    <3>2. CASE r \in Ringed
      <4>1. hist'[r] = hist[r]
        BY <1>2, <3>2
      <4> QED BY <3>1, <3>2, <4>1 DEF Asked
    <3>3. CASE r \notin Ringed
      BY <3>1, <3>3
    <3> QED BY <3>2, <3>3
  <2>4. ASSUME NEW r \in Asked(c, Ringed)', r <= h[c].max PROVE r \in RevsOf(wire[c])
    BY <1>1, <2>1, <2>3, <2>4
  <2>5. ASSUME h[c].pc \in {"history", "stream"}, NEW r \in Asked(c, Ringed)', r > h[c].max
        PROVE  Behind(c, r) \/ r \in RevsOf(h[c].todo)
    <3>1. CASE r \in Asked(c, Ringed)
      BY <2>1, <2>5, <3>1
    <3>2. CASE \A q \in Ringed : r > q
      <4>1. h[c].pc = "history" => Last(h[c].todo).rev \in Ringed
        BY <1>5, TodoLast
      <4> QED BY <3>2, <4>1 DEF Behind
    <3> QED BY <2>3, <2>5, <3>1, <3>2
  <2>6. ASSUME h[c].pc \in {"history", "stream"}, NEW r \in Asked(c, Given)',
               r > h[c].max, Behind(c, r),
               c \in clients' \/ \E q \in RevsOf(send[c]) : r <= q
        PROVE  r \in RevsOf(send[c])
    BY <2>1, <2>2, <2>6
  <2> QED BY <2>1, <2>4, <2>5, <2>6
<1> QED BY <1>4, <1>6, <1>7 DEF PerConn
-----------------------------------------------------------------------------
(* What a step leaves alone.                                               *)

LEMMA InvParts ==
  StreamInv <=> /\ StreamTypeOK /\ RunOK /\ RingOK /\ HubOK /\ CacheOK
                /\ \A c \in Conns : PerConn(c)
BY DEF StreamInv, StreamOrdered, PerConn, OrderedOK

LEMMA InvParts2 ==
  StreamInv' <=> /\ StreamTypeOK' /\ RunOK' /\ RingOK' /\ HubOK' /\ CacheOK'
                 /\ \A c \in Conns : PerConn(c)'
BY DEF StreamInv, StreamOrdered, PerConn, OrderedOK

BaseKept == UNCHANGED <<messages, head, isFull, hist, run, cache, cacheRev>>

LEMMA SetsKept ==
  ASSUME hist' = hist, run' = run
  PROVE  Revs' = Revs /\ Ringed' = Ringed /\ Given' = Given
BY DEF Revs, Ringed, Given, IsFeature

LEMMA BaseSteps ==
  ASSUME StreamInv, BaseKept
  PROVE  RunOK' /\ RingOK' /\ CacheOK'
<1>1. hist' = hist /\ run' = run /\ cache' = cache /\ cacheRev' = cacheRev /\ UNCHANGED bufVars
  BY DEF BaseKept, bufVars
<1>2. StreamTypeOK /\ RunOK /\ RingOK /\ CacheOK
  BY DEF StreamInv
<1>3. RingOK'
  BY <1>1, <1>2, SetsKept, RingKept
<1>4. RunOK'
  BY <1>1, <1>2 DEF RunOK, IsFeature
<1>5. CacheOK'
  <2>1. CacheComplete' <=> CacheComplete
    BY <1>1 DEF CacheComplete, FetchAll, Taken, IsFeature, Revs, NoFlag
  <2>2. LoadOK' <=> LoadOK
    BY <1>1 DEF LoadOK, LiveAt, SameFlag, IsFeature, Revs, NoFlag
  <2> QED BY <1>1, <1>2, <2>1, <2>2 DEF CacheOK, IsFeature, Revs, NoFlag
<1> QED BY <1>3, <1>4, <1>5

LEMMA OtherConn ==
  ASSUME StreamInv, BaseKept, NEW d \in Conns,
         h'[d] = h[d], wire'[d] = wire[d], send'[d] = send[d],
         d \in clients \cup closed => d \in clients' \cup closed',
         d \in clients' => d \in clients \/ ~(h[d].pc \in {"history", "stream"} /\ h[d].early /\ ~h[d].reset)
  PROVE  PerConn(d)'
<1>1. hist' = hist /\ run' = run
  BY DEF BaseKept
<1>2. Revs' = Revs /\ Ringed' = Ringed /\ Given' = Given
  BY <1>1, SetsKept
<1>3. StreamTypeOK /\ PerConn(d)
  BY InvParts
<1>4. Len(hist) \in Nat /\ \A r \in Ringed : r \in Nat
  BY <1>3, FeatureType, RingedFacts
<1>5. /\ Len(hist) <= Len(hist') /\ Len(hist') \in Nat /\ \A r \in Revs : hist'[r] = hist[r]
      /\ \A r \in Ringed' : r \in Nat /\ (r \notin Ringed => \A q \in Ringed : r > q)
      /\ \A r \in Ringed' : r \notin Ringed /\ r > h[d].last => r > h[d].max
  BY <1>1, <1>2, <1>4
<1> QED BY <1>1, <1>2, <1>3, <1>5, ConnKept

LEMMA HubSame ==
  ASSUME HubOK, UNCHANGED hubVars, \A c \in Conns : h[c] # NoHandler => h'[c] # NoHandler
  PROVE  HubOK'
BY DEF HubOK, SendsAreOpen, hubVars, Range, NoHandler

-----------------------------------------------------------------------------
(* The hub.                                                                *)

LEMMA RegisterStep ==
  ASSUME StreamInv, HubRegister, UNCHANGED <<bufVars, flagVars>>
  PROVE  StreamInv'
<1> DEFINE c == Head(register)
<1>0. BaseKept /\ UNCHANGED <<h, wire, failures, send, closed, unregister>>
  BY DEF BaseKept, bufVars, flagVars, HubRegister
<1>1. StreamTypeOK /\ HubOK
  BY InvParts
<1>2. register \in Seq(Conns) /\ register # <<>>
  BY <1>1 DEF StreamTypeOK, HubRegister
<1>3. /\ c \in Conns /\ c = register[1] /\ 1 \in DOMAIN register
      /\ register' = Tail(register) /\ register' \in Seq(Conns)
      /\ Len(register) \in Nat /\ Len(register') = Len(register) - 1
      /\ \A j \in 1 .. Len(register) - 1 : register'[j] = register[j + 1]
  <2>1. register' = Tail(register)
    BY DEF HubRegister
  <2> QED BY <1>2, <2>1, SeqTail
<1>4. /\ clients' = clients \cup {c}
      /\ wildcards' = IF c \in Wild THEN wildcards \cup {c} ELSE wildcards
      /\ shards' = IF c \in Wild THEN shards ELSE shards \cup (Sub[c] \X {c})
  BY DEF HubRegister, addToShards
<1> HIDE DEF c
<1>5. StreamTypeOK'
  <2>1. Sub[c] \subseteq Scopes
    BY <1>3, HubConstants
  <2>2. clients' \subseteq Conns /\ wildcards' \subseteq Conns /\ shards' \subseteq Scopes \X Conns
    BY <1>1, <1>3, <1>4, <2>1 DEF StreamTypeOK
  <2> QED BY <1>0, <1>1, <1>3, <2>2 DEF StreamTypeOK, BaseKept
<1>6. c \notin clients \cup closed /\ h[c] # NoHandler
  BY <1>1, <1>3 DEF HubOK, Range
<1>7. HubOK'
  <2>1. SendsAreOpen'
    BY <1>0, <1>1, <1>4, <1>6 DEF HubOK, SendsAreOpen
  <2>2. \A i, j \in DOMAIN register' : register'[i] = register'[j] => i = j
    <3> SUFFICES ASSUME NEW i \in 1 .. Len(register'), NEW j \in 1 .. Len(register'),
                        register'[i] = register'[j]
                 PROVE  i = j
      BY <1>3
    <3>1. i + 1 \in DOMAIN register /\ j + 1 \in DOMAIN register /\ register[i + 1] = register[j + 1]
      BY <1>2, <1>3
    <3>2. i + 1 = j + 1
      BY <1>1, <3>1 DEF HubOK
    <3> QED BY <3>2
  <2>3. \A i \in DOMAIN register' : register'[i] \notin clients' \cup closed'
    <3> SUFFICES ASSUME NEW i \in 1 .. Len(register') PROVE register'[i] \notin clients' \cup closed'
      BY <1>3
    <3>1. i + 1 \in DOMAIN register /\ register'[i] = register[i + 1] /\ i + 1 # 1
      BY <1>2, <1>3
    <3>2. register[i + 1] \notin clients \cup closed /\ register[i + 1] # c
      BY <1>1, <1>3, <3>1 DEF HubOK
    <3> QED BY <1>0, <1>4, <3>1, <3>2
  <2>4. \A d \in Conns : d \in clients' \cup closed' \cup Range(register') => h'[d] # NoHandler'
    <3> SUFFICES ASSUME NEW d \in Conns, d \in clients' \cup closed' \cup Range(register')
                 PROVE  h[d] # NoHandler
      BY <1>0 DEF NoHandler
    <3>1. Range(register') \subseteq Range(register)
      <4>1. \A i \in 1 .. Len(register') : i + 1 \in DOMAIN register /\ register'[i] = register[i + 1]
        BY <1>2, <1>3
      <4> QED BY <1>3, <4>1 DEF Range
    <3> QED BY <1>0, <1>1, <1>4, <1>6, <3>1 DEF HubOK
  <2>5. \A d \in clients' : IF d \in Wild THEN d \in wildcards'
                            ELSE \A s \in Sub[d] : <<s, d>> \in shards'
    BY <1>1, <1>4 DEF HubOK
  <2> QED BY <2>1, <2>2, <2>3, <2>4, <2>5 DEF HubOK, Range, NoHandler
<1>8. ASSUME NEW d \in Conns PROVE PerConn(d)'
  <2>1. d \in clients' => d \in clients \/ ~(h[d].pc \in {"history", "stream"} /\ h[d].early /\ ~h[d].reset)
    <3> SUFFICES ASSUME d = c, h[d].pc \in {"history", "stream"}, h[d].early, ~h[d].reset PROVE FALSE
      BY <1>4
    <3>1. GapOK(c) /\ h[c] # NoHandler /\ h[c].pc # "open"
      BY <1>3, <1>6, InvParts DEF PerConn
    <3>2. c \in clients \cup closed
      BY <3>1 DEF GapOK
    <3> QED BY <1>6, <3>2
  <2> QED BY <1>0, <1>4, <2>1, OtherConn
<1> QED BY <1>0, <1>5, <1>7, <1>8, BaseSteps, InvParts2
LEMMA RemoveHub ==
  ASSUME StreamTypeOK, HubOK, NEW C, C \subseteq clients, removeClients(C),
         register' = register, h' = h
  PROVE  /\ HubOK'
         /\ clients' \subseteq Conns /\ wildcards' \subseteq Conns /\ closed' \subseteq Conns
         /\ shards' \subseteq Scopes \X Conns
         /\ clients' \subseteq clients
         /\ clients \cup closed \subseteq clients' \cup closed'
<1>1. /\ clients' = clients \ C /\ wildcards' = wildcards \ C
      /\ shards' = {p \in shards : p[2] \notin C} /\ closed' = closed \cup (C \cap clients)
  BY DEF removeClients
<1>2. /\ clients \subseteq Conns /\ wildcards \subseteq Conns /\ closed \subseteq Conns
      /\ shards \subseteq Scopes \X Conns
  BY DEF StreamTypeOK
<1>3. SendsAreOpen'
  BY <1>1 DEF HubOK, SendsAreOpen
<1>4. \A i \in DOMAIN register : register[i] \notin clients' \cup closed'
  BY <1>1 DEF HubOK
<1>5. \A c \in Conns : c \in clients' \cup closed' \cup Range(register) => h[c] # NoHandler
  BY <1>1 DEF HubOK
<1>6. \A c \in clients' : IF c \in Wild THEN c \in wildcards'
                          ELSE \A s \in Sub[c] : <<s, c>> \in shards'
  BY <1>1 DEF HubOK
<1>7. HubOK'
  BY <1>3, <1>4, <1>5, <1>6 DEF HubOK, Range, NoHandler
<1> QED BY <1>1, <1>2, <1>7

LEMMA UnregisterStep ==
  ASSUME StreamInv, HubUnregister, UNCHANGED <<bufVars, flagVars>>
  PROVE  StreamInv'
<1>0. BaseKept /\ UNCHANGED <<h, wire, failures, send, register>>
  BY DEF BaseKept, bufVars, flagVars, HubUnregister
<1>1. StreamTypeOK /\ HubOK
  BY InvParts
<1>2. removeClients({Head(unregister)} \cap clients) /\ {Head(unregister)} \cap clients \subseteq clients
  BY DEF HubUnregister
<1>3. /\ HubOK'
      /\ clients' \subseteq Conns /\ wildcards' \subseteq Conns /\ closed' \subseteq Conns
      /\ shards' \subseteq Scopes \X Conns
      /\ clients' \subseteq clients
      /\ clients \cup closed \subseteq clients' \cup closed'
  BY <1>0, <1>1, <1>2, RemoveHub
<1>4. unregister' \in Seq(Conns)
  <2>1. unregister \in Seq(Conns) /\ unregister # <<>> /\ unregister' = Tail(unregister)
    BY <1>1 DEF StreamTypeOK, HubUnregister
  <2> QED BY <2>1, SeqTail
<1>5. StreamTypeOK'
  BY <1>0, <1>1, <1>3, <1>4 DEF StreamTypeOK, BaseKept
<1>6. ASSUME NEW d \in Conns PROVE PerConn(d)'
  BY <1>0, <1>3, OtherConn
<1> QED BY <1>0, <1>3, <1>5, <1>6, BaseSteps, InvParts2

\* A message goes to the channel of connection d, or does not.
LEMMA SendConn ==
  ASSUME StreamInv, NEW d \in Conns, NEW m \in Message \cup {Ping},
         h' = h, wire' = wire, hist' = hist, run'.base = run.base, Ringed' = Ringed,
         run.pc \in {"boot", "stopped"} => run'.pc \in {"boot", "stopped"},
         Given' = Given \cup (IF IsEvent(m) THEN {m.rev} ELSE {}),
         IsEvent(m) => m.rev \in Ringed /\ m = Msg(m.rev) /\ \A g \in Given : g < m.rev,
         \/ send'[d] = Append(send[d], m) /\ d \in clients
         \/ send'[d] = send[d] /\ (d \in clients' /\ IsEvent(m) => m.scope \notin Sub[d]),
         clients' \subseteq clients, clients \cup closed \subseteq clients' \cup closed'
  PROVE  PerConn(d)'
<1>1. /\ StreamTypeOK /\ OrderedOK(d) /\ ConnOK(d) /\ GapOK(d)
  BY InvParts DEF PerConn
<1>2. /\ send[d] \in Seq(Message \cup {Ping}) /\ wire[d] \in Seq(Message \cup {Reset})
      /\ h[d] # NoHandler => h[d].last \in Nat /\ h[d].max \in Nat
  BY <1>1, ConnType
<1>3. /\ Given \subseteq Ringed /\ Ringed \subseteq Revs /\ \A r \in Ringed : r \in Nat /\ Msg(r).scope = hist[r].scope
  BY <1>1, RingedFacts, MsgType
<1>4. Revs' = Revs
  BY DEF Revs
<1>5. Carries(send[d], Given) /\ Ascending(send[d]) /\ RevsOf(send[d]) \subseteq Given
  BY <1>1, <1>2, CarriesRevs DEF ConnOK
<1>r. RevsOf(Append(send[d], m)) = IF IsEvent(m) THEN RevsOf(send[d]) \cup {m.rev} ELSE RevsOf(send[d])
  <2> DEFINE S == Message \cup {Ping}
  <2>1. send[d] \in Seq(S) /\ m \in S
    BY <1>2
  <2> HIDE DEF S
  <2> QED BY <2>1, RevsAppend, Zenon
<1>6. Carries(send[d], Given)' /\ Ascending(send[d])'
  <2>0. Carries(send[d], Given')
    BY <1>5 DEF Carries
  <2>1. CASE send'[d] = Append(send[d], m)
    <3>1. IsEvent(m) => \A i \in 1 .. Len(send[d]) : IsEvent(send[d][i]) => send[d][i].rev < m.rev
      BY <1>2, <1>5 DEF Carries
    <3>2. Ascending(Append(send[d], m))
      BY <1>2, <1>5, <3>1, AscAppend
    <3>3. Carries(Append(send[d], m), Given')
      BY <1>2, <2>0, CarriesAppend
    <3>4. Ascending(send'[d]) /\ Carries(send'[d], Given')
      BY <2>1, <3>2, <3>3
    <3> QED BY <3>4, CarriesKept DEF Ascending, IsEvent, Reset
  <2>2. CASE send'[d] = send[d]
    <3>1. Ascending(send'[d]) /\ Carries(send'[d], Given')
      BY <1>5, <2>0, <2>2
    <3> QED BY <3>1, CarriesKept DEF Ascending, IsEvent, Reset
  <2> QED BY <2>1, <2>2
<1>7. OrderedOK(d)'
  BY <1>1 DEF OrderedOK, Ascending, IsEvent, Reset
<1>8. ConnOK(d)'
  <2>1. Carries(wire[d], Revs)'
    <3>1. Carries(wire[d], Revs)
      BY <1>1 DEF ConnOK
    <3> QED BY <1>4, <3>1, CarriesKept
  <2>2. h[d].pc = "history" => Carries(h[d].todo, Ringed)' /\ Ascending(h[d].todo)'
    <3>1. h[d].pc = "history" => Carries(h[d].todo, Ringed) /\ Ascending(h[d].todo)
      BY <1>1 DEF ConnOK
    <3> QED BY <3>1, CarriesKept DEF Ascending, IsEvent, Reset
  <2> QED BY <1>1, <1>6, <2>1, <2>2 DEF ConnOK, Reset, NoHandler
<1>9. GapOK(d)'
  <2> SUFFICES ASSUME h[d] # NoHandler, h[d].pc # "open", h[d].early, ~h[d].reset
               PROVE  /\ h[d].pc \in {"history", "stream"} => d \in clients' \cup closed'
                      /\ \A r \in Asked(d, Ringed) : r <= h[d].max => r \in RevsOf(wire[d])
                      /\ h[d].pc \in {"history", "stream"} =>
                           /\ \A r \in Asked(d, Ringed) :
                                r > h[d].max => Behind(d, r) \/ r \in RevsOf(h[d].todo)
                           /\ \A r \in Asked(d, Given') :
                                (/\ r > h[d].max /\ Behind(d, r)
                                 /\ d \in clients' \/ \E q \in RevsOf(send'[d]) : r <= q)
                                   => r \in RevsOf(send'[d])
    <3>1. \A r : Behind(d, r)' <=> Behind(d, r)
      BY DEF Behind, Last
    <3>2. /\ RevsOf(wire[d])' = RevsOf(wire[d]) /\ RevsOf(send[d])' = RevsOf(send'[d])
          /\ RevsOf(h[d].todo)' = RevsOf(h[d].todo)
      BY DEF RevsOf, IsEvent, Reset
    <3>3. Asked(d, Ringed)' = Asked(d, Ringed) /\ Asked(d, Given)' = Asked(d, Given')
      BY DEF Asked
    <3> QED BY <3>1, <3>2, <3>3 DEF GapOK, NoHandler
  <2>1. /\ h[d].pc \in {"history", "stream"} => d \in clients \cup closed
        /\ \A r \in Asked(d, Ringed) : r <= h[d].max => r \in RevsOf(wire[d])
        /\ h[d].pc \in {"history", "stream"} =>
             /\ \A r \in Asked(d, Ringed) :
                  r > h[d].max => Behind(d, r) \/ r \in RevsOf(h[d].todo)
             /\ \A r \in Asked(d, Given) :
                  (/\ r > h[d].max /\ Behind(d, r)
                   /\ d \in clients \/ \E q \in RevsOf(send[d]) : r <= q) => r \in RevsOf(send[d])
    BY <1>1 DEF GapOK
  <2>2. ASSUME h[d].pc \in {"history", "stream"}, NEW r \in Asked(d, Given'),
               r > h[d].max, Behind(d, r),
               d \in clients' \/ \E q \in RevsOf(send'[d]) : r <= q
        PROVE  r \in RevsOf(send'[d])
    <3>0. r \in Given' /\ hist[r].scope \in Sub[d]
      BY <2>2 DEF Asked
    <3>1. CASE send'[d] = Append(send[d], m) /\ d \in clients
      <4>1. RevsOf(send'[d]) = IF IsEvent(m) THEN RevsOf(send[d]) \cup {m.rev} ELSE RevsOf(send[d])
        BY <1>r, <3>1
      <4>2. CASE r \in Given
        <5>1. r \in Asked(d, Given)
          BY <2>2, <4>2 DEF Asked
        <5> QED BY <2>1, <2>2, <3>1, <4>1, <5>1
      <4>3. CASE r \notin Given
        BY <3>0, <4>1, <4>3
      <4> QED BY <4>2, <4>3
    <3>2. CASE send'[d] = send[d] /\ (d \in clients' /\ IsEvent(m) => m.scope \notin Sub[d])
      <4>1. r \in Given
        <5> SUFFICES ASSUME r \notin Given PROVE FALSE
          OBVIOUS
        <5>1. IsEvent(m) /\ r = m.rev /\ m.scope = hist[r].scope
          BY <1>3, <3>0
        <5>2. CASE d \in clients'
          BY <3>0, <3>2, <5>1, <5>2
        <5>3. CASE \E q \in RevsOf(send[d]) : r <= q
          <6>1. PICK q \in Given : r <= q
            BY <1>5, <5>3
          <6>2. q < r /\ q \in Nat /\ r \in Nat
            BY <1>3, <5>1
          <6> QED BY <6>1, <6>2
        <5> QED BY <2>2, <3>2, <5>2, <5>3
      <4>2. r \in Asked(d, Given)
        BY <2>2, <4>1 DEF Asked
      <4> QED BY <2>1, <2>2, <3>2, <4>2
    <3> QED BY <3>1, <3>2
  <2> QED BY <2>1, <2>2
<1> QED BY <1>7, <1>8, <1>9 DEF PerConn
\* Who gets a message, and who is thrown out for it.
LEMMA SendHub ==
  ASSUME StreamInv, NEW C, C \subseteq clients, NEW m \in Message \cup {Ping}, sendMessage(C, m),
         register' = register, h' = h
  PROVE  /\ HubOK'
         /\ clients' \subseteq Conns /\ wildcards' \subseteq Conns /\ closed' \subseteq Conns
         /\ shards' \subseteq Scopes \X Conns
         /\ send' \in [Conns -> Seq(Message \cup {Ping})]
         /\ clients' \subseteq clients
         /\ clients \cup closed \subseteq clients' \cup closed'
         /\ \A d \in Conns : \/ send'[d] = Append(send[d], m) /\ d \in clients
                             \/ send'[d] = send[d] /\ (d \in clients' => d \notin C)
<1> DEFINE full == {c \in C : Len(send[c]) = SendCap}
<1>1. /\ send' = [c \in Conns |-> IF c \in C \ full THEN Append(send[c], m) ELSE send[c]]
      /\ removeClients(full)
  BY DEF sendMessage
<1>2. full \subseteq C /\ full \subseteq clients
  OBVIOUS
<1> HIDE DEF full
<1>3. StreamTypeOK /\ HubOK /\ send \in [Conns -> Seq(Message \cup {Ping})]
  BY InvParts DEF StreamTypeOK
<1>4. /\ HubOK'
      /\ clients' \subseteq Conns /\ wildcards' \subseteq Conns /\ closed' \subseteq Conns
      /\ shards' \subseteq Scopes \X Conns
      /\ clients' \subseteq clients
      /\ clients \cup closed \subseteq clients' \cup closed'
  BY <1>1, <1>2, <1>3, RemoveHub
<1>5. clients' = clients \ full
  BY <1>1 DEF removeClients
<1>6. \A d \in Conns : send'[d] = IF d \in C \ full THEN Append(send[d], m) ELSE send[d]
  BY <1>1
<1>7. send' \in [Conns -> Seq(Message \cup {Ping})]
  <2>1. \A d \in Conns : Append(send[d], m) \in Seq(Message \cup {Ping})
    BY <1>3
  <2> QED BY <1>1, <1>3, <2>1
<1>8. \A d \in Conns : \/ send'[d] = Append(send[d], m) /\ d \in clients
                       \/ send'[d] = send[d] /\ (d \in clients' => d \notin C)
  BY <1>5, <1>6
<1> QED BY <1>4, <1>7, <1>8

LEMMA HeartbeatStep ==
  ASSUME StreamInv, HubHeartbeat, UNCHANGED <<bufVars, flagVars>>
  PROVE  StreamInv'
<1>0. BaseKept /\ UNCHANGED <<h, wire, failures, register, unregister>>
  BY DEF BaseKept, bufVars, flagVars, HubHeartbeat
<1>1. StreamTypeOK
  BY InvParts
<1>2. sendMessage(clients, Ping) /\ Ping \in Message \cup {Ping} /\ clients \subseteq clients
  BY DEF HubHeartbeat
<1>3. /\ HubOK'
      /\ clients' \subseteq Conns /\ wildcards' \subseteq Conns /\ closed' \subseteq Conns
      /\ shards' \subseteq Scopes \X Conns
      /\ send' \in [Conns -> Seq(Message \cup {Ping})]
      /\ clients' \subseteq clients
      /\ clients \cup closed \subseteq clients' \cup closed'
      /\ \A d \in Conns : \/ send'[d] = Append(send[d], Ping) /\ d \in clients
                          \/ send'[d] = send[d] /\ (d \in clients' => d \notin clients)
  BY <1>0, <1>2, SendHub
<1>4. StreamTypeOK'
  BY <1>0, <1>1, <1>3 DEF StreamTypeOK, BaseKept
<1>5. ASSUME NEW d \in Conns PROVE PerConn(d)'
  <2>1. hist' = hist /\ run' = run /\ Ringed' = Ringed /\ Given' = Given /\ ~IsEvent(Ping)
    BY <1>0, SetsKept DEF BaseKept, IsEvent
  <2> QED BY <1>0, <1>2, <1>3, <2>1, SendConn
<1> QED BY <1>0, <1>3, <1>4, <1>5, BaseSteps, InvParts2

RunType == [pc : {"boot", "load", "watch", "buffer", "bcast", "stopped"},
            base : Nat, pos : Nat, todo : SUBSET Nat]

\* Run's step RunBroadcast: the hub takes the message.
LEMMA BroadcastStep ==
  ASSUME StreamInv, RunBroadcast
  PROVE  StreamInv'
<1> DEFINE p == run.pos
           m == Msg(p)
<1>0. /\ run.pc = "bcast" /\ HubBroadcast(m) /\ run' = [run EXCEPT !.pc = "watch"]
      /\ UNCHANGED <<messages, head, isFull, hist, cache, cacheRev, h, wire, failures>>
  BY DEF RunBroadcast, bufVars
<1>1. StreamTypeOK /\ RunOK /\ RingOK /\ HubOK /\ CacheOK
  BY InvParts
<1>2. /\ run \in RunType /\ run' \in RunType
      /\ run'.pc = "watch" /\ run'.base = run.base /\ run'.pos = run.pos
  BY <1>0, <1>1 DEF StreamTypeOK, RunType
<1>3. p \in Revs /\ IsFeature(p) /\ p > run.base /\ p <= Len(hist) /\ p \in Nat /\ p <= p
  BY <1>0, <1>1, <1>2, FeatureType DEF RunOK, Revs, RunType
<1>4. Revs' = Revs /\ Ringed' = Ringed /\ Given' = Given \cup {p} /\ p \in Ringed /\ \A g \in Given : g < p
  <2>1. Revs' = Revs /\ \A r \in Revs : IsFeature(r)' <=> IsFeature(r)
    BY <1>0 DEF Revs, IsFeature
  <2>2. Ringed' = Ringed /\ p \in Ringed
    BY <1>0, <1>2, <1>3, <2>1 DEF Ringed
  <2>3. \A g \in Given : g < p
    BY <1>0 DEF Given
  <2>4. Given' = Given \cup {p}
    <3>1. ASSUME NEW r \in Revs, r <= p, r # p PROVE r < p
      BY <1>1, <1>3, <3>1, FeatureType
    <3> QED BY <1>0, <1>2, <1>3, <2>1, <3>1 DEF Given
  <2> QED BY <2>1, <2>2, <2>3, <2>4
<1>5. m \in Message /\ m.rev = p /\ m.scope = hist[p].scope /\ IsEvent(m)
  BY <1>1, <1>3, MsgType, EventMsg
<1>6. m = Msg(m.rev)
  BY <1>5
<1>7. sendMessage(Audience(m.scope), m) /\ register' = register /\ unregister' = unregister
  BY <1>0 DEF HubBroadcast
<1>8. Audience(m.scope) \subseteq clients
  BY <1>1 DEF HubOK, SendsAreOpen, Audience
<1> HIDE DEF m, p
<1>9. /\ HubOK'
      /\ clients' \subseteq Conns /\ wildcards' \subseteq Conns /\ closed' \subseteq Conns
      /\ shards' \subseteq Scopes \X Conns
      /\ send' \in [Conns -> Seq(Message \cup {Ping})]
      /\ clients' \subseteq clients
      /\ clients \cup closed \subseteq clients' \cup closed'
      /\ \A d \in Conns : \/ send'[d] = Append(send[d], m) /\ d \in clients
                          \/ send'[d] = send[d] /\ (d \in clients' => d \notin Audience(m.scope))
  BY <1>0, <1>5, <1>7, <1>8, SendHub
<1>10. StreamTypeOK'
  BY <1>0, <1>1, <1>2, <1>7, <1>9 DEF StreamTypeOK, RunType
<1>11. RunOK'
  BY <1>0, <1>1, <1>2 DEF RunOK, IsFeature
<1>12. RingOK'
  BY <1>0, <1>1, <1>4, RingKept DEF bufVars
<1>13. CacheOK'
  <2>1. CacheComplete' <=> CacheComplete
    BY <1>0, <1>2 DEF CacheComplete, FetchAll, Taken, IsFeature, Revs, NoFlag
  <2>2. LoadOK'
    BY <1>2 DEF LoadOK
  <2> QED BY <1>0, <1>1, <1>2, <2>1, <2>2 DEF CacheOK, IsFeature, Revs, NoFlag
<1>14. ASSUME NEW d \in Conns PROVE PerConn(d)'
  <2>1. d \in clients /\ d \notin Audience(m.scope) => m.scope \notin Sub[d]
    BY <1>1 DEF HubOK, Audience
  <2>2. \/ send'[d] = Append(send[d], m) /\ d \in clients
        \/ send'[d] = send[d] /\ (d \in clients' /\ IsEvent(m) => m.scope \notin Sub[d])
    BY <1>9, <2>1
  <2> QED BY <1>0, <1>2, <1>4, <1>5, <1>6, <1>9, <2>2, SendConn
<1> QED BY <1>9, <1>10, <1>11, <1>12, <1>13, <1>14, InvParts2
-----------------------------------------------------------------------------
(* etcd and Run.                                                           *)

Complete(n, s) ==
  (/\ Taken(n) # {}
   /\ hist[Max(Taken(n))].act = "put"
   /\ \A r \in Taken(n) : hist[r].scope = s)
    => cache[n] # NoFlag /\ cache[n].scope = s /\ cache[n].rev = Max(Taken(n))

LEMMA CompleteIs == CacheComplete <=> \A n \in Names, s \in Scopes : Complete(n, s)
BY DEF CacheComplete, Complete, FetchAll

LEMMA CompleteIs2 == CacheComplete' <=> \A n \in Names, s \in Scopes : Complete(n, s)'
BY DEF CacheComplete, Complete, FetchAll

LEMMA TakenType ==
  ASSUME StreamTypeOK, NEW n
  PROVE  /\ Taken(n) \subseteq 0 .. Len(hist) /\ Taken(n) \subseteq Nat
         /\ Taken(n) # {} => Max(Taken(n)) \in Taken(n) /\ \A y \in Taken(n) : y <= Max(Taken(n))
<1>1. Len(hist) \in Nat /\ \A r \in Revs : r \in Nat
  BY FeatureType
<1>2. Taken(n) \subseteq 0 .. Len(hist) /\ Taken(n) \subseteq Nat
  BY <1>1 DEF Taken, Revs
<1> QED BY <1>1, <1>2, MaxIn

LEMMA EtcdStep ==
  ASSUME StreamInv, NEW e \in Events, EtcdEvent(e)
  PROVE  StreamInv'
<1>0. /\ hist' = Append(hist, e)
      /\ UNCHANGED <<messages, head, isFull, run, cache, cacheRev, h, wire, failures>>
      /\ UNCHANGED hubVars
  BY DEF EtcdEvent, bufVars
<1>h. UNCHANGED <<register, unregister, clients, shards, wildcards, send, closed>>
  BY <1>0 DEF hubVars
<1>1. StreamTypeOK /\ RunOK /\ RingOK /\ HubOK /\ CacheOK
  BY InvParts
<1>2. /\ hist' \in Seq(Events) /\ Len(hist) \in Nat /\ Len(hist') = Len(hist) + 1
      /\ \A r \in Revs : hist'[r] = hist[r]
  BY <1>0, <1>1, SeqAppend DEF StreamTypeOK, Revs
<1>3. /\ run.pos \in Nat /\ run.base \in Nat /\ run.base <= run.pos /\ run.pos <= Len(hist)
  BY <1>1 DEF StreamTypeOK, RunOK
<1>4. Revs \subseteq Revs' /\ \A r \in Revs' : r \in Revs \/ r > run.pos
  BY <1>2, <1>3 DEF Revs
<1>5. \A r \in Revs : IsFeature(r)' <=> IsFeature(r)
  BY <1>2 DEF IsFeature
<1>6. \A r \in Revs' : r <= run.pos => r \in Revs
  BY <1>2, <1>3 DEF Revs
<1>7. Ringed' = Ringed /\ Given' = Given
  BY <1>0, <1>4, <1>5, <1>6 DEF Ringed, Given
<1>8. StreamTypeOK'
  BY <1>0, <1>h, <1>1, <1>2 DEF StreamTypeOK
<1>9. RunOK'
  <2>1. run.pc \in {"buffer", "bcast"} => run.pos > run.base /\ IsFeature(run.pos) /\ run.pos \in Revs
    BY <1>1, <1>2, <1>3 DEF RunOK, Revs
  <2>2. run.pc \in {"buffer", "bcast"} => IsFeature(run.pos)'
    BY <1>0, <1>5, <2>1
  <2> QED BY <1>0, <1>1, <1>2, <1>3, <2>1, <2>2 DEF RunOK
<1>10. RingOK'
  <2>1. \A r \in Ringed : hist'[r] = hist[r]
    BY <1>1, <1>2, RingedFacts
  <2> QED BY <1>0, <1>1, <1>7, <2>1, RingKept DEF bufVars
<1>11. HubOK'
  BY <1>0, <1>1, HubSame
<1>12. CacheOK'
  <2>1. ASSUME NEW n PROVE Taken(n)' = Taken(n)
    BY <1>0, <1>2, <1>4, <1>5, <1>6 DEF Taken
  <2>2. \A n \in Names, s \in Scopes : Complete(n, s) => Complete(n, s)'
    <3> SUFFICES ASSUME NEW n \in Names, NEW s \in Scopes, Complete(n, s) PROVE Complete(n, s)'
      OBVIOUS
    <3>1. Taken(n)' = Taken(n)
      BY <2>1
    <3>2. \A r \in Taken(n) : hist'[r] = hist[r]
      BY <1>2 DEF Taken
    <3>3. Taken(n) # {} => hist'[Max(Taken(n))] = hist[Max(Taken(n))]
      BY <1>1, <3>2, TakenType
    <3> QED BY <1>0, <3>1, <3>2, <3>3 DEF Complete, NoFlag
  <2>3. CacheComplete => CacheComplete'
    BY <2>2, CompleteIs, CompleteIs2
  <2>4. \A n \in Names : cache[n] # NoFlag =>
          /\ cache[n].rev \in Revs' /\ cache[n].rev <= run.pos
          /\ hist'[cache[n].rev] = [act |-> "put", scope |-> cache[n].scope, name |-> n]
    BY <1>1, <1>2, <1>4 DEF CacheOK
  <2>5. \A r \in Revs' : (IsFeature(r)' /\ r > run.base /\ r <= run.pos /\ hist'[r].act = "put")
                           => cache[hist'[r].name].rev >= r
    BY <1>1, <1>2, <1>5, <1>6 DEF CacheOK
  <2>6. LoadOK'
    <3> SUFFICES ASSUME run.pc = "load" PROVE LoadOK'
      BY <1>0 DEF LoadOK
    <3>1. run.base = run.pos /\ LoadOK
      BY <1>1 DEF CacheOK, LoadOK
    <3>2. LiveAt(run.base)' = LiveAt(run.base) /\ LiveAt(run.base) \subseteq Revs
      BY <1>0, <1>2, <1>4, <1>5, <1>6, <3>1 DEF LiveAt, SameFlag
    <3> QED BY <1>0, <1>2, <3>1, <3>2 DEF LoadOK, NoFlag
  <2> QED BY <1>0, <1>1, <2>3, <2>4, <2>5, <2>6 DEF CacheOK, NoFlag
<1>13. ASSUME NEW d \in Conns PROVE PerConn(d)'
  <2>1. PerConn(d)
    BY InvParts
  <2>2. \A r \in Ringed' : r \in Nat /\ r \in Ringed
    BY <1>1, <1>7, RingedFacts
  <2>3. Len(hist) <= Len(hist') /\ Len(hist') \in Nat
    BY <1>2
  <2>4. /\ h'[d] = h[d] /\ wire'[d] = wire[d] /\ send'[d] = send[d] /\ clients' = clients /\ closed' = closed
        /\ run' = run
    BY <1>0, <1>h
  <2> QED BY <1>1, <1>2, <1>4, <1>7, <2>1, <2>2, <2>3, <2>4, ConnKept
<1> QED BY <1>8, <1>9, <1>10, <1>11, <1>12, <1>13, InvParts2

LEMMA BufferStep ==
  ASSUME StreamInv, RunBuffer
  PROVE  StreamInv'
<1> DEFINE p == run.pos
<1>0. /\ run.pc = "buffer" /\ AddMessage(Msg(p)) /\ run' = [run EXCEPT !.pc = "bcast"]
      /\ UNCHANGED <<hist, cache, cacheRev, h, wire, failures>> /\ UNCHANGED hubVars
  BY DEF RunBuffer
<1>h. UNCHANGED <<register, unregister, clients, shards, wildcards, send, closed>>
  BY <1>0 DEF hubVars
<1>1. StreamTypeOK /\ RunOK /\ RingOK /\ HubOK /\ CacheOK
  BY InvParts
<1>2. /\ run \in RunType /\ run' \in RunType
      /\ run'.pc = "bcast" /\ run'.base = run.base /\ run'.pos = run.pos
  BY <1>0, <1>1 DEF StreamTypeOK, RunType
<1>3. p \in Revs /\ IsFeature(p) /\ p > run.base /\ p <= Len(hist) /\ p \in Nat /\ Len(hist) \in Nat
  BY <1>0, <1>1, <1>2, FeatureType DEF RunOK, Revs, RunType
<1>4. Revs' = Revs /\ \A r \in Revs : IsFeature(r)' <=> IsFeature(r)
  BY <1>0 DEF Revs, IsFeature
<1>5. /\ Ringed' = Ringed \cup {p} /\ \A r \in Ringed : r < p
      /\ Given' = Given
  <2>1. \A r \in Revs : r \in Nat /\ (r <= p /\ r # p => r < p) /\ ~(p < p) /\ p <= p
    BY <1>1, <1>3, FeatureType
  <2>2. \A r \in Ringed : r < p
    BY <1>0 DEF Ringed
  <2>3. Given' = Given
    BY <1>0, <1>2, <1>4 DEF Given
  <2>4. Ringed' = Ringed \cup {p}
    BY <1>0, <1>2, <1>3, <1>4, <2>1 DEF Ringed
  <2> QED BY <2>2, <2>3, <2>4
<1>6. RingOK' /\ RingType'
  BY <1>0, <1>1, <1>3, <1>5, RingPut
<1>7. StreamTypeOK'
  BY <1>0, <1>h, <1>1, <1>2, <1>6 DEF StreamTypeOK, RingType, RunType
<1>8. RunOK'
  BY <1>0, <1>1, <1>2 DEF RunOK, IsFeature
<1>9. HubOK'
  BY <1>0, <1>1, HubSame
<1>10. CacheOK'
  <2>1. CacheComplete' <=> CacheComplete
    BY <1>0, <1>2 DEF CacheComplete, FetchAll, Taken, IsFeature, Revs, NoFlag
  <2>2. LoadOK'
    BY <1>2 DEF LoadOK
  <2> QED BY <1>0, <1>1, <1>2, <2>1, <2>2 DEF CacheOK, IsFeature, Revs, NoFlag
<1>11. ASSUME NEW d \in Conns PROVE PerConn(d)'
  <2>1. PerConn(d)
    BY InvParts
  <2>2. \A r \in Ringed' : r \in Nat /\ (r \notin Ringed => r = p /\ \A q \in Ringed : r > q)
    <3>1. \A q \in Ringed : q \in Nat /\ p > q
      BY <1>1, <1>3, <1>5, RingedFacts
    <3> QED BY <1>3, <1>5, <3>1
  <2>3. (h[d] # NoHandler /\ p > h[d].last) => p > h[d].max
    <3> SUFFICES ASSUME h[d] # NoHandler, p > h[d].last PROVE p > h[d].max
      OBVIOUS
    <3>1. \/ h[d].max = h[d].last
          \/ h[d].max \in Ringed
          \/ h[d].pc = "gone" /\ (run.pc \in {"boot", "stopped"} \/ h[d].max <= run.base)
      BY <2>1 DEF PerConn, ConnOK
    <3>2. h[d].max \in Nat /\ run.base \in Nat
      BY <1>1, <1>2, ConnType DEF RunType
    <3>3. CASE h[d].max \in Ringed
      BY <1>3, <1>5, <3>2, <3>3
    <3>4. CASE h[d].max <= run.base
      BY <1>3, <3>2, <3>4
    <3> QED BY <1>0, <3>1, <3>3, <3>4
  <2>4. /\ h'[d] = h[d] /\ wire'[d] = wire[d] /\ send'[d] = send[d] /\ clients' = clients /\ closed' = closed
        /\ hist' = hist /\ Len(hist) <= Len(hist') /\ Len(hist') \in Nat
    BY <1>0, <1>h, <1>3
  <2>5. CASE h[d] # NoHandler
    BY <1>0, <1>1, <1>2, <1>4, <1>5, <2>1, <2>2, <2>3, <2>4, <2>5, ConnKept
  <2>6. CASE h[d] = NoHandler
    <3>1. Carries(send[d], Given) /\ Ascending(send[d]) /\ Carries(wire[d], Revs) /\ wire[d] = <<>>
          /\ Ascending(wire[d])
      BY <2>1, <2>6 DEF PerConn, ConnOK, OrderedOK
    <3>2. Carries(send[d], Given)' /\ Carries(wire[d], Revs)'
      BY <1>4, <1>5, <2>4, <3>1, CarriesKept
    <3>3. Ascending(send[d])' /\ Ascending(wire[d])'
      BY <2>4, <3>1 DEF Ascending, IsEvent, Reset
    <3>4. h'[d] = NoHandler' /\ h'[d].pc = "new" /\ wire'[d] = <<>>
      BY <2>4, <2>6, <3>1 DEF NoHandler
    <3> QED BY <3>2, <3>3, <3>4 DEF PerConn, ConnOK, OrderedOK, GapOK
  <2> QED BY <2>5, <2>6
<1> QED BY <1>6, <1>7, <1>8, <1>9, <1>10, <1>11, InvParts2

LEMMA StopsStep ==
  ASSUME StreamInv, RunStops
  PROVE  StreamInv'
<1>0. /\ run.pc \in {"boot", "watch"} /\ run' = [run EXCEPT !.pc = "stopped"] /\ failures' = failures + 1
      /\ UNCHANGED <<messages, head, isFull, hist, cache, cacheRev, h, wire>> /\ UNCHANGED hubVars
  BY DEF RunStops, Fails, bufVars
<1>h. UNCHANGED <<register, unregister, clients, shards, wildcards, send, closed>>
  BY <1>0 DEF hubVars
<1>1. StreamTypeOK /\ RunOK /\ RingOK /\ HubOK /\ CacheOK
  BY InvParts
<1>2. /\ run \in RunType /\ run' \in RunType
      /\ run'.pc = "stopped" /\ run'.base = run.base /\ run'.pos = run.pos
  BY <1>0, <1>1 DEF StreamTypeOK, RunType
<1>3. failures' \in Nat
  BY <1>0, <1>1 DEF StreamTypeOK
<1>4. Revs' = Revs /\ Ringed' = Ringed /\ Given' = Given
  BY <1>0, <1>2 DEF Revs, Ringed, Given, IsFeature
<1>5. StreamTypeOK'
  BY <1>0, <1>h, <1>1, <1>2, <1>3 DEF StreamTypeOK, RunType
<1>6. RunOK'
  BY <1>0, <1>1, <1>2 DEF RunOK
<1>7. RingOK'
  BY <1>0, <1>1, <1>4, RingKept DEF bufVars
<1>8. HubOK'
  BY <1>0, <1>1, HubSame
<1>9. CacheOK'
  <2>1. LoadOK'
    BY <1>2 DEF LoadOK
  <2> QED BY <1>0, <1>1, <1>2, <2>1 DEF CacheOK, IsFeature, Revs, NoFlag
<1>10. ASSUME NEW d \in Conns PROVE PerConn(d)'
  <2>1. PerConn(d)
    BY InvParts
  <2>2. Len(hist) \in Nat /\ \A r \in Ringed : r \in Nat
    BY <1>1, FeatureType, RingedFacts
  <2>3. /\ h'[d] = h[d] /\ wire'[d] = wire[d] /\ send'[d] = send[d] /\ clients' = clients /\ closed' = closed
        /\ hist' = hist /\ Len(hist) <= Len(hist') /\ Len(hist') \in Nat
    BY <1>0, <1>h, <2>2
  <2> QED BY <1>1, <1>2, <1>4, <2>1, <2>2, <2>3, ConnKept
<1> QED BY <1>5, <1>6, <1>7, <1>8, <1>9, <1>10, InvParts2

LEMMA EventStep ==
  ASSUME StreamInv, RunEvent
  PROVE  StreamInv'
<1> DEFINE R == {q \in Revs : q > run.pos /\ IsFeature(q)}
           r == Min(R)
<1>0. /\ run.pc = "watch" /\ R # {} /\ run' = [run EXCEPT !.pc = "buffer", !.pos = r]
      /\ IF hist[r].act = "put"
         THEN /\ cache' = [cache EXCEPT ![hist[r].name] = [rev |-> r, scope |-> hist[r].scope]]
              /\ UNCHANGED cacheRev
         ELSE /\ cacheRev' = Max({cacheRev, r})
              /\ UNCHANGED cache
      /\ UNCHANGED <<messages, head, isFull, hist, h, wire, failures>> /\ UNCHANGED hubVars
  BY DEF RunEvent, bufVars
<1>h. UNCHANGED <<register, unregister, clients, shards, wildcards, send, closed>>
  BY <1>0 DEF hubVars
<1>1. StreamTypeOK /\ RunOK /\ RingOK /\ HubOK /\ CacheOK
  BY InvParts
<1>2. /\ run \in RunType /\ Len(hist) \in Nat /\ \A q \in Revs : q \in Nat /\ q # 0
  BY <1>1, FeatureType DEF StreamTypeOK, RunType
<1>3. r \in R /\ \A q \in R : r <= q
  <2>1. R \subseteq Nat
    BY <1>2
  <2> HIDE DEF R
  <2> QED BY <1>0, <2>1, MinIn
<1>4. r \in Revs /\ r \in Nat /\ r # 0 /\ r > run.pos /\ IsFeature(r) /\ r <= Len(hist)
      /\ hist[r] \in [act : {"put", "del"}, scope : Scopes, name : Names]
  <2>1. r \in Revs /\ r > run.pos /\ IsFeature(r)
    BY <1>3
  <2> HIDE DEF r, R
  <2>2. r \in Nat /\ r # 0
    BY <1>2, <2>1
  <2>3. r <= Len(hist)
    BY <1>2, <2>1 DEF Revs
  <2>4. hist[r] \in [act : {"put", "del"}, scope : Scopes, name : Names]
    BY <1>1, <2>1, FeatureType
  <2> QED BY <2>1, <2>2, <2>3, <2>4
<1>5. \A q \in Revs : IsFeature(q) /\ q > run.pos => q >= r
  BY <1>2, <1>3, <1>4
<1> HIDE DEF r, R
<1>6. /\ run' \in RunType /\ run'.pc = "buffer" /\ run'.base = run.base /\ run'.pos = r
  BY <1>0, <1>2, <1>4 DEF RunType
<1>7. run.base \in Nat /\ run.pos \in Nat /\ run.base <= run.pos
  BY <1>1, <1>2 DEF RunOK, RunType
<1>8. Revs' = Revs /\ \A q \in Revs : IsFeature(q)' <=> IsFeature(q)
  BY <1>0 DEF Revs, IsFeature
<1>9. \A q \in Revs : IsFeature(q) => (q <= run.pos <=> q < r) /\ (q < r => q <= r) /\ (q <= r => q < r \/ q = r)
  BY <1>2, <1>4, <1>5, <1>7
<1>10. Ringed' = Ringed /\ Given' = Given
  BY <1>0, <1>6, <1>8, <1>9 DEF Ringed, Given
<1>11. RunOK'
  BY <1>0, <1>4, <1>6, <1>7 DEF RunOK, IsFeature
<1>12. RingOK'
  BY <1>0, <1>1, <1>10, RingKept DEF bufVars
<1>13. HubOK'
  BY <1>0, <1>1, HubSame
<1>14. /\ cacheRev' \in Nat /\ cacheRev' <= r /\ cache' \in [Names -> {NoFlag} \cup Cached]
  <2>0. cacheRev \in Nat /\ cacheRev <= run.pos /\ cache \in [Names -> {NoFlag} \cup Cached]
    BY <1>1 DEF CacheOK, StreamTypeOK
  <2>1. CASE hist[r].act = "put"
    <3>1. [rev |-> r, scope |-> hist[r].scope] \in Cached /\ hist[r].name \in Names
      BY <1>4 DEF Cached
    <3>2. cache' \in [Names -> {NoFlag} \cup Cached]
      BY <1>0, <2>0, <2>1, <3>1
    <3>3. cacheRev' = cacheRev /\ cacheRev <= r
      BY <1>0, <1>4, <1>7, <2>0, <2>1
    <3> QED BY <2>0, <3>2, <3>3
  <2>2. CASE hist[r].act # "put"
    <3>1. Max({cacheRev, r}) = r
      <4>1. {cacheRev, r} \subseteq Nat /\ r \in {cacheRev, r} /\ \A y \in {cacheRev, r} : y <= r
        BY <1>4, <1>7, <2>0
      <4> QED BY <4>1, MaxIs
    <3> QED BY <1>0, <1>4, <2>0, <2>2, <3>1
  <2> QED BY <2>1, <2>2
<1>15. StreamTypeOK'
  BY <1>0, <1>h, <1>1, <1>6, <1>14 DEF StreamTypeOK, RunType
<1>16. \A n \in Names : cache'[n] = IF hist[r].act = "put" /\ n = hist[r].name
                                    THEN [rev |-> r, scope |-> hist[r].scope] ELSE cache[n]
  BY <1>0, <1>1 DEF StreamTypeOK
<1>17. ASSUME NEW n \in Names, cache'[n] # NoFlag
       PROVE  /\ cache'[n].rev \in Revs /\ cache'[n].rev <= r
              /\ hist[cache'[n].rev] = [act |-> "put", scope |-> cache'[n].scope, name |-> n]
  <2>1. CASE hist[r].act = "put" /\ n = hist[r].name
    <3>1. cache'[n].rev = r /\ cache'[n].scope = hist[r].scope
      BY <1>16, <2>1
    <3>2. hist[r] = [act |-> "put", scope |-> hist[r].scope, name |-> n]
      BY <1>4, <2>1
    <3> QED BY <1>4, <3>1, <3>2
  <2>2. CASE ~(hist[r].act = "put" /\ n = hist[r].name)
    <3>1. cache'[n] = cache[n]
      BY <1>16, <2>2
    <3>2. /\ cache[n].rev \in Revs /\ cache[n].rev <= run.pos
          /\ hist[cache[n].rev] = [act |-> "put", scope |-> cache[n].scope, name |-> n]
      BY <1>1, <1>17, <3>1 DEF CacheOK
    <3>3. cache[n].rev \in Nat
      BY <1>2, <3>2
    <3>4. cache[n].rev <= r
      BY <1>4, <1>7, <3>2, <3>3
    <3> QED BY <3>1, <3>2, <3>4
  <2> QED BY <2>1, <2>2
<1>18. ASSUME NEW q \in Revs, IsFeature(q), q > run.base, q <= r, hist[q].act = "put"
       PROVE  cache'[hist[q].name].rev >= q
  <2>0. hist[q].name \in Names /\ q \in Nat
    BY <1>1, <1>18, FeatureType
  <2>1. CASE hist[r].act = "put" /\ hist[q].name = hist[r].name
    <3>1. cache'[hist[q].name] = [rev |-> r, scope |-> hist[r].scope]
      BY <1>16, <2>0, <2>1
    <3> QED BY <1>4, <1>18, <2>0, <3>1
  <2>2. CASE ~(hist[r].act = "put" /\ hist[q].name = hist[r].name)
    <3>1. q # r
      BY <1>18, <2>2
    <3>2. q <= run.pos
      BY <1>9, <1>18, <3>1
    <3>3. cache'[hist[q].name] = cache[hist[q].name]
      BY <1>16, <2>0, <2>2
    <3> QED BY <1>1, <1>18, <3>2, <3>3 DEF CacheOK
  <2> QED BY <2>1, <2>2
<1>19. CacheComplete'
  <2> SUFFICES ASSUME NEW n \in Names, NEW s \in Scopes PROVE Complete(n, s)'
    BY CompleteIs2
  <2>1. Taken(n)' = IF n = hist[r].name THEN Taken(n) \cup {r} ELSE Taken(n)
    BY <1>0, <1>4, <1>6, <1>8, <1>9 DEF Taken
  <2>2. Complete(n, s)
    BY <1>0, <1>1, CompleteIs DEF CacheOK
  <2>3. CASE n = hist[r].name
    <3>1. Taken(n)' = Taken(n) \cup {r} /\ Taken(n) \subseteq Nat
      BY <1>1, <2>1, <2>3, TakenType
    <3>2. \A y \in Taken(n) : y <= r
      BY <1>9 DEF Taken
    <3>3. Max(Taken(n)') = r
      <4>1. Taken(n)' \subseteq Nat /\ r \in Taken(n)' /\ \A y \in Taken(n)' : y <= r
        BY <1>4, <3>1, <3>2
      <4> QED BY <4>1, MaxIs
    <3>4. CASE hist[r].act = "put"
      <4>1. cache'[n] = [rev |-> r, scope |-> hist[r].scope]
        BY <1>16, <2>3, <3>4
      <4>2. cache'[n] # NoFlag /\ cache'[n].rev = r /\ cache'[n].scope = hist[r].scope
        BY <1>4, <4>1 DEF NoFlag
      <4> QED BY <1>0, <3>1, <3>3, <4>2 DEF Complete, NoFlag
    <3>5. CASE hist[r].act # "put"
      BY <1>0, <3>1, <3>3, <3>5 DEF Complete
    <3> QED BY <3>4, <3>5
  <2>4. CASE n # hist[r].name
    <3>1. cache'[n] = cache[n] /\ Taken(n)' = Taken(n)
      BY <1>16, <2>1, <2>4
    <3> QED BY <1>0, <2>2, <3>1 DEF Complete, NoFlag
  <2> QED BY <2>3, <2>4
<1>20. CacheOK'
  <2>1. LoadOK'
    BY <1>6 DEF LoadOK
  <2> QED BY <1>0, <1>6, <1>8, <1>14, <1>17, <1>18, <1>19, <2>1 DEF CacheOK, NoFlag
<1>21. ASSUME NEW d \in Conns PROVE PerConn(d)'
  <2>1. PerConn(d)
    BY InvParts
  <2>2. \A q \in Ringed : q \in Nat
    BY <1>1, RingedFacts
  <2>3. /\ h'[d] = h[d] /\ wire'[d] = wire[d] /\ send'[d] = send[d] /\ clients' = clients /\ closed' = closed
        /\ hist' = hist /\ Len(hist) <= Len(hist') /\ Len(hist') \in Nat
    BY <1>0, <1>h, <1>2
  <2> QED BY <1>0, <1>1, <1>6, <1>8, <1>10, <2>1, <2>2, <2>3, ConnKept
<1> QED BY <1>11, <1>12, <1>13, <1>15, <1>20, <1>21, InvParts2
\* What is live at a revision was put, and is the last event of its flag.
LEMMA LiveAtIs ==
  ASSUME StreamTypeOK, NEW b, NEW r \in LiveAt(b)
  PROVE  /\ r \in Revs /\ r \in Nat \ {0} /\ r <= b
         /\ hist[r].act = "put" /\ IsFeature(r)
         /\ hist[r] = [act |-> "put", scope |-> hist[r].scope, name |-> hist[r].name]
         /\ hist[r].scope \in Scopes /\ hist[r].name \in Names
         /\ \A q \in Revs : (q > r /\ q <= b /\ IsFeature(q)) => ~SameFlag(q, r)
<1>1. /\ r \in Revs /\ r <= b /\ hist[r].act = "put"
      /\ \A q \in Revs : (q > r /\ q <= b /\ IsFeature(q)) => ~SameFlag(q, r)
  BY DEF LiveAt
<1>2. IsFeature(r)
  BY <1>1 DEF IsFeature
<1>3. r \in Nat /\ r # 0 /\ hist[r] \in [act : {"put", "del"}, scope : Scopes, name : Names]
  BY <1>1, <1>2, FeatureType
<1> QED BY <1>1, <1>2, <1>3

LEMMA SnapshotStep ==
  ASSUME StreamInv, RunSnapshot
  PROVE  StreamInv'
<1>0. /\ run.pc = "boot"
      /\ run' = [pc |-> "load", base |-> Len(hist), pos |-> Len(hist), todo |-> LiveAt(Len(hist))]
      /\ UNCHANGED <<messages, head, isFull, hist, cache, cacheRev, h, wire, failures>>
      /\ UNCHANGED hubVars
  BY DEF RunSnapshot, bufVars
<1>h. UNCHANGED <<register, unregister, clients, shards, wildcards, send, closed>>
  BY <1>0 DEF hubVars
<1>1. StreamTypeOK /\ RunOK /\ RingOK /\ HubOK /\ CacheOK
  BY InvParts
<1>2. /\ Len(hist) \in Nat /\ (\A r \in Revs : r \in Nat /\ r # 0 /\ r <= Len(hist)) /\ Revs' = Revs
  BY <1>0, <1>1, FeatureType DEF Revs
<1>3. /\ run \in RunType /\ run.pos = 0 /\ run.base = 0
      /\ run' \in RunType /\ run'.pc = "load" /\ run'.pos = Len(hist) /\ run'.base = Len(hist)
      /\ run'.todo = LiveAt(Len(hist))
  <2>1. run \in RunType
    BY <1>1 DEF StreamTypeOK, RunType
  <2>2. run.pos = 0 /\ run.base <= run.pos /\ run.base \in Nat
    BY <1>0, <1>1, <2>1 DEF RunOK, RunType
  <2>3. LiveAt(Len(hist)) \subseteq Nat
    BY <1>2 DEF LiveAt
  <2> QED BY <1>0, <1>2, <2>1, <2>2, <2>3 DEF RunType
<1>4. Ringed = {} /\ Given = {} /\ Ringed' = {} /\ Given' = {}
  BY <1>2, <1>3 DEF Ringed, Given
<1>5. cacheRev \in Nat /\ cacheRev <= Len(hist) /\ \A n \in Names : cache[n] = NoFlag
  <2>1. cacheRev \in Nat /\ cacheRev <= Len(hist)
    BY <1>1, <1>2, <1>3 DEF CacheOK, StreamTypeOK
  <2>2. ASSUME NEW n \in Names, cache[n] # NoFlag PROVE FALSE
    <3>1. cache[n].rev \in Revs /\ cache[n].rev <= 0
      BY <1>1, <1>3, <2>2 DEF CacheOK
    <3> QED BY <1>2, <3>1
  <2> QED BY <2>1, <2>2
<1>6. StreamTypeOK'
  BY <1>0, <1>h, <1>1, <1>3 DEF StreamTypeOK, RunType
<1>7. RunOK'
  BY <1>0, <1>2, <1>3 DEF RunOK
<1>8. RingOK'
  BY <1>0, <1>1, <1>4, RingKept DEF bufVars
<1>9. HubOK'
  BY <1>0, <1>1, HubSame
<1>10. CacheOK'
  <2>1. \A r \in Revs : ~(r > run'.base /\ r <= run'.pos)
    BY <1>2, <1>3
  <2>2. LiveAt(run.base)' = LiveAt(Len(hist))
    BY <1>0, <1>2, <1>3 DEF LiveAt, IsFeature, SameFlag
  <2>3. LoadOK'
    BY <1>0, <1>3, <1>5, <2>2 DEF LoadOK, NoFlag
  <2> QED BY <1>0, <1>2, <1>3, <1>5, <2>1, <2>3 DEF CacheOK, NoFlag
<1>11. ASSUME NEW d \in Conns PROVE PerConn(d)'
  <2>1. PerConn(d) /\ (h[d] # NoHandler => h[d].max <= run'.base)
    BY <1>3, InvParts DEF PerConn, ConnOK
  <2>2. /\ h'[d] = h[d] /\ wire'[d] = wire[d] /\ send'[d] = send[d] /\ clients' = clients /\ closed' = closed
        /\ hist' = hist /\ Len(hist) <= Len(hist') /\ Len(hist') \in Nat
    BY <1>0, <1>h, <1>2
  <2> QED BY <1>1, <1>2, <1>4, <2>1, <2>2, ConnKept
<1> QED BY <1>6, <1>7, <1>8, <1>9, <1>10, <1>11, InvParts2

\* A step of Run that leaves its two revisions, the ring and the hub alone.
LEMMA LoadFrame ==
  ASSUME StreamInv, run.pc = "load", run' \in RunType, run'.pc \in {"load", "watch"},
         run'.base = run.base, run'.pos = run.pos,
         UNCHANGED <<messages, head, isFull, hist, h, wire, failures>>, UNCHANGED hubVars,
         cache' \in [Names -> {NoFlag} \cup Cached], cacheRev' \in Nat, CacheOK'
  PROVE  StreamInv'
<1>h. UNCHANGED <<register, unregister, clients, shards, wildcards, send, closed>>
  BY DEF hubVars
<1>1. StreamTypeOK /\ RunOK /\ RingOK /\ HubOK /\ CacheOK
  BY InvParts
<1>2. run \in RunType /\ Len(hist) \in Nat /\ \A r \in Ringed : r \in Nat
  BY <1>1, FeatureType, RingedFacts DEF StreamTypeOK, RunType
<1>3. Revs' = Revs /\ Ringed' = Ringed /\ Given' = Given
  BY DEF Revs, Ringed, Given, IsFeature
<1>4. StreamTypeOK'
  BY <1>h, <1>1 DEF StreamTypeOK, RunType
<1>5. RunOK'
  BY <1>1 DEF RunOK
<1>6. RingOK'
  BY <1>1, <1>3, RingKept DEF bufVars
<1>7. HubOK'
  BY <1>1, HubSame
<1>8. ASSUME NEW d \in Conns PROVE PerConn(d)'
  <2>1. PerConn(d)
    BY InvParts
  <2>2. /\ h'[d] = h[d] /\ wire'[d] = wire[d] /\ send'[d] = send[d] /\ clients' = clients /\ closed' = closed
        /\ hist' = hist /\ Len(hist) <= Len(hist') /\ Len(hist') \in Nat
    BY <1>h, <1>2
  <2> QED BY <1>1, <1>2, <1>3, <2>1, <2>2, ConnKept
<1> QED BY <1>4, <1>5, <1>6, <1>7, <1>8, InvParts2

\* One more flag of the snapshot is cached.
LEMMA RunLoadStep ==
  ASSUME StreamInv, RunLoad
  PROVE  StreamInv'
<1>0. PICK r \in run.todo :
        /\ run' = [run EXCEPT !.todo = @ \ {r}]
        /\ cache' = [cache EXCEPT ![hist[r].name] = [rev |-> r, scope |-> hist[r].scope]]
        /\ cacheRev' = Max({cacheRev, r})
  BY DEF RunLoad
<1>h. /\ run.pc = "load" /\ UNCHANGED <<messages, head, isFull, hist, h, wire, failures>>
      /\ UNCHANGED hubVars
  BY DEF RunLoad, bufVars
<1>1. StreamTypeOK /\ RunOK /\ CacheOK /\ LoadOK
  BY InvParts DEF CacheOK
<1>2. /\ run \in RunType /\ run' \in RunType /\ run'.pc = "load"
      /\ run'.base = run.base /\ run'.pos = run.pos /\ run'.todo = run.todo \ {r}
      /\ run.pos = run.base /\ run.pos \in Nat
  BY <1>0, <1>h, <1>1 DEF StreamTypeOK, RunType, LoadOK
<1>3. Revs' = Revs /\ \A q \in Revs : IsFeature(q)' <=> IsFeature(q)
  BY <1>h DEF Revs, IsFeature
<1>4. /\ r \in LiveAt(run.base) /\ r \in Revs /\ r \in Nat \ {0} /\ r <= run.pos
      /\ hist[r] = [act |-> "put", scope |-> hist[r].scope, name |-> hist[r].name]
      /\ hist[r].scope \in Scopes /\ hist[r].name \in Names
  <2>1. r \in LiveAt(run.base)
    BY <1>h, <1>1 DEF LoadOK
  <2> QED BY <1>1, <1>2, <2>1, LiveAtIs
<1>5. /\ cacheRev' \in Nat /\ cacheRev' <= run.pos /\ cacheRev <= cacheRev' /\ r <= cacheRev'
      /\ cacheRev \in Nat
  <2>1. cacheRev \in Nat /\ cacheRev <= run.pos
    BY <1>1 DEF CacheOK, StreamTypeOK
  <2>2. {cacheRev, r} \subseteq 0 .. run.pos /\ {cacheRev, r} # {}
    BY <1>2, <1>4, <2>1
  <2>3. Max({cacheRev, r}) \in {cacheRev, r} /\ \A y \in {cacheRev, r} : y <= Max({cacheRev, r})
    BY <1>2, <2>2, MaxIn
  <2> QED BY <1>0, <2>1, <2>2, <2>3
<1> DEFINE x == [rev |-> r, scope |-> hist[r].scope]
<1>6. x \in Cached /\ x # NoFlag /\ x.rev = r /\ x.scope = hist[r].scope
  BY <1>4 DEF Cached, NoFlag
<1>7. /\ cache' \in [Names -> {NoFlag} \cup Cached]
      /\ \A n \in Names : cache'[n] = IF n = hist[r].name THEN x ELSE cache[n]
  BY <1>0, <1>1, <1>4, <1>6 DEF StreamTypeOK
<1> HIDE DEF x
<1>8. ASSUME NEW n \in Names, cache'[n] # NoFlag
      PROVE  /\ cache'[n].rev \in Revs /\ cache'[n].rev <= run.pos
             /\ hist[cache'[n].rev] = [act |-> "put", scope |-> cache'[n].scope, name |-> n]
  BY <1>1, <1>4, <1>6, <1>7, <1>8 DEF CacheOK
<1>9. LoadOK'
  <2>1. LiveAt(run.base)' = LiveAt(run.base)
    BY <1>h, <1>2, <1>3 DEF LiveAt, SameFlag
  <2>2. run.todo \ {r} \subseteq LiveAt(run.base)
    BY <1>h, <1>1 DEF LoadOK
  <2>3. ASSUME NEW q \in LiveAt(run.base), q \notin run.todo \ {r}
        PROVE  cache'[hist[q].name] # NoFlag /\ q <= cacheRev'
    <3>1. q \in Nat /\ hist[q].name \in Names
      BY <1>1, LiveAtIs
    <3>2. CASE q = r
      BY <1>5, <1>6, <1>7, <3>1, <3>2
    <3>3. CASE q # r
      <4>1. cache[hist[q].name] # NoFlag /\ q <= cacheRev
        BY <1>h, <1>1, <2>3, <3>3 DEF LoadOK
      <4> QED BY <1>5, <1>6, <1>7, <3>1, <4>1
    <3> QED BY <3>2, <3>3
  <2>4. \A n \in Names : cache'[n] # NoFlag => cache'[n].rev \in LiveAt(run.base)
    BY <1>h, <1>1, <1>4, <1>6, <1>7 DEF LoadOK
  <2> QED BY <1>h, <1>2, <2>1, <2>2, <2>3, <2>4 DEF LoadOK, NoFlag
<1>10. CacheOK'
  <2>1. \A q \in Revs : ~(q > run.base /\ q <= run.pos)
    BY <1>1, <1>2, FeatureType
  <2> QED BY <1>h, <1>2, <1>3, <1>5, <1>8, <1>9, <2>1 DEF CacheOK, NoFlag
<1> QED BY <1>h, <1>2, <1>5, <1>7, <1>10, LoadFrame

\* The whole snapshot is cached, and Run begins to watch: what is cached under
\* a name of one scope is the name's last put, since that is live.
LEMMA RunWatchStep ==
  ASSUME StreamInv, RunWatch
  PROVE  StreamInv'
<1>0. /\ run.pc = "load" /\ run.todo = {} /\ run' = [run EXCEPT !.pc = "watch"]
      /\ UNCHANGED <<messages, head, isFull, hist, cache, cacheRev, h, wire, failures>>
      /\ UNCHANGED hubVars
  BY DEF RunWatch, bufVars
<1>1. StreamTypeOK /\ RunOK /\ CacheOK /\ LoadOK
  BY InvParts DEF CacheOK
<1>2. /\ run \in RunType /\ run' \in RunType /\ run'.pc = "watch"
      /\ run'.base = run.base /\ run'.pos = run.pos /\ run.pos = run.base
  BY <1>0, <1>1 DEF StreamTypeOK, RunType, LoadOK
<1>3. Revs' = Revs /\ \A q \in Revs : IsFeature(q)' <=> IsFeature(q)
  BY <1>0 DEF Revs, IsFeature
<1>4. CacheComplete'
  <2> SUFFICES ASSUME NEW n \in Names, NEW s \in Scopes PROVE Complete(n, s)'
    BY CompleteIs2
  <2> DEFINE T == Taken(n)
             m == Max(T)
  <2>1. Taken(n)' = T
    BY <1>0, <1>2, <1>3 DEF Taken
  <2>2. ASSUME T # {}, hist[m].act = "put", \A r \in T : hist[r].scope = s
        PROVE  cache[n] # NoFlag /\ cache[n].scope = s /\ cache[n].rev = m
    <3>1. m \in T /\ \A y \in T : y <= m
      BY <1>1, <2>2, TakenType
    <3> HIDE DEF m
    <3>2. m \in Revs /\ IsFeature(m) /\ hist[m].name = n /\ m <= run.base /\ m \in Nat
      BY <1>1, <1>2, <3>1, FeatureType DEF Taken
    <3>3. m \in LiveAt(run.base)
      <4>1. ASSUME NEW q \in Revs, q > m, q <= run.base, IsFeature(q), SameFlag(q, m) PROVE FALSE
        <5>1. q \in T
          BY <1>2, <3>2, <4>1 DEF Taken, SameFlag
        <5>2. q \in Nat
          BY <1>1, FeatureType
        <5> QED BY <3>1, <3>2, <4>1, <5>1, <5>2
      <4> QED BY <2>2, <3>2, <4>1 DEF LiveAt
    <3>4. cache[n] # NoFlag
      BY <1>0, <1>1, <3>2, <3>3 DEF LoadOK
    <3> DEFINE r == cache[n].rev
    <3>5. r \in LiveAt(run.base) /\ hist[r] = [act |-> "put", scope |-> cache[n].scope, name |-> n]
      BY <1>0, <1>1, <3>4 DEF LoadOK, CacheOK
    <3> HIDE DEF r
    <3>6. /\ r \in Revs /\ r \in Nat /\ r <= run.base /\ IsFeature(r)
          /\ \A q \in Revs : (q > r /\ q <= run.base /\ IsFeature(q)) => ~SameFlag(q, r)
      BY <1>1, <3>5, LiveAtIs
    <3>7. r \in T /\ hist[r].scope = s
      <4>1. r \in T
        BY <1>2, <3>5, <3>6 DEF Taken
      <4> QED BY <2>2, <4>1
    <3>8. SameFlag(m, r)
      BY <2>2, <3>1, <3>2, <3>5, <3>7 DEF SameFlag
    <3>9. r = m
      BY <3>1, <3>2, <3>6, <3>7, <3>8
    <3> QED BY <3>4, <3>5, <3>7, <3>9 DEF r
  <2> HIDE DEF T
  <2> QED BY <1>0, <2>1, <2>2 DEF Complete, NoFlag
<1>5. CacheOK'
  <2>1. LoadOK'
    BY <1>2 DEF LoadOK
  <2> QED BY <1>0, <1>1, <1>2, <1>3, <1>4, <2>1 DEF CacheOK, NoFlag
<1> QED BY <1>0, <1>1, <1>2, <1>5, LoadFrame DEF StreamTypeOK

-----------------------------------------------------------------------------
(* A new process starts with nothing.                                      *)

\* The ring of a new process, which has taken no event yet.
LEMMA RingEmpty ==
  ASSUME messages = [i \in Slots |-> NoMsg], head = 0, isFull = FALSE, Ringed = {}
  PROVE  RingOK /\ RingType
<1>1. Count = 0 /\ 0 \in Slots
  BY SizeOK DEF Count, Slots
<1>2. 0 .. Count - 1 = {}
  BY <1>1
<1>3. SlotsOK
  BY DEF SlotsOK
<1> QED BY <1>1, <1>2, <1>3 DEF RingOK, RingType

LEMMA RingEmpty2 ==
  ASSUME messages' = [i \in Slots |-> NoMsg], head' = 0, isFull' = FALSE, Ringed' = {}
  PROVE  RingOK' /\ RingType'
<1>1. Count' = 0 /\ 0 \in Slots
  BY SizeOK DEF Count, Slots
<1>2. 0 .. Count' - 1 = {}
  BY <1>1
<1>3. SlotsOK'
  BY DEF SlotsOK, Slots
<1> QED BY <1>1, <1>2, <1>3 DEF RingOK, RingType, Slots

LEMMA RestartStep ==
  ASSUME StreamInv, Restart
  PROVE  StreamInv'
<1>0. /\ messages' = [i \in Slots |-> NoMsg] /\ head' = 0 /\ isFull' = FALSE
      /\ register' = <<>> /\ unregister' = <<>> /\ clients' = {} /\ shards' = {} /\ wildcards' = {}
      /\ send' = [c \in Conns |-> <<>>] /\ closed' = {}
      /\ run' = NewRun /\ cache' = [n \in Names |-> NoFlag] /\ cacheRev' = 0
      /\ h' = [c \in Conns |-> IF h[c] = NoHandler THEN NoHandler ELSE [h[c] EXCEPT !.pc = "gone"]]
      /\ hist' = hist /\ wire' = wire /\ failures' = failures + 1
  BY DEF Restart, Fails, NewRevisionBuffer, NewHub
<1>1. StreamTypeOK /\ RunOK /\ RingOK /\ HubOK /\ CacheOK
  BY InvParts
<1>2. /\ Len(hist) \in Nat /\ (\A r \in Revs : r \in Nat /\ r # 0) /\ Revs' = Revs
  BY <1>0, <1>1, FeatureType DEF Revs
<1>3. run' \in RunType /\ run'.pc = "boot" /\ run'.base = 0 /\ run'.pos = 0
  BY <1>0 DEF NewRun, RunType
<1>4. Ringed' = {} /\ Given' = {}
  BY <1>2, <1>3 DEF Ringed, Given
<1>5. RingOK' /\ RingType'
  BY <1>0, <1>4, RingEmpty2
<1>6. \A d \in Conns : /\ h[d] = NoHandler => h'[d] = NoHandler
                       /\ h[d] # NoHandler => /\ h[d] \in Handler /\ h'[d] \in Handler /\ h'[d] # NoHandler
                                              /\ h'[d] = [h[d] EXCEPT !.pc = "gone"]
                                              /\ h'[d].pc = "gone" /\ h'[d].last = h[d].last
                                              /\ h'[d].max = h[d].max
  <2> SUFFICES ASSUME NEW d \in Conns
               PROVE  /\ h[d] = NoHandler => h'[d] = NoHandler
                      /\ h[d] # NoHandler => /\ h[d] \in Handler /\ h'[d] \in Handler /\ h'[d] # NoHandler
                                             /\ h'[d] = [h[d] EXCEPT !.pc = "gone"]
                                             /\ h'[d].pc = "gone" /\ h'[d].last = h[d].last
                                             /\ h'[d].max = h[d].max
    OBVIOUS
  <2>1. /\ h'[d] = IF h[d] = NoHandler THEN NoHandler ELSE [h[d] EXCEPT !.pc = "gone"]
        /\ h[d] \in {NoHandler} \cup Handler
    BY <1>0, <1>1 DEF StreamTypeOK
  <2>2. CASE h[d] = NoHandler
    BY <2>1, <2>2
  <2>3. CASE h[d] # NoHandler
    <3>1. h[d] \in Handler /\ h'[d] = [h[d] EXCEPT !.pc = "gone"]
      BY <2>1, <2>3
    <3>2. h'[d] \in Handler /\ h'[d].pc = "gone" /\ h'[d].last = h[d].last /\ h'[d].max = h[d].max
      BY <3>1 DEF Handler
    <3> QED BY <2>3, <3>1, <3>2 DEF NoHandler
  <2> QED BY <2>2, <2>3
<1>7. h' \in [Conns -> {NoHandler} \cup Handler]
  BY <1>0, <1>6
<1>8. send' \in [Conns -> Seq(Message \cup {Ping})] /\ <<>> \in Seq(Conns)
  BY <1>0
<1>9. StreamTypeOK'
  BY <1>0, <1>1, <1>3, <1>5, <1>7, <1>8 DEF StreamTypeOK, RunType, RingType
<1>10. RunOK'
  BY <1>0, <1>2, <1>3 DEF RunOK
<1>11. HubOK'
  BY <1>0 DEF HubOK, SendsAreOpen, Range
<1>12. CacheOK'
  <2>1. LoadOK'
    BY <1>3 DEF LoadOK
  <2> QED BY <1>0, <1>2, <1>3, <2>1 DEF CacheOK, NoFlag
<1>13. ASSUME NEW d \in Conns PROVE PerConn(d)'
  <2>1. OrderedOK(d) /\ ConnOK(d) /\ send'[d] = <<>> /\ wire'[d] = wire[d]
    BY <1>0, InvParts DEF PerConn
  <2>2. OrderedOK(d)'
    BY <1>6, <2>1 DEF OrderedOK, Ascending, IsEvent, Reset
  <2>3. Carries(send[d], Given)' /\ Ascending(send[d])'
    BY <2>1 DEF Carries, Ascending
  <2>4. Carries(wire[d], Revs)'
    <3>1. Carries(wire[d], Revs) /\ Revs \subseteq Revs' /\ \A r \in Revs : hist'[r] = hist[r]
      BY <1>0, <1>2, <2>1 DEF ConnOK
    <3> QED BY <2>1, <3>1, CarriesKept
  <2>5. CASE h[d] = NoHandler
    <3>0. h'[d] = NoHandler /\ wire'[d] = <<>>
      BY <1>6, <2>1, <2>5 DEF ConnOK
    <3>1. h'[d] = NoHandler /\ wire'[d] = <<>> /\ h'[d].pc = "new"
      BY <3>0 DEF NoHandler
    <3> QED BY <2>2, <2>3, <2>4, <3>1 DEF PerConn, ConnOK, GapOK, NoHandler
  <2>6. CASE h[d] # NoHandler
    <3>1. /\ h'[d].pc = "gone" /\ h'[d] # NoHandler /\ h'[d].last = h[d].last /\ h'[d].max = h[d].max
          /\ h[d].last <= h[d].max /\ h[d].max <= Len(hist)
          /\ \A i \in DOMAIN wire[d] : wire[d][i] # Reset => wire[d][i].rev <= h[d].max
      BY <1>6, <2>1, <2>6 DEF ConnOK
    <3>2. ConnOK(d)'
      BY <1>0, <1>3, <2>1, <2>3, <2>4, <3>1 DEF ConnOK, NoHandler, Reset
    <3>3. Asked(d, Ringed)' = {}
      BY <1>4 DEF Asked
    <3>4. GapOK(d)'
      BY <3>1, <3>3 DEF GapOK
    <3> QED BY <2>2, <3>2, <3>4 DEF PerConn
  <2> QED BY <2>5, <2>6
<1> QED BY <1>5, <1>9, <1>10, <1>11, <1>12, <1>13, InvParts2

\* The first process.
LEMMA InitInv == StreamInit => StreamInv
<1> SUFFICES ASSUME StreamInit PROVE StreamInv
  OBVIOUS
<1>0. /\ messages = [i \in Slots |-> NoMsg] /\ head = 0 /\ isFull = FALSE
      /\ register = <<>> /\ unregister = <<>> /\ clients = {} /\ shards = {} /\ wildcards = {}
      /\ send = [c \in Conns |-> <<>>] /\ closed = {}
      /\ run = NewRun /\ cache = [n \in Names |-> NoFlag] /\ cacheRev = 0
      /\ h = [c \in Conns |-> NoHandler] /\ hist = <<>> /\ wire = [c \in Conns |-> <<>>] /\ failures = 0
  BY DEF StreamInit, BufferInit, HubInit
<1>1. Revs = {} /\ Len(hist) = 0
  BY <1>0 DEF Revs
<1>2. Ringed = {} /\ Given = {}
  BY <1>1 DEF Ringed, Given
<1>3. RingOK /\ RingType
  BY <1>0, <1>2, RingEmpty
<1>4. run \in RunType /\ run.pc = "boot" /\ run.base = 0 /\ run.pos = 0
  BY <1>0 DEF NewRun, RunType
<1>5. StreamTypeOK
  BY <1>0, <1>3, <1>4 DEF StreamTypeOK, RunType, RingType
<1>6. RunOK
  BY <1>1, <1>4 DEF RunOK
<1>7. HubOK
  BY <1>0 DEF HubOK, SendsAreOpen, Range
<1>8. CacheOK
  BY <1>0, <1>1, <1>4 DEF CacheOK, LoadOK
<1>9. ASSUME NEW d \in Conns PROVE PerConn(d)
  BY <1>0 DEF PerConn, OrderedOK, ConnOK, GapOK, Carries, Ascending, NoHandler
<1> QED BY <1>3, <1>5, <1>6, <1>7, <1>8, <1>9, InvParts
-----------------------------------------------------------------------------
(* The handlers.  What PerConn says of a connection c whose handler is x,  *)
(* which has written w and finds q in its channel.                         *)

Wants(c, x, r) == hist[r].scope \in Sub[c] /\ r > x.last

Later(x, r) == x.pc = "history" => r > Last(x.todo).rev

OrderedAt(c, x, w) ==
  /\ Ascending(w)
  /\ \A i \in DOMAIN w : w[i] # Reset => w[i].scope \in Sub[c] /\ w[i].rev > x.last

ConnAt(x, w, q) ==
  /\ Carries(q, Given) /\ Ascending(q)
  /\ Carries(w, Revs)
  /\ x.pc = "open" => w = <<>> /\ x.max = x.last /\ ~x.reset
  /\ x.pc = "history" =>
       /\ x.todo # <<>> /\ Carries(x.todo, Ringed) /\ Ascending(x.todo)
       /\ \A i \in DOMAIN x.todo : x.todo[i].rev > x.max
  /\ x.last <= x.max /\ x.max <= Len(hist)
  /\ \A i \in DOMAIN w : w[i] # Reset => w[i].rev <= x.max
  /\ \/ x.max = x.last
     \/ x.max \in Ringed
     \/ x.pc = "gone" /\ (run.pc \in {"boot", "stopped"} \/ x.max <= run.base)

GapAt(c, x, w, q) ==
  /\ x.pc \in {"history", "stream"} => c \in clients \cup closed
  /\ \A r \in Ringed : Wants(c, x, r) /\ r <= x.max => r \in RevsOf(w)
  /\ x.pc \in {"history", "stream"} =>
       /\ \A r \in Ringed : Wants(c, x, r) /\ r > x.max => Later(x, r) \/ r \in RevsOf(x.todo)
       /\ \A r \in Given : (/\ Wants(c, x, r) /\ r > x.max /\ Later(x, r)
                            /\ c \in clients \/ \E y \in RevsOf(q) : r <= y) => r \in RevsOf(q)

Early(x) == x.pc # "open" /\ x.early /\ ~x.reset

LEMMA PerConnIs ==
  ASSUME NEW c \in Conns, h[c] # NoHandler, PerConn(c)
  PROVE  /\ OrderedAt(c, h[c], wire[c]) /\ ConnAt(h[c], wire[c], send[c])
         /\ Early(h[c]) => GapAt(c, h[c], wire[c], send[c])
<1>1. OrderedAt(c, h[c], wire[c])
  BY DEF PerConn, OrderedOK, OrderedAt
<1>2. ConnAt(h[c], wire[c], send[c])
  BY DEF PerConn, ConnOK, ConnAt
<1>3. Early(h[c]) => GapAt(c, h[c], wire[c], send[c])
  BY DEF PerConn, GapOK, GapAt, Early, Asked, Behind, Wants, Later
<1> QED BY <1>1, <1>2, <1>3

LEMMA PerConnNow ==
  ASSUME NEW c \in Conns, NEW x \in Handler, NEW w, NEW q, BaseKept,
         h'[c] = x, wire'[c] = w, send'[c] = q, clients' = clients, closed' = closed,
         OrderedAt(c, x, w), ConnAt(x, w, q), Early(x) => GapAt(c, x, w, q)
  PROVE  PerConn(c)'
<1>1. hist' = hist /\ run' = run /\ Revs' = Revs /\ Ringed' = Ringed /\ Given' = Given
  BY SetsKept DEF BaseKept
<1>2. x # NoHandler
  BY DEF Handler, NoHandler
<1>5. OrderedOK(c)'
  BY DEF OrderedOK, OrderedAt, Ascending, IsEvent, Reset
<1>6. Carries(send[c], Given)' /\ Carries(wire[c], Revs)' /\ Ascending(send[c])'
  <2>1. Carries(q, Given) /\ Carries(w, Revs) /\ Ascending(q)
    BY DEF ConnAt
  <2>2. /\ \A r \in Given : hist'[r] = hist[r]
        /\ \A r \in Revs : hist'[r] = hist[r]
    BY <1>1
  <2> QED BY <1>1, <2>1, <2>2, CarriesKept DEF Ascending, IsEvent, Reset
<1>7. x.pc = "history" => /\ x.todo # <<>> /\ Carries(h[c].todo, Ringed)' /\ Ascending(h[c].todo)'
                          /\ \A i \in DOMAIN x.todo : x.todo[i].rev > x.max
  <2> SUFFICES ASSUME x.pc = "history"
               PROVE  /\ x.todo # <<>> /\ Carries(h[c].todo, Ringed)' /\ Ascending(h[c].todo)'
                      /\ \A i \in DOMAIN x.todo : x.todo[i].rev > x.max
    OBVIOUS
  <2>1. /\ x.todo # <<>> /\ Carries(x.todo, Ringed) /\ Ascending(x.todo)
        /\ \A i \in DOMAIN x.todo : x.todo[i].rev > x.max
    BY DEF ConnAt
  <2>2. \A r \in Ringed : hist'[r] = hist[r]
    BY <1>1
  <2> QED BY <1>1, <2>1, <2>2, CarriesKept DEF Ascending, IsEvent, Reset
<1>8. ConnOK(c)'
  BY <1>1, <1>2, <1>6, <1>7 DEF ConnAt, ConnOK, NoHandler, Reset
<1>9. GapOK(c)'
  <2>1. Early(x) => GapAt(c, x, w, q)
    OBVIOUS
  <2>2. /\ Asked(c, Ringed)' = {r \in Ringed : Wants(c, x, r)}
        /\ Asked(c, Given)' = {r \in Given : Wants(c, x, r)}
    BY <1>1 DEF Asked, Wants
  <2>3. \A r : Behind(c, r)' <=> Later(x, r)
    BY DEF Behind, Later, Last
  <2>4. RevsOf(wire[c])' = RevsOf(w) /\ RevsOf(send[c])' = RevsOf(q) /\ RevsOf(h[c].todo)' = RevsOf(x.todo)
    BY DEF RevsOf, IsEvent, Reset
  <2> QED BY <2>1, <2>2, <2>3, <2>4 DEF GapOK, GapAt, Early
<1> QED BY <1>5, <1>8, <1>9 DEF PerConn

\* The frame of a handler's step.
LEMMA OwnStep ==
  ASSUME StreamInv, BaseKept, UNCHANGED failures, NEW c \in Conns,
         NEW x \in {NoHandler} \cup Handler, NEW w \in Seq(Message \cup {Reset}),
         h' = [h EXCEPT ![c] = x], wire' = [wire EXCEPT ![c] = w],
         UNCHANGED <<clients, shards, wildcards>>, closed' \subseteq Conns, closed \subseteq closed' \cup {c},
         register' \in Seq(Conns), unregister' \in Seq(Conns),
         send' \in [Conns -> Seq(Message \cup {Ping})], \A d \in Conns : d # c => send'[d] = send[d],
         HubOK', PerConn(c)'
  PROVE  StreamInv'
<1>1. StreamTypeOK
  BY InvParts
<1>2. RunOK' /\ RingOK' /\ CacheOK'
  BY BaseSteps
<1>3. h' \in [Conns -> {NoHandler} \cup Handler] /\ wire' \in [Conns -> Seq(Message \cup {Reset})]
  BY <1>1 DEF StreamTypeOK
<1>4. StreamTypeOK'
  BY <1>1, <1>3 DEF StreamTypeOK, BaseKept
<1>5. ASSUME NEW d \in Conns PROVE PerConn(d)'
  <2>1. CASE d = c
    BY <2>1
  <2>2. CASE d # c
    <3>1. h'[d] = h[d] /\ wire'[d] = wire[d] /\ send'[d] = send[d]
      BY <1>1, <2>2 DEF StreamTypeOK
    <3>2. d \in clients \cup closed => d \in clients' \cup closed'
      BY <2>2
    <3> QED BY <3>1, <3>2, OtherConn
  <2> QED BY <2>1, <2>2
<1> QED BY <1>2, <1>4, <1>5, InvParts2
LEMMA ConnectStep ==
  ASSUME StreamInv, NEW c \in Conns, NEW last \in 0 .. Len(hist), Connect(c, last)
  PROVE  StreamInv'
<1> DEFINE x == [pc |-> IF c \in Dash THEN "stream" ELSE "open",
                 last |-> IF c \in Dash THEN 0 ELSE last,
                 max |-> IF c \in Dash THEN 0 ELSE last,
                 todo |-> <<>>, reset |-> FALSE, early |-> FALSE]
<1>0. /\ h[c] = NoHandler /\ h' = [h EXCEPT ![c] = x]
      /\ register' = Append(register, c)
      /\ UNCHANGED <<unregister, clients, shards, wildcards, send, closed>>
      /\ BaseKept /\ wire' = wire /\ failures' = failures
  BY DEF Connect, Moves, Register, BaseKept, bufVars
<1>1. StreamTypeOK /\ HubOK /\ Len(hist) \in Nat
  BY InvParts, FeatureType
<1>2. /\ x \in Handler /\ x.last = x.max /\ x.max <= Len(hist) /\ ~x.reset /\ ~x.early
      /\ x.pc \in {"stream", "open"} /\ x.last \in Nat
  BY <1>1 DEF Handler
<1> HIDE DEF x
<1>3. /\ wire[c] = <<>> /\ Carries(send[c], Given) /\ Ascending(send[c])
  BY <1>0, InvParts DEF PerConn, ConnOK
<1>4. /\ wire \in [Conns -> Seq(Message \cup {Reset})] /\ h \in [Conns -> {NoHandler} \cup Handler]
      /\ send \in [Conns -> Seq(Message \cup {Ping})] /\ register \in Seq(Conns)
  BY <1>1 DEF StreamTypeOK
<1>5. PerConn(c)'
  <2>1. h'[c] = x /\ wire'[c] = wire[c] /\ send'[c] = send[c]
    BY <1>0, <1>4
  <2>2. OrderedAt(c, x, wire[c])
    BY <1>3 DEF OrderedAt, Ascending
  <2>3. ConnAt(x, wire[c], send[c])
    BY <1>2, <1>3 DEF ConnAt, Carries
  <2>4. ~Early(x)
    BY <1>2 DEF Early
  <2> QED BY <1>0, <1>2, <2>1, <2>2, <2>3, <2>4, PerConnNow
<1>6. HubOK'
  <2>1. /\ Len(register) \in Nat /\ DOMAIN register' = 1 .. Len(register) + 1
        /\ register'[Len(register) + 1] = c /\ \A i \in 1 .. Len(register) : register'[i] = register[i]
        /\ DOMAIN register = 1 .. Len(register)
    BY <1>0, <1>4
  <2>2. \A i \in 1 .. Len(register) + 1 : i # Len(register) + 1 => i \in 1 .. Len(register)
    BY <2>1
  <2>3. /\ c \notin clients \cup closed \cup Range(register)
        /\ \A i \in 1 .. Len(register) : register[i] # c
    BY <1>0, <1>1, <2>1 DEF HubOK, Range
  <2>4. \A i, j \in DOMAIN register' : register'[i] = register'[j] => i = j
    BY <1>1, <2>1, <2>2, <2>3 DEF HubOK
  <2>5. \A i \in DOMAIN register' : register'[i] \notin clients \cup closed
    BY <1>1, <2>1, <2>2, <2>3 DEF HubOK
  <2>6. Range(register') \subseteq Range(register) \cup {c}
    BY <2>1, <2>2 DEF Range
  <2>7. ASSUME NEW d \in Conns, d \in clients \cup closed \cup Range(register') PROVE h'[d] # NoHandler
    <3>1. CASE d = c
      BY <1>0, <1>2, <1>4, <3>1 DEF Handler, NoHandler
    <3>2. CASE d # c
      BY <1>0, <1>1, <1>4, <2>6, <2>7, <3>2 DEF HubOK
    <3> QED BY <3>1, <3>2
  <2> QED BY <1>0, <1>1, <2>4, <2>5, <2>7 DEF HubOK, SendsAreOpen, Range, NoHandler
<1>7. register' \in Seq(Conns) /\ unregister' \in Seq(Conns) /\ closed' \subseteq Conns
  BY <1>0, <1>1, <1>4 DEF StreamTypeOK
<1>8. wire' = [wire EXCEPT ![c] = wire[c]] /\ wire[c] \in Seq(Message \cup {Reset})
  BY <1>0, <1>4
<1> QED BY <1>0, <1>2, <1>4, <1>5, <1>6, <1>7, <1>8, OwnStep

\* The hub's books, when only channels and handlers change.
LEMMA HubSame2 ==
  ASSUME HubOK, UNCHANGED <<register, clients, shards, wildcards, closed>>,
         \A c \in Conns : h[c] # NoHandler => h'[c] # NoHandler
  PROVE  HubOK'
BY DEF HubOK, SendsAreOpen, Range, NoHandler

\* A step of a handler that goes on and leaves the hub's books alone.
LEMMA GoesOn ==
  ASSUME StreamInv, BaseKept, UNCHANGED failures, NEW c \in Conns, h[c] # NoHandler,
         NEW x \in Handler, NEW w \in Seq(Message \cup {Reset}), NEW q \in Seq(Message \cup {Ping}),
         h' = [h EXCEPT ![c] = x], wire' = [wire EXCEPT ![c] = w], send' = [send EXCEPT ![c] = q],
         UNCHANGED <<register, clients, shards, wildcards, closed>>, unregister' \in Seq(Conns),
         OrderedAt(c, x, w), ConnAt(x, w, q), Early(x) => GapAt(c, x, w, q)
  PROVE  StreamInv'
<1>1. StreamTypeOK /\ HubOK
  BY InvParts
<1>2. /\ h'[c] = x /\ wire'[c] = w /\ send'[c] = q
      /\ send' \in [Conns -> Seq(Message \cup {Ping})] /\ \A d \in Conns : d # c => send'[d] = send[d]
      /\ register' \in Seq(Conns) /\ closed' \subseteq Conns
  BY <1>1 DEF StreamTypeOK
<1>3. PerConn(c)'
  BY <1>2, PerConnNow
<1>4. x # NoHandler
  BY DEF Handler, NoHandler
<1>5. HubOK'
  <2>1. \A d \in Conns : h[d] # NoHandler => h'[d] # NoHandler
    BY <1>1, <1>4 DEF StreamTypeOK
  <2> QED BY <1>1, <2>1, HubSame2
<1> QED BY <1>2, <1>3, <1>5, OwnStep
\* What a step of a handler finds.
LEMMA OwnFacts ==
  ASSUME StreamInv, NEW c \in Conns, h[c] # NoHandler
  PROVE  /\ h[c] \in Handler /\ h[c].last \in Nat /\ h[c].max \in Nat /\ h[c].todo \in Seq(Message)
         /\ wire[c] \in Seq(Message \cup {Reset}) /\ send[c] \in Seq(Message \cup {Ping})
         /\ OrderedAt(c, h[c], wire[c]) /\ ConnAt(h[c], wire[c], send[c])
         /\ Early(h[c]) => GapAt(c, h[c], wire[c], send[c])
<1>1. StreamTypeOK /\ PerConn(c)
  BY InvParts
<1> QED BY <1>1, ConnType, PerConnIs

\* The handler leaves its loop, by its client's or by the hub's will.
LEMMA DoneStep ==
  ASSUME StreamInv, NEW c \in Conns, StreamClosed(c) \/ StreamDone(c)
  PROVE  StreamInv'
<1> DEFINE x == [h[c] EXCEPT !.pc = "leaving"]
<1>0. /\ h[c].pc = "stream" /\ h' = [h EXCEPT ![c] = x]
      /\ UNCHANGED <<register, unregister, clients, shards, wildcards, send, closed>>
      /\ BaseKept /\ wire' = wire /\ failures' = failures
  BY DEF StreamClosed, StreamDone, Moves, BaseKept, bufVars, hubVars
<1>1. StreamTypeOK
  BY InvParts
<1>2. h[c] # NoHandler
  BY <1>0, <1>1, ConnType
<1>3. /\ h[c] \in Handler /\ wire[c] \in Seq(Message \cup {Reset}) /\ send[c] \in Seq(Message \cup {Ping})
      /\ OrderedAt(c, h[c], wire[c]) /\ ConnAt(h[c], wire[c], send[c])
      /\ Early(h[c]) => GapAt(c, h[c], wire[c], send[c])
  BY <1>2, OwnFacts
<1>4. /\ x \in Handler /\ x.pc = "leaving" /\ x.last = h[c].last /\ x.max = h[c].max
      /\ x.early = h[c].early /\ x.reset = h[c].reset
  BY <1>3 DEF Handler
<1> HIDE DEF x
<1>5. OrderedAt(c, x, wire[c])
  BY <1>3, <1>4 DEF OrderedAt
<1>6. ConnAt(x, wire[c], send[c])
  BY <1>0, <1>3, <1>4 DEF ConnAt
<1>7. Early(x) => GapAt(c, x, wire[c], send[c])
  BY <1>0, <1>3, <1>4 DEF Early, GapAt, Wants
<1>8. wire' = [wire EXCEPT ![c] = wire[c]] /\ send' = [send EXCEPT ![c] = send[c]] /\ unregister' \in Seq(Conns)
  BY <1>0, <1>1 DEF StreamTypeOK
<1> QED BY <1>0, <1>2, <1>3, <1>4, <1>5, <1>6, <1>7, <1>8, GoesOn

LEMMA LeaveStep ==
  ASSUME StreamInv, NEW c \in Conns, Leave(c)
  PROVE  StreamInv'
<1> DEFINE x == [h[c] EXCEPT !.pc = "gone"]
<1>0. /\ h[c].pc = "leaving" /\ h' = [h EXCEPT ![c] = x]
      /\ unregister' = Append(unregister, c)
      /\ UNCHANGED <<register, clients, shards, wildcards, send, closed>>
      /\ BaseKept /\ wire' = wire /\ failures' = failures
  BY DEF Leave, Unregister, Moves, BaseKept, bufVars
<1>1. StreamTypeOK
  BY InvParts
<1>2. h[c] # NoHandler
  BY <1>0, <1>1, ConnType
<1>3. /\ h[c] \in Handler /\ wire[c] \in Seq(Message \cup {Reset}) /\ send[c] \in Seq(Message \cup {Ping})
      /\ OrderedAt(c, h[c], wire[c]) /\ ConnAt(h[c], wire[c], send[c])
      /\ Early(h[c]) => GapAt(c, h[c], wire[c], send[c])
  BY <1>2, OwnFacts
<1>4. /\ x \in Handler /\ x.pc = "gone" /\ x.last = h[c].last /\ x.max = h[c].max
      /\ x.early = h[c].early /\ x.reset = h[c].reset
  BY <1>3 DEF Handler
<1> HIDE DEF x
<1>5. OrderedAt(c, x, wire[c])
  BY <1>3, <1>4 DEF OrderedAt
<1>6. ConnAt(x, wire[c], send[c])
  BY <1>0, <1>3, <1>4 DEF ConnAt
<1>7. Early(x) => GapAt(c, x, wire[c], send[c])
  BY <1>0, <1>3, <1>4 DEF Early, GapAt, Wants
<1>8. wire' = [wire EXCEPT ![c] = wire[c]] /\ send' = [send EXCEPT ![c] = send[c]] /\ unregister' \in Seq(Conns)
  BY <1>0, <1>1 DEF StreamTypeOK
<1> QED BY <1>0, <1>2, <1>3, <1>4, <1>5, <1>6, <1>7, <1>8, GoesOn

LEMMA CollectStep ==
  ASSUME StreamInv, NEW c \in Conns, Collect(c)
  PROVE  StreamInv'
<1>0. /\ h' = [h EXCEPT ![c] = NoHandler] /\ wire' = [wire EXCEPT ![c] = <<>>]
      /\ send' = [send EXCEPT ![c] = <<>>] /\ closed' = closed \ {c}
      /\ c \notin clients /\ \A i \in DOMAIN register : register[i] # c
      /\ UNCHANGED <<register, unregister, clients, shards, wildcards>>
      /\ BaseKept /\ failures' = failures
  BY DEF Collect, Garbage, Moves, BaseKept, bufVars
<1>1. StreamTypeOK /\ HubOK
  BY InvParts
<1>2. /\ h'[c] = NoHandler /\ wire'[c] = <<>> /\ send'[c] = <<>>
      /\ send' \in [Conns -> Seq(Message \cup {Ping})] /\ \A d \in Conns : d # c => send'[d] = send[d] /\ h'[d] = h[d]
      /\ register' \in Seq(Conns) /\ unregister' \in Seq(Conns) /\ closed' \subseteq Conns
  BY <1>0, <1>1 DEF StreamTypeOK
<1>3. PerConn(c)'
  <2>1. h'[c].pc = "new"
    BY <1>2 DEF NoHandler
  <2>2. OrderedOK(c)'
    BY <1>2 DEF OrderedOK, Ascending
  <2>3. ConnOK(c)'
    BY <1>2, <2>1 DEF ConnOK, Carries, Ascending, NoHandler
  <2>4. GapOK(c)'
    BY <1>2 DEF GapOK, NoHandler
  <2> QED BY <2>2, <2>3, <2>4 DEF PerConn
<1>4. HubOK'
  <2>1. c \notin Range(register)
    BY <1>0 DEF Range
  <2>2. \A d \in Conns : d \in clients \cup closed' \cup Range(register) => h'[d] # NoHandler
    BY <1>0, <1>1, <1>2, <2>1 DEF HubOK
  <2>3. SendsAreOpen'
    BY <1>0, <1>1 DEF HubOK, SendsAreOpen
  <2> QED BY <1>0, <1>1, <2>2, <2>3 DEF HubOK, Range, NoHandler
<1>5. <<>> \in Seq(Message \cup {Reset})
  OBVIOUS
<1> QED BY <1>0, <1>2, <1>3, <1>4, <1>5, OwnStep

LEMMA CompensateStep ==
  ASSUME StreamInv, NEW c \in Conns, Compensate(c)
  PROVE  StreamInv'
<1> DEFINE e == c \in clients
           res == GetSince(h[c].last)
           pcOf(t) == IF t = <<>> THEN "stream" ELSE "history"
           x1 == [h[c] EXCEPT !.early = e, !.pc = pcOf(res.msgs), !.todo = res.msgs]
           x2 == [h[c] EXCEPT !.early = e, !.reset = TRUE, !.pc = "stream", !.todo = <<>>]
<1>0. /\ h[c].pc = "open"
      /\ \/ res.ok /\ h' = [h EXCEPT ![c] = x1] /\ wire' = wire
         \/ ~res.ok /\ h' = [h EXCEPT ![c] = x2] /\ wire' = [wire EXCEPT ![c] = Append(wire[c], Reset)]
      /\ UNCHANGED <<register, unregister, clients, shards, wildcards, send, closed>>
      /\ BaseKept /\ failures' = failures
  BY DEF Compensate, Rest, Moves, BaseKept, bufVars, hubVars
<1>1. StreamTypeOK /\ RingOK
  BY InvParts
<1>2. h[c] # NoHandler
  BY <1>0, <1>1, ConnType
<1>3. /\ h[c] \in Handler /\ h[c].last \in Nat /\ h[c].max \in Nat
      /\ wire[c] \in Seq(Message \cup {Reset}) /\ send[c] \in Seq(Message \cup {Ping})
      /\ OrderedAt(c, h[c], wire[c]) /\ ConnAt(h[c], wire[c], send[c])
  BY <1>2, OwnFacts
<1>4. wire[c] = <<>> /\ h[c].max = h[c].last
  BY <1>0, <1>3 DEF ConnAt
<1>5. /\ send' = [send EXCEPT ![c] = send[c]] /\ unregister' \in Seq(Conns)
      /\ wire[c] \in Seq(Message \cup {Reset}) /\ wire = [wire EXCEPT ![c] = wire[c]]
  BY <1>0, <1>1, <1>3 DEF StreamTypeOK
<1>6. CASE res.ok
  <2>1. /\ res.msgs \in Seq(Message) /\ Ascending(res.msgs)
        /\ Carries(res.msgs, {y \in Ringed : y > h[c].last})
        /\ \A r \in Ringed : r > h[c].last => r \in RevsOf(res.msgs)
    BY <1>1, <1>3, <1>6, SinceExact
  <2>2. /\ x1 \in Handler /\ x1.pc = pcOf(res.msgs) /\ x1.todo = res.msgs /\ x1.last = h[c].last
        /\ x1.max = h[c].max /\ x1.reset = h[c].reset /\ x1.early = e
    <3>1. e \in BOOLEAN /\ pcOf(res.msgs) \in {"history", "stream"}
      OBVIOUS
    <3> HIDE DEF res, pcOf, e
    <3> QED BY <1>3, <2>1, <3>1 DEF Handler
  <2>3. pcOf(res.msgs) \in {"stream", "history"} /\ (pcOf(res.msgs) = "stream" <=> res.msgs = <<>>)
    OBVIOUS
  <2>h. h' = [h EXCEPT ![c] = x1] /\ wire' = [wire EXCEPT ![c] = wire[c]]
    BY <1>0, <1>5, <1>6
  <2> HIDE DEF x1, res, pcOf
  <2>4. OrderedAt(c, x1, wire[c])
    BY <1>3, <2>2 DEF OrderedAt
  <2>5. ASSUME NEW i \in DOMAIN res.msgs
        PROVE  /\ res.msgs[i].rev \in Ringed /\ res.msgs[i].rev > h[c].last
               /\ res.msgs[i] = Msg(res.msgs[i].rev)
    <3>1. IsEvent(res.msgs[i])
      BY <2>1, EventMsg
    <3> QED BY <2>1, <3>1 DEF Carries
  <2>6. ConnAt(x1, wire[c], send[c])
    <3>1. Carries(res.msgs, Ringed)
      BY <2>5 DEF Carries
    <3> QED BY <1>3, <1>4, <2>1, <2>2, <2>3, <2>5, <3>1 DEF ConnAt
  <2>7. ASSUME Early(x1) PROVE GapAt(c, x1, wire[c], send[c])
    <3>1. c \in clients
      BY <2>2, <2>7 DEF Early
    <3>2. Given \subseteq Ringed /\ \A r \in Ringed : r \in Nat
      BY <1>1, RingedFacts
    <3>3. \A r \in Ringed : Wants(c, x1, r) => ~(r <= x1.max) /\ r \in RevsOf(x1.todo)
      BY <1>3, <1>4, <2>1, <2>2, <3>2 DEF Wants
    <3>4. ASSUME NEW r \in Ringed, Wants(c, x1, r), Later(x1, r) PROVE FALSE
      <4>1. r \in RevsOf(res.msgs)
        BY <2>2, <3>3, <3>4
      <4>2. res.msgs # <<>>
        BY <4>1 DEF RevsOf
      <4>3. Last(res.msgs).rev < r
        BY <2>2, <2>3, <3>4, <4>2 DEF Later
      <4>4. r <= Last(res.msgs).rev /\ Last(res.msgs) \in Message
        BY <2>1, <4>1, <4>2, AscLast
      <4>5. Last(res.msgs).rev \in Nat /\ r \in Nat
        BY <3>2, <4>4, EventMsg
      <4> QED BY <4>3, <4>4, <4>5
    <3> QED BY <3>1, <3>2, <3>3, <3>4 DEF GapAt
  <2> QED BY <1>0, <1>2, <1>3, <1>5, <2>2, <2>4, <2>6, <2>7, <2>h, GoesOn
<1>7. CASE ~res.ok
  <2> DEFINE w == Append(wire[c], Reset)
  <2>1. /\ x2 \in Handler /\ x2.pc = "stream" /\ x2.last = h[c].last /\ x2.max = h[c].max /\ x2.reset
    <3>1. e \in BOOLEAN /\ <<>> \in Seq(Message)
      OBVIOUS
    <3> HIDE DEF e
    <3> QED BY <1>3, <3>1 DEF Handler
  <2>2. w = <<Reset>> /\ w \in Seq(Message \cup {Reset}) /\ ~IsEvent(Reset)
    BY <1>4 DEF IsEvent
  <2>h. h' = [h EXCEPT ![c] = x2] /\ wire' = [wire EXCEPT ![c] = w]
    BY <1>0, <1>7
  <2> HIDE DEF x2, res, w
  <2>3. \A i \in DOMAIN w : w[i] = Reset
    BY <2>2
  <2>4. OrderedAt(c, x2, w)
    BY <2>2, <2>3 DEF OrderedAt, Ascending
  <2>5. ConnAt(x2, w, send[c])
    <3>1. Carries(w, Revs)
      BY <2>2, <2>3 DEF Carries
    <3> QED BY <1>3, <1>4, <2>1, <2>3, <3>1 DEF ConnAt
  <2>6. ~Early(x2)
    BY <2>1 DEF Early
  <2> QED BY <1>0, <1>2, <1>3, <1>5, <2>1, <2>2, <2>4, <2>5, <2>6, <2>h, GoesOn
<1> QED BY <1>6, <1>7
LEMMA LastTail ==
  ASSUME NEW S, NEW s \in Seq(S), s # <<>>
  PROVE  /\ Tail(s) # <<>> => Last(Tail(s)) = Last(s)
         /\ Tail(s) = <<>> => Last(s) = Head(s)
<1>1. /\ Head(s) = s[1] /\ Tail(s) \in Seq(S) /\ Len(s) \in Nat /\ Len(s) >= 1 /\ Len(Tail(s)) = Len(s) - 1
      /\ \A j \in 1 .. Len(s) - 1 : Tail(s)[j] = s[j + 1]
  BY SeqTail
<1>2. Tail(s) = <<>> <=> Len(s) - 1 = 0
  BY <1>1, SeqEmpty
<1>3. CASE Tail(s) = <<>>
  BY <1>1, <1>2, <1>3 DEF Last
<1>4. CASE Tail(s) # <<>>
  <2>1. Len(s) - 1 \in 1 .. Len(s) - 1 /\ (Len(s) - 1) + 1 = Len(s)
    BY <1>1, <1>2, <1>4
  <2> QED BY <1>1, <1>4, <2>1 DEF Last
<1> QED BY <1>3, <1>4

LEMMA HistoryStep ==
  ASSUME StreamInv, NEW c \in Conns, SendHistory(c)
  PROVE  StreamInv'
<1> DEFINE m == Head(h[c].todo)
           t == Tail(h[c].todo)
           pc == IF t = <<>> THEN "stream" ELSE "history"
           x1 == [h[c] EXCEPT !.max = m.rev, !.pc = pc, !.todo = t]
           x2 == [h[c] EXCEPT !.pc = pc, !.todo = t]
<1>0. /\ h[c].pc = "history"
      /\ \/ m.scope \in Sub[c] /\ h' = [h EXCEPT ![c] = x1] /\ wire' = [wire EXCEPT ![c] = Append(wire[c], m)]
         \/ m.scope \notin Sub[c] /\ h' = [h EXCEPT ![c] = x2] /\ wire' = wire
      /\ UNCHANGED <<register, unregister, clients, shards, wildcards, send, closed>>
      /\ BaseKept /\ failures' = failures
  BY DEF SendHistory, Rest, Moves, BaseKept, bufVars, hubVars
<1>1. StreamTypeOK /\ Len(hist) \in Nat
  BY InvParts, FeatureType
<1>2. h[c] # NoHandler
  BY <1>0, <1>1, ConnType
<1>3. /\ h[c] \in Handler /\ h[c].last \in Nat /\ h[c].max \in Nat /\ h[c].todo \in Seq(Message)
      /\ wire[c] \in Seq(Message \cup {Reset}) /\ send[c] \in Seq(Message \cup {Ping})
      /\ OrderedAt(c, h[c], wire[c]) /\ ConnAt(h[c], wire[c], send[c])
      /\ Early(h[c]) => GapAt(c, h[c], wire[c], send[c])
  BY <1>2, OwnFacts
<1>4. /\ h[c].todo # <<>> /\ Carries(h[c].todo, Ringed) /\ Ascending(h[c].todo)
      /\ \A i \in DOMAIN h[c].todo : h[c].todo[i].rev > h[c].max
  BY <1>0, <1>3 DEF ConnAt
<1>5. /\ m \in Message /\ m = h[c].todo[1] /\ t \in Seq(Message)
      /\ Len(h[c].todo) \in Nat /\ Len(h[c].todo) >= 1 /\ Len(t) = Len(h[c].todo) - 1
      /\ \A j \in 1 .. Len(h[c].todo) - 1 : t[j] = h[c].todo[j + 1]
  BY <1>3, <1>4, SeqTail
<1>6. IsEvent(m) /\ m.rev \in Nat
  BY <1>5, EventMsg
<1>7. /\ m.rev \in Ringed /\ m = Msg(m.rev) /\ m.rev > h[c].max /\ Carries(t, Ringed) /\ Ascending(t)
  <2>1. m.rev \in Ringed /\ m = Msg(m.rev) /\ Carries(t, Ringed)
    BY <1>3, <1>4, <1>6, CarriesTail
  <2>2. Ascending(t)
    BY <1>3, <1>4, AscTail
  <2>3. 1 \in DOMAIN h[c].todo
    BY <1>3, <1>5
  <2> QED BY <1>4, <1>5, <2>1, <2>2, <2>3
<1>8. ASSUME NEW j \in DOMAIN t PROVE t[j].rev > m.rev /\ t[j].rev > h[c].max
  <2>1. j + 1 \in DOMAIN h[c].todo /\ 1 \in DOMAIN h[c].todo /\ 1 < j + 1 /\ t[j] = h[c].todo[j + 1]
        /\ h[c].todo[j + 1] \in Message
    BY <1>3, <1>5
  <2>2. IsEvent(h[c].todo[j + 1]) /\ h[c].todo[j + 1].rev \in Nat
    BY <2>1, EventMsg
  <2>3. m.rev < h[c].todo[j + 1].rev
    BY <1>4, <1>5, <1>6, <2>1, <2>2 DEF Ascending
  <2> QED BY <1>4, <1>6, <2>1, <2>2, <2>3
<1>9. m.rev \in Revs /\ m.rev <= Len(hist) /\ hist[m.rev].scope = m.scope
  <2>1. m.rev \in Revs
    BY <1>1, <1>7, RingedFacts
  <2>2. hist[m.rev].scope = m.scope
    BY <1>7 DEF Msg
  <2> QED BY <1>1, <2>1, <2>2 DEF Revs
<1>10. RevsOf(h[c].todo) = RevsOf(t) \cup {m.rev} /\ \A r \in RevsOf(h[c].todo) : r = m.rev \/ m.rev < r
  BY <1>3, <1>4, <1>6, RevsTail, AscHead
<1>11. /\ t # <<>> => Last(t) = Last(h[c].todo)
       /\ t = <<>> => Last(h[c].todo) = m
       /\ Last(h[c].todo).rev \in Nat /\ m.rev <= Last(h[c].todo).rev
  <2>1. m.rev \in RevsOf(h[c].todo)
    BY <1>10
  <2>2. m.rev <= Last(h[c].todo).rev /\ Last(h[c].todo) \in Message
    BY <1>3, <1>4, <2>1, AscLast
  <2> QED BY <1>3, <1>4, <2>2, LastTail, EventMsg
<1>12. pc \in {"stream", "history"} /\ (pc = "stream" <=> t = <<>>)
  OBVIOUS
<1>13. /\ Given \subseteq Ringed /\ (\A r \in Ringed : r \in Nat)
       /\ send' = [send EXCEPT ![c] = send[c]] /\ unregister' \in Seq(Conns)
  BY <1>0, <1>1, RingedFacts DEF StreamTypeOK
<1>14. /\ x1 \in Handler /\ x1.pc = pc /\ x1.todo = t /\ x1.last = h[c].last /\ x1.max = m.rev
       /\ x1.reset = h[c].reset /\ x1.early = h[c].early
       /\ x2 \in Handler /\ x2.pc = pc /\ x2.todo = t /\ x2.last = h[c].last /\ x2.max = h[c].max
       /\ x2.reset = h[c].reset /\ x2.early = h[c].early
  <2> HIDE DEF m, t, pc
  <2> QED BY <1>3, <1>5, <1>6, <1>12 DEF Handler
<1> HIDE DEF m, t, pc, x1, x2
\* Where an event is that the handler had still to write.
<1>15. ASSUME Early(h[c]), NEW r \in Ringed, Wants(c, h[c], r), r > h[c].max
       PROVE  r > Last(h[c].todo).rev \/ r \in RevsOf(h[c].todo)
  <2>1. GapAt(c, h[c], wire[c], send[c])
    BY <1>3, <1>15
  <2> QED BY <1>0, <1>15, <2>1 DEF GapAt, Later
<1>16. ASSUME Early(h[c]), NEW r \in Given, Wants(c, h[c], r), r > Last(h[c].todo).rev,
              c \in clients \/ \E y \in RevsOf(send[c]) : r <= y
       PROVE  r \in RevsOf(send[c])
  <2>1. GapAt(c, h[c], wire[c], send[c])
    BY <1>3, <1>16
  <2>2. r > h[c].max /\ Later(h[c], r)
    BY <1>3, <1>6, <1>7, <1>11, <1>13, <1>16 DEF Later
  <2> QED BY <1>0, <1>16, <2>1, <2>2 DEF GapAt
<1>17. Early(h[c]) => /\ c \in clients \cup closed
                      /\ \A r \in Ringed : Wants(c, h[c], r) /\ r <= h[c].max => r \in RevsOf(wire[c])
  BY <1>0, <1>3 DEF GapAt
<1>18. CASE m.scope \in Sub[c]
  <2> DEFINE w == Append(wire[c], m)
  <2>1. /\ w \in Seq(Message \cup {Reset}) /\ Len(w) = Len(wire[c]) + 1 /\ Len(wire[c]) \in Nat
        /\ w[Len(wire[c]) + 1] = m /\ \A j \in 1 .. Len(wire[c]) : w[j] = wire[c][j]
    BY <1>3, <1>5, SeqAppend
  <2>2. RevsOf(w) = RevsOf(wire[c]) \cup {m.rev}
    BY <1>3, <1>5, <1>6, RevsAppend
  <2>h. h' = [h EXCEPT ![c] = x1] /\ wire' = [wire EXCEPT ![c] = w]
    BY <1>0, <1>18
  <2>3. \A i \in 1 .. Len(wire[c]) : wire[c][i] # Reset => /\ wire[c][i].scope \in Sub[c] /\ wire[c][i].rev > h[c].last
                                                           /\ wire[c][i].rev <= h[c].max /\ wire[c][i].rev \in Nat
    <3>1. \A i \in 1 .. Len(wire[c]) : wire[c][i] # Reset => wire[c][i] \in Message
      BY <1>3
    <3> QED BY <1>3, <3>1, EventMsg DEF OrderedAt, ConnAt
  <2>4. Ascending(w)
    <3>1. \A i \in 1 .. Len(wire[c]) : IsEvent(wire[c][i]) => wire[c][i].rev < m.rev
      BY <1>3, <1>6, <1>7, <2>3 DEF IsEvent
    <3> QED BY <1>3, <1>5, <3>1, AscAppend DEF OrderedAt
  <2>5. Carries(w, Revs)
    <3>1. Carries(wire[c], Revs) /\ m \in Message \cup {Reset}
      BY <1>3, <1>5 DEF ConnAt
    <3> QED BY <1>3, <1>7, <1>9, <3>1, CarriesAppend
  <2> HIDE DEF w
  <2>6. ASSUME NEW i \in DOMAIN w, w[i] # Reset
        PROVE  w[i].scope \in Sub[c] /\ w[i].rev > h[c].last /\ w[i].rev <= m.rev
    <3>1. CASE i = Len(wire[c]) + 1
      <4>1. w[i] = m
        BY <2>1, <3>1
      <4>2. h[c].last <= h[c].max
        BY <1>3 DEF ConnAt
      <4> QED BY <1>3, <1>6, <1>7, <1>18, <4>1, <4>2
    <3>2. CASE i # Len(wire[c]) + 1
      <4>1. i \in 1 .. Len(wire[c]) /\ w[i] = wire[c][i]
        BY <2>1, <3>2
      <4> QED BY <1>3, <1>6, <1>7, <2>3, <2>6, <4>1
    <3> QED BY <3>1, <3>2
  <2>7. OrderedAt(c, x1, w)
    BY <1>14, <2>4, <2>6 DEF OrderedAt
  <2>8. h[c].last <= m.rev
    BY <1>3, <1>6, <1>7 DEF ConnAt
  <2>9. ConnAt(x1, w, send[c])
    BY <1>3, <1>7, <1>8, <1>9, <1>12, <1>14, <2>5, <2>6, <2>8 DEF ConnAt
  <2>10. ASSUME Early(x1) PROVE GapAt(c, x1, w, send[c])
    <3>1. Early(h[c]) /\ \A r : Wants(c, x1, r) <=> Wants(c, h[c], r)
      BY <1>0, <1>14, <2>10 DEF Early, Wants
    <3>2. ASSUME NEW r \in Ringed, Wants(c, h[c], r), r <= m.rev PROVE r \in RevsOf(w)
      <4>1. CASE r <= h[c].max
        BY <1>17, <2>2, <3>1, <3>2, <4>1
      <4>2. CASE r > h[c].max
        <5>1. r \in Nat
          BY <1>13
        <5>2. r = m.rev
          BY <1>6, <1>10, <1>11, <1>15, <3>1, <3>2, <4>2, <5>1
        <5> QED BY <2>2, <5>2
      <4>3. r \in Nat
        BY <1>13
      <4> QED BY <1>3, <4>1, <4>2, <4>3
    <3>3. ASSUME NEW r \in Ringed, Wants(c, h[c], r), r > m.rev
          PROVE  Later(x1, r) \/ r \in RevsOf(t)
      <4>1. r \in Nat /\ r > h[c].max
        BY <1>3, <1>6, <1>7, <1>13, <3>3
      <4>2. r > Last(h[c].todo).rev \/ r \in RevsOf(h[c].todo)
        BY <1>15, <3>1, <3>3, <4>1
      <4>3. r # m.rev
        BY <1>6, <3>3, <4>1
      <4> QED BY <1>10, <1>11, <1>12, <1>14, <4>2, <4>3 DEF Later
    <3>4. ASSUME NEW r \in Given, Wants(c, h[c], r), r > m.rev, Later(x1, r),
                 c \in clients \/ \E y \in RevsOf(send[c]) : r <= y
          PROVE  r \in RevsOf(send[c])
      <4>1. r > Last(h[c].todo).rev
        BY <1>11, <1>12, <1>14, <3>4 DEF Later
      <4> QED BY <1>16, <3>1, <3>4, <4>1
    <3> QED BY <1>14, <1>17, <3>1, <3>2, <3>3, <3>4 DEF GapAt
  <2> QED BY <1>0, <1>2, <1>3, <1>13, <1>14, <2>1, <2>7, <2>9, <2>10, <2>h, GoesOn
<1>19. CASE m.scope \notin Sub[c]
  <2>h. h' = [h EXCEPT ![c] = x2] /\ wire' = [wire EXCEPT ![c] = wire[c]]
    BY <1>0, <1>1, <1>19 DEF StreamTypeOK
  <2>1. OrderedAt(c, x2, wire[c])
    BY <1>3, <1>14 DEF OrderedAt
  <2>2. ConnAt(x2, wire[c], send[c])
    BY <1>0, <1>3, <1>7, <1>8, <1>12, <1>14 DEF ConnAt
  <2>3. ASSUME Early(x2) PROVE GapAt(c, x2, wire[c], send[c])
    <3>1. Early(h[c]) /\ \A r : Wants(c, x2, r) <=> Wants(c, h[c], r)
      BY <1>0, <1>14, <2>3 DEF Early, Wants
    <3>2. ASSUME NEW r \in Ringed, Wants(c, h[c], r), r > h[c].max
          PROVE  r > Last(h[c].todo).rev \/ r \in RevsOf(t)
      <4>1. r # m.rev
        BY <1>9, <1>19, <3>2 DEF Wants
      <4> QED BY <1>10, <1>15, <3>1, <3>2, <4>1
    <3>3. ASSUME NEW r \in Ringed, Wants(c, h[c], r), r > h[c].max
          PROVE  Later(x2, r) \/ r \in RevsOf(t)
      BY <1>11, <1>12, <1>14, <3>2, <3>3 DEF Later
    <3>4. ASSUME NEW r \in Given, Wants(c, h[c], r), r > h[c].max, Later(x2, r),
                 c \in clients \/ \E y \in RevsOf(send[c]) : r <= y
          PROVE  r \in RevsOf(send[c])
      <4>1. r > Last(h[c].todo).rev
        <5>1. CASE t = <<>>
          <6>1. RevsOf(t) = {}
            BY <5>1 DEF RevsOf
          <6> QED BY <1>13, <3>2, <3>4, <6>1
        <5>2. CASE t # <<>>
          BY <1>11, <1>12, <1>14, <3>4, <5>2 DEF Later
        <5> QED BY <5>1, <5>2
      <4> QED BY <1>16, <3>1, <3>4, <4>1
    <3> QED BY <1>14, <1>17, <3>1, <3>3, <3>4 DEF GapAt
  <2> QED BY <1>0, <1>2, <1>3, <1>13, <1>14, <2>1, <2>2, <2>3, <2>h, GoesOn
<1> QED BY <1>18, <1>19
LEMMA StreamStep ==
  ASSUME StreamInv, NEW c \in Conns, Stream(c)
  PROVE  StreamInv'
<1> DEFINE m == Head(send[c])
           q == Tail(send[c])
           x == [h[c] EXCEPT !.max = m.rev]
<1>0. /\ h[c].pc = "stream" /\ send[c] # <<>> /\ send' = [send EXCEPT ![c] = q]
      /\ \/ Wanted(c, m) /\ h' = [h EXCEPT ![c] = x] /\ wire' = [wire EXCEPT ![c] = Append(wire[c], m)]
         \/ ~Wanted(c, m) /\ h' = h /\ wire' = wire
      /\ UNCHANGED <<register, unregister, clients, shards, wildcards, closed>>
      /\ BaseKept /\ failures' = failures
  BY DEF Stream, Receive, Moves, BaseKept, bufVars
<1>1. StreamTypeOK /\ Len(hist) \in Nat
  BY InvParts, FeatureType
<1>2. h[c] # NoHandler
  BY <1>0, <1>1, ConnType
<1>3. /\ h[c] \in Handler /\ h[c].last \in Nat /\ h[c].max \in Nat
      /\ wire[c] \in Seq(Message \cup {Reset}) /\ send[c] \in Seq(Message \cup {Ping})
      /\ OrderedAt(c, h[c], wire[c]) /\ ConnAt(h[c], wire[c], send[c])
      /\ Early(h[c]) => GapAt(c, h[c], wire[c], send[c])
  BY <1>2, OwnFacts
<1>4. Carries(send[c], Given) /\ Ascending(send[c])
  BY <1>3 DEF ConnAt
<1>5. /\ q \in Seq(Message \cup {Ping}) /\ m \in Message \cup {Ping} /\ Carries(q, Given) /\ Ascending(q)
      /\ IsEvent(m) => m.rev \in Given /\ m = Msg(m.rev)
  <2>1. q \in Seq(Message \cup {Ping}) /\ m \in Message \cup {Ping}
    BY <1>0, <1>3, SeqTail
  <2>2. Carries(q, Given) /\ (IsEvent(m) => m.rev \in Given /\ m = Msg(m.rev))
    BY <1>0, <1>3, <1>4, CarriesTail
  <2>3. Ascending(q)
    BY <1>0, <1>3, <1>4, AscTail
  <2> QED BY <2>1, <2>2, <2>3
<1>6. IsEvent(m) <=> m # Ping
  BY <1>5, EventMsg DEF IsEvent
<1>7. /\ RevsOf(send[c]) = IF IsEvent(m) THEN RevsOf(q) \cup {m.rev} ELSE RevsOf(q)
      /\ IsEvent(m) => \A r \in RevsOf(send[c]) : r = m.rev \/ m.rev < r
  BY <1>0, <1>3, <1>4, RevsTail, AscHead
<1>8. unregister' \in Seq(Conns) /\ Given \subseteq Ringed /\ (\A r \in Ringed : r \in Nat)
      /\ \A r \in Ringed, g \in Given : r <= g => r \in Given
  BY <1>0, <1>1, RingedFacts DEF StreamTypeOK
<1> HIDE DEF m, q
<1>9. ASSUME Early(h[c]), NEW r \in Given, Wants(c, h[c], r), r > h[c].max,
             c \in clients \/ \E y \in RevsOf(send[c]) : r <= y
      PROVE  r \in RevsOf(send[c])
  <2>1. GapAt(c, h[c], wire[c], send[c]) /\ Later(h[c], r)
    BY <1>0, <1>3, <1>9 DEF Later
  <2> QED BY <1>0, <1>9, <2>1 DEF GapAt
<1>10. Early(h[c]) => /\ c \in clients \cup closed
                      /\ \A r \in Ringed : Wants(c, h[c], r) /\ r <= h[c].max => r \in RevsOf(wire[c])
  BY <1>0, <1>3 DEF GapAt
<1>11. CASE Wanted(c, m)
  <2> DEFINE w == Append(wire[c], m)
  <2>1. m # Ping /\ m.scope \in Sub[c] /\ m.rev > h[c].max
    BY <1>11 DEF Wanted
  <2>2. m \in Message /\ IsEvent(m) /\ m.rev \in Given /\ m = Msg(m.rev) /\ m.rev \in Nat
    BY <1>5, <1>6, <2>1, EventMsg
  <2>3. m.rev \in Ringed /\ m.rev \in Revs /\ m.rev <= Len(hist)
    <3>1. m.rev \in Ringed /\ m.rev \in Revs
      BY <1>1, <1>8, <2>2, RingedFacts
    <3> QED BY <1>1, <3>1 DEF Revs
  <2>4. /\ w \in Seq(Message \cup {Reset}) /\ Len(w) = Len(wire[c]) + 1 /\ Len(wire[c]) \in Nat
        /\ w[Len(wire[c]) + 1] = m /\ \A j \in 1 .. Len(wire[c]) : w[j] = wire[c][j]
    BY <1>3, <2>2, SeqAppend
  <2>5. RevsOf(w) = RevsOf(wire[c]) \cup {m.rev}
    BY <1>3, <2>2, RevsAppend
  <2>h. h' = [h EXCEPT ![c] = x] /\ wire' = [wire EXCEPT ![c] = w]
    BY <1>0, <1>11
  <2>6. \A i \in 1 .. Len(wire[c]) : wire[c][i] # Reset => /\ wire[c][i].scope \in Sub[c] /\ wire[c][i].rev > h[c].last
                                                           /\ wire[c][i].rev <= h[c].max /\ wire[c][i].rev \in Nat
    <3>1. \A i \in 1 .. Len(wire[c]) : wire[c][i] # Reset => wire[c][i] \in Message
      BY <1>3
    <3> QED BY <1>3, <3>1, EventMsg DEF OrderedAt, ConnAt
  <2>7. Ascending(w)
    <3>1. \A i \in 1 .. Len(wire[c]) : IsEvent(wire[c][i]) => wire[c][i].rev < m.rev
      BY <1>3, <2>1, <2>2, <2>6 DEF IsEvent
    <3> QED BY <1>3, <2>2, <3>1, AscAppend DEF OrderedAt
  <2>8. Carries(w, Revs)
    <3>1. Carries(wire[c], Revs) /\ m \in Message \cup {Reset}
      BY <1>3, <2>2 DEF ConnAt
    <3> QED BY <1>3, <2>2, <2>3, <3>1, CarriesAppend
  <2>9. /\ x \in Handler /\ x.pc = "stream" /\ x.last = h[c].last /\ x.max = m.rev
        /\ x.reset = h[c].reset /\ x.early = h[c].early
    BY <1>0, <1>3, <2>2 DEF Handler
  <2> HIDE DEF w, x
  <2>10. h[c].last <= m.rev /\ m.rev > h[c].last
    BY <1>3, <2>1, <2>2 DEF ConnAt
  <2>11. ASSUME NEW i \in DOMAIN w, w[i] # Reset
         PROVE  w[i].scope \in Sub[c] /\ w[i].rev > h[c].last /\ w[i].rev <= m.rev
    <3>1. CASE i = Len(wire[c]) + 1
      BY <2>1, <2>2, <2>4, <2>10, <3>1
    <3>2. CASE i # Len(wire[c]) + 1
      <4>1. i \in 1 .. Len(wire[c]) /\ w[i] = wire[c][i]
        BY <2>4, <3>2
      <4> QED BY <1>3, <2>1, <2>2, <2>6, <2>11, <4>1
    <3> QED BY <3>1, <3>2
  <2>12. OrderedAt(c, x, w)
    BY <2>7, <2>9, <2>11 DEF OrderedAt
  <2>13. ConnAt(x, w, q)
    BY <1>5, <2>3, <2>8, <2>9, <2>10, <2>11 DEF ConnAt
  <2>14. ASSUME Early(x) PROVE GapAt(c, x, w, q)
    <3>1. Early(h[c]) /\ \A r : Wants(c, x, r) <=> Wants(c, h[c], r)
      BY <1>0, <2>9, <2>14 DEF Early, Wants
    <3>2. ASSUME NEW r \in Ringed, Wants(c, h[c], r), r <= m.rev PROVE r \in RevsOf(w)
      <4>1. CASE r <= h[c].max
        BY <1>10, <2>5, <3>1, <3>2, <4>1
      <4>2. CASE r > h[c].max
        <5>1. r \in Given /\ r \in Nat /\ m.rev \in RevsOf(send[c])
          BY <1>7, <1>8, <2>2, <3>2
        <5>2. r \in RevsOf(send[c])
          BY <1>9, <3>1, <3>2, <4>2, <5>1
        <5>3. r = m.rev
          BY <1>7, <2>2, <3>2, <5>1, <5>2
        <5> QED BY <2>5, <5>3
      <4>3. r \in Nat
        BY <1>8
      <4> QED BY <1>3, <4>1, <4>2, <4>3
    <3>3. ASSUME NEW r \in Given, Wants(c, h[c], r), r > m.rev,
                 c \in clients \/ \E y \in RevsOf(q) : r <= y
          PROVE  r \in RevsOf(q)
      <4>1. r \in Nat /\ r > h[c].max /\ r # m.rev
        BY <1>3, <1>8, <2>1, <2>2, <3>3
      <4>2. c \in clients \/ \E y \in RevsOf(send[c]) : r <= y
        BY <1>7, <2>2, <3>3
      <4>3. r \in RevsOf(send[c])
        BY <1>9, <3>1, <3>3, <4>1, <4>2
      <4> QED BY <1>7, <2>2, <4>1, <4>3
    <3>4. \A r : Later(x, r)
      BY <2>9 DEF Later
    <3> QED BY <1>10, <2>9, <3>1, <3>2, <3>3, <3>4 DEF GapAt
  <2> QED BY <1>0, <1>2, <1>3, <1>5, <1>8, <2>4, <2>9, <2>12, <2>13, <2>14, <2>h, GoesOn
<1>12. CASE ~Wanted(c, m)
  <2>h. h' = [h EXCEPT ![c] = h[c]] /\ wire' = [wire EXCEPT ![c] = wire[c]]
    BY <1>0, <1>1, <1>12 DEF StreamTypeOK
  <2>1. ConnAt(h[c], wire[c], q)
    BY <1>3, <1>5 DEF ConnAt
  <2>2. ASSUME Early(h[c]) PROVE GapAt(c, h[c], wire[c], q)
    <3>1. ASSUME NEW r \in Given, Wants(c, h[c], r), r > h[c].max,
                 c \in clients \/ \E y \in RevsOf(q) : r <= y
          PROVE  r \in RevsOf(q)
      <4>1. c \in clients \/ \E y \in RevsOf(send[c]) : r <= y
        BY <1>7, <3>1
      <4>2. r \in RevsOf(send[c])
        BY <1>9, <2>2, <3>1, <4>1
      <4>3. IsEvent(m) => r # m.rev
        <5> SUFFICES ASSUME IsEvent(m), r = m.rev PROVE FALSE
          OBVIOUS
        <5>1. hist[r].scope = m.scope
          BY <1>5 DEF Msg
        <5> QED BY <1>6, <1>12, <3>1, <5>1 DEF Wanted, Wants
      <4> QED BY <1>7, <4>2, <4>3
    <3>2. \A r : Later(h[c], r)
      BY <1>0 DEF Later
    <3> QED BY <1>10, <2>2, <3>1, <3>2 DEF GapAt
  <2> QED BY <1>0, <1>2, <1>3, <1>5, <1>8, <2>1, <2>2, <2>h, GoesOn
<1> QED BY <1>11, <1>12
-----------------------------------------------------------------------------
(* The theorems.                                                           *)

LEMMA NextInv == StreamInv /\ [StreamNext]_streamVars => StreamInv'
<1> SUFFICES ASSUME StreamInv, [StreamNext]_streamVars PROVE StreamInv'
  OBVIOUS
<1>1. ASSUME NEW e \in Events, EtcdEvent(e) PROVE StreamInv'
  BY <1>1, EtcdStep
<1>2. CASE RunStep
  BY <1>2, SnapshotStep, RunLoadStep, RunWatchStep, EventStep, BufferStep, BroadcastStep
  DEF RunStep
<1>3. CASE HubStep
  BY <1>3, RegisterStep, UnregisterStep, HeartbeatStep DEF HubStep
<1>4. ASSUME NEW c \in Conns, NEW last \in 0 .. Len(hist), Connect(c, last) PROVE StreamInv'
  BY <1>4, ConnectStep
<1>5. ASSUME NEW c \in Conns, HandlerStep(c) PROVE StreamInv'
  BY <1>5, CompensateStep, HistoryStep, StreamStep, DoneStep, LeaveStep DEF HandlerStep
<1>6. ASSUME NEW c \in Conns, StreamDone(c) PROVE StreamInv'
  BY <1>6, DoneStep
<1>7. ASSUME NEW c \in Conns, Collect(c) PROVE StreamInv'
  BY <1>7, CollectStep
<1>8. CASE RunStops
  BY <1>8, StopsStep
<1>9. CASE Restart
  BY <1>9, RestartStep
<1>10. CASE UNCHANGED streamVars
  <2>1. /\ BaseKept /\ UNCHANGED hubVars /\ h' = h /\ wire' = wire /\ failures' = failures
        /\ UNCHANGED <<register, unregister, clients, shards, wildcards, send, closed>>
    BY <1>10 DEF streamVars, bufVars, hubVars, flagVars, BaseKept
  <2>2. StreamTypeOK /\ HubOK
    BY InvParts
  <2>3. RunOK' /\ RingOK' /\ CacheOK'
    BY <2>1, BaseSteps
  <2>4. StreamTypeOK'
    BY <2>1, <2>2 DEF StreamTypeOK, BaseKept
  <2>5. HubOK'
    BY <2>1, <2>2, HubSame
  <2>6. \A d \in Conns : PerConn(d)'
    BY <2>1, OtherConn
  <2> QED BY <2>3, <2>4, <2>5, <2>6, InvParts2
<1> QED BY <1>1, <1>2, <1>3, <1>4, <1>5, <1>6, <1>7, <1>8, <1>9, <1>10 DEF StreamNext

(* The inductive invariant holds whatever the order in which etcd, Run,    *)
(* the hub, the handlers and a restart take their steps.                   *)
THEOREM StreamInvariant == StreamSpec => []StreamInv
BY InitInv, NextInv, PTL DEF StreamSpec

(* removeClients and addToShards keep the hub's maps and its closed        *)
(* channels apart, so sendMessage never sends on a closed channel.         *)
THEOREM SendsAreOpenAlways == StreamSpec => []SendsAreOpen
<1>1. StreamInv => SendsAreOpen
  BY DEF StreamInv, HubOK
<1> QED BY <1>1, StreamInvariant, PTL

(* GetSince answers exactly, for a ring of every size, wrapped or not.     *)
THEOREM BufferExactAlways == StreamSpec => []BufferExact
<1>1. StreamInv => BufferExact
  BY BufferFromInv DEF StreamInv
<1> QED BY <1>1, StreamInvariant, PTL

(* WatchFeature writes what its client asked for, once and in order.       *)
THEOREM StreamOrderedAlways == StreamSpec => []StreamOrdered
<1>1. StreamInv => StreamOrdered
  BY DEF StreamInv
<1> QED BY <1>1, StreamInvariant, PTL

LEMMA GapFromInv == StreamInv => NoGap
<1> SUFFICES ASSUME StreamInv, NEW c \in Conns,
                    h[c].pc = "stream", h[c].early, ~h[c].reset, c \in clients, NEW r \in Due(c)
             PROVE  r \in RevsOf(wire[c]) \/ r \in RevsOf(send[c])
  BY DEF NoGap, Missing
<1>1. StreamTypeOK
  BY InvParts
<1>2. h[c] # NoHandler
  BY <1>1, ConnType
<1>3. h[c].max \in Nat /\ Early(h[c]) /\ GapAt(c, h[c], wire[c], send[c])
  BY <1>2, OwnFacts DEF Early
<1>4. r \in Given /\ Wants(c, h[c], r)
  BY DEF Due, Wants
<1>5. r \in Ringed /\ r \in Nat /\ Later(h[c], r)
  BY <1>1, <1>4, RingedFacts DEF Later
<1>6. CASE r <= h[c].max
  BY <1>3, <1>4, <1>5, <1>6 DEF GapAt
<1>7. CASE r > h[c].max
  BY <1>3, <1>4, <1>5, <1>7 DEF GapAt
<1> QED BY <1>3, <1>5, <1>6, <1>7

(* Between the history that WatchFeature reads from the ring and the       *)
(* messages the hub sends nothing is lost.                                 *)
THEOREM NoGapAlways == StreamSpec => []NoGap
BY GapFromInv, StreamInvariant, PTL

(* Run updates the cache before it fills the ring and calls the hub, so    *)
(* FetchAll never serves less than a client can have read.                 *)
THEOREM SnapshotNotBehindAlways == StreamSpec => []SnapshotNotBehind
<1>1. StreamInv => SnapshotNotBehind
  <2> SUFFICES ASSUME StreamInv, NEW m \in (UNION {Range(send[c]) : c \in Conns}) \cup Range(messages),
                      m \notin {Ping, NoMsg}, m.act = "put"
               PROVE  cache[m.name].rev >= m.rev
    BY DEF SnapshotNotBehind
  <2>1. StreamTypeOK /\ RingOK /\ CacheOK
    BY InvParts
  <2>2. m.rev \in Ringed /\ m = Msg(m.rev)
    <3>1. ASSUME NEW c \in Conns, m \in Range(send[c]) PROVE m.rev \in Ringed /\ m = Msg(m.rev)
      <4>1. Carries(send[c], Given) /\ send[c] \in Seq(Message \cup {Ping}) /\ Given \subseteq Ringed
        BY <2>1, InvParts, ConnType, RingedFacts DEF PerConn, ConnOK
      <4>2. PICK i \in DOMAIN send[c] : m = send[c][i]
        BY <3>1 DEF Range
      <4>3. IsEvent(send[c][i])
        BY <4>1, <4>2, EventMsg
      <4> QED BY <4>1, <4>2, <4>3 DEF Carries
    <3>2. CASE m \in Range(messages)
      <4>1. PICK i \in Slots : m = messages[i]
        BY <2>1, <3>2 DEF Range, StreamTypeOK
      <4>2. messages[i].rev \in Ringed /\ messages[i] = Msg(messages[i].rev)
        BY <2>1, <4>1 DEF RingOK, SlotsOK
      <4> QED BY <4>1, <4>2
    <3>3. CASE m \in UNION {Range(send[c]) : c \in Conns}
      <4>1. PICK S \in {Range(send[c]) : c \in Conns} : m \in S
        BY <3>3
      <4>2. PICK c \in Conns : S = Range(send[c])
        OBVIOUS
      <4> QED BY <3>1, <4>1, <4>2
    <3>4. m \in Range(messages) \/ m \in UNION {Range(send[c]) : c \in Conns}
      OBVIOUS
    <3> QED BY <3>2, <3>3, <3>4
  <2>3. /\ m.rev \in Revs /\ IsFeature(m.rev) /\ m.rev > run.base /\ m.rev <= run.pos
        /\ m.act = hist[m.rev].act /\ m.name = hist[m.rev].name
    <3>1. m.rev \in Revs /\ IsFeature(m.rev) /\ m.rev > run.base /\ m.rev <= run.pos
      BY <2>1, <2>2, RingedFacts
    <3>2. m.act = hist[m.rev].act /\ m.name = hist[m.rev].name
      BY <2>2 DEF Msg
    <3> QED BY <3>1, <3>2
  <2>4. cache[hist[m.rev].name].rev >= m.rev
    BY <2>1, <2>3 DEF CacheOK
  <2> QED BY <2>3, <2>4
<1> QED BY <1>1, StreamInvariant, PTL

(* The snapshot and the watch together leave the last put of every flag in *)
(* the cache.                                                              *)
THEOREM SnapshotCompleteAlways == StreamSpec => []SnapshotComplete
<1>1. StreamInv => SnapshotComplete
  BY DEF StreamInv, CacheOK, SnapshotComplete
<1> QED BY <1>1, StreamInvariant, PTL
=============================================================================
