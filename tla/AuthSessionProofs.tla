-------------------------- MODULE AuthSessionProofs --------------------------
(***************************************************************************)
(* Proofs about AuthSession, for any number of pages, requests, tokens and *)
(* failures.  Most steps leave Redis alone: QuietStep covers them.  For    *)
(* SessionIsHeld, HeldStep covers the steps of a request.                  *)
(***************************************************************************)
EXTENDS AuthSession, TLAPS

LEMMA InitInv == AuthInit => TokensInv
<1> SUFFICES ASSUME AuthInit PROVE TokensInv
  OBVIOUS
<1> USE AuthConstants DEF AuthInit
<1>1. AuthTypeOK
  <2>1. Idle \in Request
    BY DEF Request
  <2>2. req \in [Requests -> Request]
    BY <2>1
  <2>3. /\ issued \in 0..MaxTokens /\ oldAccess \in 0..issued /\ oldRefresh \in 0..oldAccess
    OBVIOUS
  <2>4. /\ store \in [Pages -> {0} \cup Token] /\ header \in [Pages -> {0} \cup Token]
        /\ leaving \in [Pages -> BOOLEAN]
    OBVIOUS
  <2> QED BY <2>2, <2>3, <2>4 DEF AuthTypeOK
<1>2. TokensSettled
  BY DEF TokensSettled, Settled, Carriers, Idle
<1>3. RedeemedIsDead /\ AfterLogout
  BY DEF RedeemedIsDead, AfterLogout
<1> QED BY <1>1, <1>2, <1>3 DEF TokensInv

CarrierPc == {"refresh", "rotate", "renewed", "loggedin"}

\* A step that leaves Redis alone: request r becomes x, tokens go from a page
\* to a request or back, and only a page whose session lives gets past the
\* comparison of Refresh.
LEMMA QuietStep ==
  ASSUME TokensInv, UNCHANGED serverVars,
         NEW r \in Requests, NEW x \in Request, Step(r, x),
         x.pc \in CarrierPc => Settled(x.token),
         x.pc = "rotate" => session # 0,
         store' \in [Pages -> {0} \cup Token],
         \A p \in Pages : Settled(store'[p]),
         header' \in [Pages -> {0} \cup Token],
         leaving' \in [Pages -> BOOLEAN],
         UNCHANGED expiryVars, faults' \in Nat, raced' \in BOOLEAN, dropped' \in BOOLEAN
  PROVE  TokensInv'
<1> USE DEF TokensInv, serverVars, expiryVars
<1>1. req \in [Requests -> Request]
  BY DEF AuthTypeOK
<1>2. \A q \in Requests : req'[q] = IF q = r THEN x ELSE req[q]
  BY <1>1 DEF Step
<1>3. req' \in [Requests -> Request] /\ orphans' \subseteq Requests
  BY <1>1 DEF Step, AuthTypeOK
<1>4. AuthTypeOK'
  BY <1>3 DEF AuthTypeOK
<1>5. TokensSettled'
  <2>1. ASSUME NEW q \in Carriers'
        PROVE  Settled(req'[q].token)
    <3>1. q \in Requests /\ req'[q].pc \in CarrierPc
      BY DEF Carriers, CarrierPc
    <3>2. CASE q = r
      BY <3>1, <3>2, <1>2
    <3>3. CASE q # r
      <4>1. q \in Carriers /\ req'[q] = req[q]
        BY <3>1, <3>3, <1>2 DEF Carriers, CarrierPc
      <4> QED BY <4>1 DEF TokensSettled
    <3> QED BY <3>2, <3>3
  <2> QED BY <2>1 DEF TokensSettled, Settled
<1>6. RedeemedIsDead'
  BY DEF RedeemedIsDead
<1>7. AfterLogout'
  <2> SUFFICES ASSUME loggedOut, ~resumed
               PROVE  Rotating' = {}
    BY DEF AfterLogout
  <2>1. session = 0 /\ Rotating = {}
    BY DEF AfterLogout
  <2>2. x.pc # "rotate"
    BY <2>1
  <2> QED BY <2>1, <2>2, <1>2 DEF Rotating
<1> QED BY <1>4, <1>5, <1>6, <1>7

\* What a request carries, by its place in the code.
LEMMA RequestTypes ==
  ASSUME AuthTypeOK, NEW r \in Requests
  PROVE  /\ req[r] \in Request
         /\ req[r].pc \in CarrierPc => req[r].token \in Token
         /\ req[r].pc \in {"sent", "unauthorized", "refresh", "rotate", "renewed", "refused"}
              => req[r].kind \in Kind
         /\ req[r].pc \in {"sent", "unauthorized"} => req[r].retry \in BOOLEAN
<1>1. req[r] \in Request
  BY DEF AuthTypeOK
<1> QED BY <1>1 DEF Request, Idle, CarrierPc

\* The forms a request takes.
LEMMA RequestForms ==
  /\ Idle \in Request
  /\ [pc |-> "loggedout"] \in Request
  /\ \A k \in Kind, b \in BOOLEAN : [pc |-> "unauthorized", kind |-> k, retry |-> b] \in Request
  /\ \A k \in Kind, b \in BOOLEAN, a \in {0} \cup Token :
       [pc |-> "sent", kind |-> k, retry |-> b, access |-> a] \in Request
  /\ \A k \in Kind : [pc |-> "refused", kind |-> k] \in Request
  /\ \A k \in Kind, n \in Token : /\ [pc |-> "refresh", kind |-> k, token |-> n] \in Request
                                  /\ [pc |-> "rotate", kind |-> k, token |-> n] \in Request
                                  /\ [pc |-> "renewed", kind |-> k, token |-> n] \in Request
  /\ \A n \in Token : [pc |-> "loggedin", token |-> n] \in Request
BY DEF Request

LEMMA PageTypes ==
  ASSUME AuthTypeOK
  PROVE  /\ store \in [Pages -> {0} \cup Token] /\ header \in [Pages -> {0} \cup Token]
         /\ leaving \in [Pages -> BOOLEAN] /\ faults \in Nat
         /\ raced \in BOOLEAN /\ dropped \in BOOLEAN
         /\ \A r \in Requests : Page[r] \in Pages
BY AuthConstants DEF AuthTypeOK

-----------------------------------------------------------------------------
(* The steps that leave Redis alone.                                       *)

LEMMA SendStep ==
  ASSUME TokensInv, NEW r \in Requests, NEW k \in Kind, Send(r, k)
  PROVE  TokensInv'
<1> USE PageTypes, RequestForms DEF TokensInv, Send, pageVars
<1> DEFINE x == [pc |-> "sent", kind |-> k, retry |-> FALSE, access |-> Access(Page[r])]
<1>1. x \in Request
  BY DEF Access
<1>2. x.pc \notin CarrierPc /\ Step(r, x)
  BY DEF CarrierPc
<1>3. \A p \in Pages : Settled(store'[p])
  BY DEF TokensSettled
<1>4. raced' \in BOOLEAN
  BY DEF Writes
<1> HIDE DEF x
<1>5. x.pc # "rotate"
  BY <1>2 DEF CarrierPc
<1> QED BY <1>1, <1>2, <1>3, <1>4, <1>5, QuietStep

\* The server's answers: no token is handed out.
LEMMA AnswerStep ==
  ASSUME TokensInv, NEW r \in Requests,
         \/ ServeApi(r) \/ Deny(r) \/ LogoutError(r) \/ RefreshRefused(r) \/ RefreshError(r)
         \/ Reject(r) \/ Drop(r)
  PROVE  TokensInv'
<1> USE PageTypes, RequestForms, RequestTypes DEF TokensInv, pageVars
<1>1. \A p \in Pages : Settled(store'[p])
  BY DEF TokensSettled, ServeApi, Deny, LogoutError, RefreshRefused, RefreshError, Reject, Drop
<1>2. UNCHANGED <<serverVars, store, header, leaving, expiryVars, raced>>
  BY DEF ServeApi, Deny, LogoutError, RefreshRefused, RefreshError, Reject, Drop
<1>5. dropped' = dropped \/ dropped' = TRUE
  BY DEF ServeApi, Deny, LogoutError, RefreshRefused, RefreshError, Reject, Drop
<1>6. faults' = faults \/ faults' = faults + 1
  BY DEF ServeApi, Deny, LogoutError, RefreshRefused, RefreshError, Reject, Drop, Fault
<1>7. faults' \in Nat
  BY <1>6
<1>8. dropped' \in BOOLEAN /\ raced' \in BOOLEAN
  BY <1>2, <1>5
<1>3. PICK x \in Request : Step(r, x) /\ x.pc \notin CarrierPc
  <2>1. CASE ServeApi(r) \/ Reject(r) \/ Drop(r)
    BY <2>1 DEF ServeApi, Reject, Drop, Idle, CarrierPc
  <2>2. CASE Deny(r)
    BY <2>2 DEF Deny, CarrierPc
  <2>3. CASE LogoutError(r)
    BY <2>3 DEF LogoutError, CarrierPc
  <2>4. CASE RefreshRefused(r) \/ RefreshError(r)
    BY <2>4 DEF RefreshRefused, RefreshError, CarrierPc
  <2> QED BY <2>1, <2>2, <2>3, <2>4
<1>4. x.pc # "rotate"
  BY <1>3 DEF CarrierPc
<1> QED BY <1>1, <1>2, <1>3, <1>4, <1>7, <1>8, QuietStep

LEMMA RefreshStep ==
  ASSUME TokensInv, NEW r \in Requests, Refresh(r)
  PROVE  TokensInv'
<1> USE PageTypes, RequestForms, RequestTypes DEF TokensInv, Refresh, Answered, pageVars
<1> DEFINE n == store[Page[r]]
           x == [pc |-> "refresh", kind |-> req[r].kind, token |-> n]
<1>1. n \in Token /\ Settled(n)
  BY DEF TokensSettled
<1>2. x \in Request /\ Step(r, x) /\ x.token = n /\ x.pc # "rotate"
  BY <1>1
<1>3. \A p \in Pages : Settled(store'[p])
  BY DEF TokensSettled
<1>4. raced' \in BOOLEAN
  BY DEF Writes
<1> HIDE DEF x, n
<1> QED BY <1>1, <1>2, <1>3, <1>4, QuietStep

LEMMA CheckStep ==
  ASSUME TokensInv, NEW r \in Requests, RefreshCheck(r)
  PROVE  TokensInv'
<1> USE PageTypes, RequestForms, RequestTypes DEF TokensInv, RefreshCheck, pageVars
<1> DEFINE x == [req[r] EXCEPT !.pc = "rotate"]
<1>1. req[r] \in Request /\ req[r].pc = "refresh"
  OBVIOUS
<1>2. x = [pc |-> "rotate", kind |-> req[r].kind, token |-> req[r].token]
  BY <1>1 DEF Request, Idle
<1>3. req[r].token \in Token /\ req[r].kind \in Kind /\ Settled(req[r].token)
  BY <1>1 DEF CarrierPc, TokensSettled, Carriers
<1>7. [pc |-> "rotate", kind |-> req[r].kind, token |-> req[r].token] \in Request
  BY <1>3, RequestForms
<1>4. x \in Request /\ x.token = req[r].token
  BY <1>2, <1>7
<1>5. Step(r, x) /\ session # 0
  BY <1>3 DEF Token
<1>6. \A p \in Pages : Settled(store'[p])
  BY DEF TokensSettled
<1> HIDE DEF x
<1> QED BY <1>3, <1>4, <1>5, <1>6, QuietStep

\* The page takes tokens or gives them up.
LEMMA PageStep ==
  ASSUME TokensInv, NEW r \in Requests, Eject(r) \/ Renewed(r) \/ LoggedIn(r) \/ LoggedOut(r)
  PROVE  TokensInv'
<1> USE PageTypes, RequestForms, RequestTypes DEF TokensInv
<1>0. Settled(0)
  BY AuthConstants DEF Settled, AuthTypeOK, Token
<1>1. CASE Eject(r) \/ LoggedOut(r)
  <2>1. store' = [store EXCEPT ![Page[r]] = 0] /\ Step(r, Idle) /\ UNCHANGED <<header, raced, faults>>
        /\ UNCHANGED <<serverVars, expiryVars, dropped>>
    BY <1>1 DEF Eject, LoggedOut
  <2>2. leaving' \in [Pages -> BOOLEAN]
    BY <1>1 DEF Eject, LoggedOut
  <2>3. \A p \in Pages : Settled(store'[p])
    BY <2>1, <1>0 DEF TokensSettled
  <2>4. Idle.pc \notin CarrierPc /\ Idle.pc # "rotate"
    BY DEF Idle, CarrierPc
  <2>5. store' \in [Pages -> {0} \cup Token]
    BY <2>1
  <2> QED BY <2>1, <2>2, <2>3, <2>4, <2>5, QuietStep
<1>2. CASE Renewed(r) \/ LoggedIn(r)
  <2> DEFINE n == req[r].token
  <2>1. n \in Token /\ Settled(n) /\ store' = [store EXCEPT ![Page[r]] = n]
    BY <1>2 DEF Renewed, LoggedIn, Answered, CarrierPc, Carriers, TokensSettled
  <2>2. header' \in [Pages -> {0} \cup Token] /\ UNCHANGED <<leaving, faults, raced, dropped>>
        /\ UNCHANGED <<serverVars, expiryVars>>
    BY <1>2, <2>1 DEF Renewed, LoggedIn
  <2>3. PICK x \in Request : Step(r, x) /\ x.pc \notin CarrierPc
    <3>1. CASE Renewed(r)
      <4>1. req[r].kind \in Kind
        BY <3>1 DEF Renewed, Answered
      <4> DEFINE y == [pc |-> "sent", kind |-> req[r].kind, retry |-> TRUE, access |-> n]
      <4>2. Step(r, y)
        BY <3>1 DEF Renewed
      <4>3. y.pc \notin CarrierPc
        BY DEF CarrierPc
      <4>4. y \in Request
        <5> HIDE DEF n
        <5> QED BY <4>1, <2>1, RequestForms
      <4> HIDE DEF y
      <4> QED BY <4>2, <4>3, <4>4
    <3>2. CASE LoggedIn(r)
      BY <3>2 DEF LoggedIn, Idle, CarrierPc
    <3> QED BY <1>2, <3>1, <3>2
  <2>4. x.pc # "rotate"
    BY <2>3 DEF CarrierPc
  <2> HIDE DEF n
  <2>5. \A p \in Pages : Settled(store'[p])
    BY <2>1 DEF TokensSettled
  <2>6. store' \in [Pages -> {0} \cup Token]
    BY <2>1
  <2> QED BY <2>2, <2>3, <2>4, <2>5, <2>6, QuietStep
<1> QED BY <1>1, <1>2

-----------------------------------------------------------------------------
(* The steps of Redis.  A new token is above every one there is.           *)

\* What generateTokens does to Redis, whether its SET succeeds or fails: n is
\* the new token.
Makes(n) ==
  /\ n = issued + 1
  /\ n \in Token
  /\ issued' = n
  /\ \/ session' = n /\ late' = late
     \/ session' = session /\ late' \subseteq late \cup {n}

LEMMA NewToken ==
  ASSUME TokensInv, SetSession \/ SetFails
  PROVE  Makes(issued + 1)
<1>1. issued + 1 \in Token
  BY AuthConstants DEF SetSession, SetFails, TokensInv, AuthTypeOK, Token
<1> QED BY <1>1 DEF Makes, SetSession, SetFails

\* No settled token is the new one, and all stay settled.
LEMMA StaySettled ==
  ASSUME TokensInv, NEW n, Makes(n), NEW m \in Nat, Settled(m)
  PROVE  m # n /\ m <= issued' /\ m \notin late'
<1>1. issued \in Nat
  BY AuthConstants DEF TokensInv, AuthTypeOK
<1>2. m # n /\ m <= issued'
  BY <1>1 DEF Makes, Settled
<1> QED BY <1>2 DEF Makes, Settled

\* Where the new token is Redis's, it is settled.
LEMMA NewSettled ==
  ASSUME TokensInv, NEW n, Makes(n), session' = n
  PROVE  n <= issued' /\ n \notin late'
<1>1. issued \in Nat /\ \A m \in late : m <= issued
  BY AuthConstants DEF TokensInv, AuthTypeOK, TokensSettled
<1>2. session <= issued /\ n = issued + 1 /\ session \in Nat
  BY AuthConstants DEF TokensInv, AuthTypeOK, TokensSettled, Settled, Makes, Token
<1>3. session' # session
  BY <1>1, <1>2
<1>4. late' = late /\ issued' = n
  BY <1>3 DEF Makes
<1> QED BY <1>1, <1>2, <1>4

\* generateTokens keeps the tokens apart: request r becomes x, and the token
\* that was exchanged for the new one, if any, is a settled one.
LEMMA Generate ==
  ASSUME TokensInv, NEW n, Makes(n), NEW r \in Requests, NEW x \in Request, Step(r, x),
         x.pc \in CarrierPc => x.token = n /\ session' = n,
         \A m \in redeemed' : m \in Token /\ Settled(m),
         redeemed' = redeemed \/ session' = n,
         UNCHANGED <<pageVars, expiryVars>>,
         faults' \in Nat, raced' \in BOOLEAN, dropped' \in BOOLEAN,
         loggedOut' \in BOOLEAN, resumed' \in BOOLEAN
  PROVE  AuthTypeOK' /\ TokensSettled' /\ RedeemedIsDead'
<1>1. AuthTypeOK /\ TokensSettled /\ RedeemedIsDead
  BY DEF TokensInv
<1>2. issued \in Nat /\ Token \subseteq Nat /\ 0 \in Nat
  BY <1>1, AuthConstants DEF AuthTypeOK, Token
<1>3. session' \in {0} \cup Token /\ late' \subseteq Token
  BY <1>1 DEF Makes, AuthTypeOK
<1>4. \A m \in Nat : Settled(m) => m # n /\ Settled(m)'
  BY StaySettled DEF Settled
<1>5. req \in [Requests -> Request]
  BY <1>1 DEF AuthTypeOK
<1>6. \A q \in Requests : req'[q] = IF q = r THEN x ELSE req[q]
  BY <1>5 DEF Step
<1>7. req' \in [Requests -> Request] /\ orphans' \subseteq Requests
  BY <1>1, <1>5 DEF Step, AuthTypeOK
<1>8. AuthTypeOK'
  <2>1. issued' \in 0..MaxTokens /\ oldAccess' \in 0..issued' /\ oldRefresh' \in 0..oldAccess'
    BY <1>1, AuthConstants DEF AuthTypeOK, expiryVars, Token, Makes
  <2>2. redeemed' \subseteq Token
    OBVIOUS
  <2>3. UNCHANGED <<store, header, leaving>>
    BY DEF pageVars
  <2> QED BY <1>1, <1>3, <1>7, <2>1, <2>2, <2>3 DEF AuthTypeOK
<1>9. TokensSettled'
  <2>1. Settled(session)'
    <3>1. CASE session' = n
      BY <3>1, NewSettled DEF Settled
    <3>2. CASE session' # n
      <4>1. session' = session /\ session \in Nat /\ Settled(session)
        BY <3>2, <1>1, <1>2 DEF Makes, AuthTypeOK, TokensSettled
      <4>2. session <= issued' /\ session \notin late'
        BY <4>1, StaySettled
      <4> QED BY <4>1, <4>2 DEF Settled
    <3> QED BY <3>1, <3>2
  <2>2. \A m \in late' : m <= issued'
    <3>1. \A m \in late : m \in Nat /\ m <= issued
      BY <1>1, <1>2 DEF TokensSettled, AuthTypeOK
    <3>2. late' \subseteq late \cup {n} /\ n = issued + 1 /\ issued' = n
      BY DEF Makes
    <3> QED BY <1>2, <3>1, <3>2
  <2>3. \A m \in redeemed' : Settled(m)'
    BY <1>4, <1>2
  <2>4. \A p \in Pages : Settled(store[p])'
    <3>1. \A p \in Pages : store[p] \in Nat /\ Settled(store[p]) /\ store' = store
      BY <1>1, <1>2 DEF TokensSettled, AuthTypeOK, pageVars
    <3>2. \A p \in Pages : store[p] <= issued' /\ store[p] \notin late'
      BY <3>1, StaySettled
    <3> QED BY <3>1, <3>2 DEF Settled
  <2>5. ASSUME NEW q \in Carriers'
        PROVE  Settled(req[q].token)'
    <3>1. q \in Requests /\ req'[q].pc \in CarrierPc
      BY DEF Carriers, CarrierPc
    <3>2. CASE q = r
      <4>1. req'[q].token = n /\ session' = n
        BY <3>1, <3>2, <1>6
      <4>2. n <= issued' /\ n \notin late'
        BY <4>1, NewSettled
      <4> QED BY <4>1, <4>2 DEF Settled
    <3>3. CASE q # r
      <4>1. q \in Carriers /\ req'[q] = req[q] /\ req[q].token \in Token
        BY <3>1, <3>3, <1>1, <1>6, RequestTypes DEF Carriers, CarrierPc
      <4>2. req[q].token <= issued' /\ req[q].token \notin late'
        BY <4>1, <1>1, <1>2, StaySettled DEF TokensSettled
      <4> QED BY <4>1, <4>2 DEF Settled
    <3> QED BY <3>2, <3>3
  <2> QED BY <2>1, <2>2, <2>3, <2>4, <2>5 DEF TokensSettled
<1>10. RedeemedIsDead'
  <2>1. CASE session' = n
    BY <2>1, <1>2, <1>4 DEF RedeemedIsDead
  <2>2. CASE session' # n
    BY <2>2, <1>1 DEF RedeemedIsDead, Makes
  <2> QED BY <2>1, <2>2
<1> QED BY <1>8, <1>9, <1>10

LEMMA LoginStep ==
  ASSUME TokensInv, NEW r \in Requests, Login(r) \/ LoginError(r)
  PROVE  TokensInv'
<1>1. AuthTypeOK /\ TokensSettled
  BY DEF TokensInv
<1>2. PICK n : n = issued + 1
  OBVIOUS
<1>3. Makes(n)
  BY <1>2, NewToken DEF Login, LoginError
<1>4. PICK x \in Request : Step(r, x) /\ (x.pc \in CarrierPc => x.token = n /\ session' = n)
  <2>1. CASE Login(r)
    <3> DEFINE y == [pc |-> "loggedin", token |-> n]
    <3>1. Step(r, y) /\ session' = n
      BY <2>1, <1>2 DEF Login, SetSession
    <3>2. y \in Request /\ y.token = n
      BY <1>3, RequestForms DEF Makes
    <3> HIDE DEF y
    <3> QED BY <3>1, <3>2
  <2>2. CASE LoginError(r)
    BY <2>2, RequestForms DEF LoginError, Idle, CarrierPc
  <2> QED BY <2>1, <2>2
<1>5. redeemed' = redeemed /\ \A m \in redeemed : m \in Token /\ Settled(m)
  BY <1>1 DEF Login, LoginError, TokensSettled, AuthTypeOK
<1>6. UNCHANGED <<pageVars, expiryVars, resumed, raced, dropped>> /\ loggedOut' = FALSE
  BY DEF Login, LoginError
<1>7. faults' \in Nat
  BY <1>1 DEF Login, LoginError, SetFails, Fault, AuthTypeOK
<1>8. raced' \in BOOLEAN /\ dropped' \in BOOLEAN /\ resumed' \in BOOLEAN /\ loggedOut' \in BOOLEAN
  BY <1>1, <1>6 DEF AuthTypeOK
<1>9. AuthTypeOK' /\ TokensSettled' /\ RedeemedIsDead'
  BY <1>3, <1>4, <1>5, <1>6, <1>7, <1>8, Generate
<1>10. AfterLogout'
  BY <1>6 DEF AfterLogout
<1> QED BY <1>9, <1>10 DEF TokensInv

\* A refresh past its comparison: it is the one a logout would have met.
LEMMA StoreStep ==
  ASSUME TokensInv, NEW r \in Requests, RefreshStore(r) \/ RefreshStoreError(r)
  PROVE  TokensInv'
<1>1. AuthTypeOK /\ TokensSettled /\ AfterLogout
  BY DEF TokensInv
<1>2. PICK n : n = issued + 1
  OBVIOUS
<1>3. Makes(n)
  BY <1>2, NewToken DEF RefreshStore, RefreshStoreError
<1>4. req[r].pc = "rotate" /\ req[r].kind \in Kind /\ req[r].token \in Token
  BY <1>1, RequestTypes DEF RefreshStore, RefreshStoreError, CarrierPc
<1>5. PICK x \in Request : Step(r, x) /\ (x.pc \in CarrierPc => x.token = n /\ session' = n)
  <2>1. CASE RefreshStore(r)
    <3> DEFINE y == [pc |-> "renewed", kind |-> req[r].kind, token |-> n]
    <3>1. Step(r, y) /\ session' = n
      BY <2>1, <1>2 DEF RefreshStore, SetSession
    <3>2. y \in Request
      BY <1>3, <1>4, RequestForms DEF Makes
    <3>3. y.token = n
      OBVIOUS
    <3> HIDE DEF y
    <3> QED BY <3>1, <3>2, <3>3
  <2>2. CASE RefreshStoreError(r)
    <3>1. [pc |-> "refused", kind |-> req[r].kind] \in Request
      BY <1>4, RequestForms
    <3> QED BY <2>2, <3>1 DEF RefreshStoreError, CarrierPc
  <2> QED BY <2>1, <2>2
<1>6. redeemed' = redeemed \/ (redeemed' = redeemed \cup {req[r].token} /\ session' = n)
  BY <1>2 DEF RefreshStore, RefreshStoreError, SetSession
<1>7. \A m \in redeemed' : m \in Token /\ Settled(m)
  <2>1. r \in Carriers
    BY <1>4 DEF Carriers
  <2> QED BY <1>1, <1>4, <1>6, <2>1 DEF TokensSettled, AuthTypeOK
<1>8. UNCHANGED <<pageVars, expiryVars, loggedOut, resumed, raced>>
  BY DEF RefreshStore, RefreshStoreError
<1>9. faults' \in Nat
  BY <1>1 DEF RefreshStore, RefreshStoreError, SetFails, Fault, AuthTypeOK
<1>10. dropped' = dropped \/ dropped' = TRUE
  BY DEF RefreshStore, RefreshStoreError
<1>11. raced' \in BOOLEAN /\ dropped' \in BOOLEAN /\ resumed' \in BOOLEAN /\ loggedOut' \in BOOLEAN
  BY <1>1, <1>8, <1>10 DEF AuthTypeOK
<1>12. AuthTypeOK' /\ TokensSettled' /\ RedeemedIsDead'
  BY <1>3, <1>5, <1>6, <1>7, <1>8, <1>9, <1>11, Generate
<1>13. ~(loggedOut /\ ~resumed)
  BY <1>1, <1>4 DEF AfterLogout, Rotating
<1>14. AfterLogout'
  BY <1>8, <1>13 DEF AfterLogout
<1> QED BY <1>12, <1>14 DEF TokensInv

\* The steps that take the session away: a logout, and time.
LEMMA EndStep ==
  ASSUME TokensInv, session' = 0, UNCHANGED <<late, issued, redeemed, pageVars, expiryVars>>,
         req' \in [Requests -> Request], orphans' \subseteq Requests, Carriers' = Carriers,
         \A q \in Carriers : req'[q] = req[q],
         UNCHANGED <<faults, raced, dropped>>, loggedOut' \in BOOLEAN, resumed' \in BOOLEAN
  PROVE  AuthTypeOK' /\ TokensSettled' /\ RedeemedIsDead'
<1>1. AuthTypeOK /\ TokensSettled
  BY DEF TokensInv
<1>2. issued \in Nat /\ 0 \notin Token
  BY <1>1, AuthConstants DEF AuthTypeOK, Token
<1>3. AuthTypeOK'
  BY <1>1 DEF AuthTypeOK, pageVars, expiryVars
<1>4. 0 \notin late /\ 0 \notin redeemed
  BY <1>1, <1>2 DEF AuthTypeOK
<1>5. Settled(session)'
  BY <1>2, <1>4 DEF Settled
<1>6. TokensSettled'
  BY <1>1, <1>5 DEF TokensSettled, Settled, pageVars
<1> QED BY <1>3, <1>4, <1>6 DEF RedeemedIsDead

LEMMA LogoutStep ==
  ASSUME TokensInv, NEW r \in Requests, Logout(r)
  PROVE  TokensInv'
<1>1. AuthTypeOK /\ req \in [Requests -> Request]
  BY DEF TokensInv, AuthTypeOK
<1> DEFINE x == [pc |-> "loggedout"]
<1>2. x \in Request /\ x.pc = "loggedout"
  BY RequestForms
<1>3. /\ session' = 0 /\ loggedOut' = TRUE /\ resumed' = (Rotating # {} \/ late # {})
      /\ req[r].pc = "sent" /\ Step(r, x)
      /\ UNCHANGED <<late, issued, redeemed, pageVars, expiryVars, faults, raced, dropped>>
  BY DEF Logout
<1> HIDE DEF x
<1>4. \A q \in Requests : req'[q] = IF q = r THEN x ELSE req[q]
  BY <1>1, <1>3 DEF Step
<1>5. req' \in [Requests -> Request] /\ orphans' \subseteq Requests
  BY <1>1, <1>2, <1>3 DEF Step, AuthTypeOK
<1>6. /\ Carriers' = Carriers /\ Rotating' = Rotating
      /\ \A q \in Carriers : req'[q] = req[q]
  BY <1>2, <1>3, <1>4 DEF Carriers, Rotating
<1>7. loggedOut' \in BOOLEAN /\ resumed' \in BOOLEAN
  BY <1>3
<1>8. AuthTypeOK' /\ TokensSettled' /\ RedeemedIsDead'
  BY <1>3, <1>5, <1>6, <1>7, EndStep
<1>9. AfterLogout'
  BY <1>3, <1>6 DEF AfterLogout
<1> QED BY <1>8, <1>9 DEF TokensInv

LEMMA SessionExpiresStep ==
  ASSUME TokensInv, SessionExpires
  PROVE  TokensInv'
<1>1. AuthTypeOK /\ AfterLogout
  BY DEF TokensInv
<1>2. /\ session' = 0
      /\ UNCHANGED <<late, issued, redeemed, pageVars, expiryVars>>
      /\ UNCHANGED <<req, orphans, loggedOut, resumed, faults, raced, dropped>>
  BY DEF SessionExpires, reqVars
<1>3. /\ Carriers' = Carriers /\ Rotating' = Rotating
      /\ \A q \in Carriers : req'[q] = req[q]
  BY <1>2 DEF Carriers, Rotating
<1>4. /\ req' \in [Requests -> Request] /\ orphans' \subseteq Requests
      /\ loggedOut' \in BOOLEAN /\ resumed' \in BOOLEAN
  BY <1>1, <1>2 DEF AuthTypeOK
<1>5. AuthTypeOK' /\ TokensSettled' /\ RedeemedIsDead'
  BY <1>2, <1>3, <1>4, EndStep
<1>6. AfterLogout'
  BY <1>1, <1>2, <1>3 DEF AfterLogout
<1> QED BY <1>5, <1>6 DEF TokensInv

\* A late SET brings a token nobody has, and none that was exchanged.
LEMMA LateSetStep ==
  ASSUME TokensInv, NEW n \in late, LateSet(n)
  PROVE  TokensInv'
<1>1. AuthTypeOK /\ TokensSettled /\ AfterLogout
  BY DEF TokensInv
<1>2. /\ session' = n /\ late' = late \ {n} /\ dropped' = TRUE
      /\ UNCHANGED <<issued, redeemed, loggedOut, resumed, faults, raced>>
      /\ UNCHANGED <<store, header, leaving, oldAccess, oldRefresh, req, orphans>>
  BY DEF LateSet, pageVars, expiryVars, reqVars
<1>3. n \in Token /\ n <= issued /\ n \notin redeemed
  BY <1>1 DEF AuthTypeOK, TokensSettled, Settled
<1>4. AuthTypeOK'
  BY <1>1, <1>2, <1>3 DEF AuthTypeOK
<1>5. Carriers' = Carriers
  BY <1>2 DEF Carriers
<1>6. TokensSettled'
  BY <1>1, <1>2, <1>3, <1>5 DEF TokensSettled, Settled
<1>7. RedeemedIsDead'
  BY <1>2, <1>3 DEF RedeemedIsDead
<1>8. AfterLogout'
  BY <1>1, <1>2 DEF AfterLogout
<1> QED BY <1>4, <1>6, <1>7, <1>8 DEF TokensInv

\* Time, and a page that is loaded anew, touch neither Redis nor a request.
LEMMA OtherStep ==
  ASSUME TokensInv, UNCHANGED <<serverVars, store, req>>,
         header' \in [Pages -> {0} \cup Token], leaving' \in [Pages -> BOOLEAN],
         oldAccess' \in 0..issued, oldRefresh' \in 0..oldAccess',
         orphans' \subseteq Requests, faults' \in Nat, raced' \in BOOLEAN, dropped' \in BOOLEAN
  PROVE  TokensInv'
<1>1. AuthTypeOK'
  BY DEF TokensInv, AuthTypeOK, serverVars
<1>2. Carriers' = Carriers /\ Rotating' = Rotating
  BY DEF Carriers, Rotating
<1>3. TokensSettled'
  BY <1>2 DEF TokensInv, TokensSettled, Settled, serverVars
<1>4. RedeemedIsDead' /\ AfterLogout'
  BY <1>2 DEF TokensInv, RedeemedIsDead, AfterLogout, serverVars
<1> QED BY <1>1, <1>3, <1>4 DEF TokensInv

LEMMA UnloadStep ==
  ASSUME TokensInv, NEW p \in Pages, GoToLogin(p) \/ Reload(p)
  PROVE  TokensInv'
<1>1. AuthTypeOK
  BY DEF TokensInv
<1>2. Unload(p)
  BY DEF GoToLogin, Reload
<1>3. faults' \in Nat
  BY <1>1 DEF GoToLogin, Reload, Fault, AuthTypeOK
<1>4. header' \in [Pages -> {0} \cup Token] /\ leaving' \in [Pages -> BOOLEAN]
  BY <1>1, <1>2 DEF Unload, AuthTypeOK
<1>5. oldAccess' \in 0..issued /\ oldRefresh' \in 0..oldAccess'
  BY <1>1, <1>2 DEF Unload, AuthTypeOK, expiryVars
<1>6. orphans' \subseteq Requests /\ raced' \in BOOLEAN
  BY <1>1, <1>2 DEF Unload, AuthTypeOK
<1>7. dropped' \in BOOLEAN
  BY <1>2 DEF Unload
<1>8. UNCHANGED <<serverVars, store, req>>
  BY <1>2 DEF Unload
<1> QED BY <1>3, <1>4, <1>5, <1>6, <1>7, <1>8, OtherStep

LEMMA TimeStep ==
  ASSUME TokensInv, AccessExpires \/ RefreshExpires
  PROVE  TokensInv'
<1>1. AuthTypeOK
  BY DEF TokensInv
<1>2. UNCHANGED <<serverVars, store, header, leaving, req, orphans, faults, raced, dropped>>
  BY DEF AccessExpires, RefreshExpires, pageVars, reqVars
<1>3. oldAccess' \in 0..issued /\ oldRefresh' \in 0..oldAccess'
  BY <1>1, AuthConstants DEF AccessExpires, RefreshExpires, AuthTypeOK
<1>4. /\ header' \in [Pages -> {0} \cup Token] /\ leaving' \in [Pages -> BOOLEAN]
      /\ orphans' \subseteq Requests /\ faults' \in Nat
      /\ raced' \in BOOLEAN /\ dropped' \in BOOLEAN
  BY <1>1, <1>2 DEF AuthTypeOK
<1> QED BY <1>2, <1>3, <1>4, OtherStep

LEMMA NextInv == TokensInv /\ [AuthNext]_authVars => TokensInv'
<1> SUFFICES ASSUME TokensInv, [AuthNext]_authVars
             PROVE  TokensInv'
  OBVIOUS
<1>1. ASSUME NEW r \in Requests, NEW k \in Kind, Send(r, k) PROVE TokensInv'
  BY <1>1, SendStep
<1>2. ASSUME NEW r \in Requests, RequestStep(r) PROVE TokensInv'
  BY <1>2, AnswerStep, LogoutStep, LoginStep, CheckStep, StoreStep, RefreshStep, PageStep
     DEF RequestStep
<1>3. ASSUME NEW r \in Requests, RedisError(r) PROVE TokensInv'
  BY <1>3, AnswerStep, LoginStep, StoreStep DEF RedisError
<1>4. ASSUME NEW p \in Pages, GoToLogin(p) \/ Reload(p) PROVE TokensInv'
  BY <1>4, UnloadStep
<1>5. ASSUME NEW n \in late, LateSet(n) PROVE TokensInv'
  BY <1>5, LateSetStep
<1>6. CASE AccessExpires \/ RefreshExpires
  BY <1>6, TimeStep
<1>7. CASE SessionExpires
  BY <1>7, SessionExpiresStep
<1>8. CASE UNCHANGED authVars
  <2>1. /\ UNCHANGED <<serverVars, store, req>>
        /\ UNCHANGED <<header, leaving, oldAccess, oldRefresh, orphans, faults, raced, dropped>>
    BY <1>8 DEF authVars, pageVars, expiryVars, reqVars
  <2>2. /\ oldAccess' \in 0..issued /\ oldRefresh' \in 0..oldAccess'
        /\ header' \in [Pages -> {0} \cup Token] /\ leaving' \in [Pages -> BOOLEAN]
        /\ orphans' \subseteq Requests /\ faults' \in Nat
        /\ raced' \in BOOLEAN /\ dropped' \in BOOLEAN
    BY <2>1 DEF TokensInv, AuthTypeOK
  <2> QED BY <2>1, <2>2, OtherStep
<1> QED BY <1>1, <1>2, <1>3, <1>4, <1>5, <1>6, <1>7, <1>8 DEF AuthNext

-----------------------------------------------------------------------------
(* Whoever has the session can go on.  HeldStep covers the steps of a      *)
(* request r, which becomes x, while nothing was raced or dropped.         *)

AnswerPc == {"renewed", "refused", "loggedin", "loggedout"}

\* A request that is about to write its page's tokens.
WritesTokens(x) ==
  \/ x.pc \in {"refresh", "rotate", "renewed", "refused", "loggedin", "loggedout"}
  \/ x.pc = "sent" /\ x.kind \in {"login", "logout"}

LEMMA WritingIs ==
  ASSUME NEW r \in Requests
  PROVE  r \in Writing(Page[r]) <=> WritesTokens(req[r])
BY DEF Writing, WritesTokens

LEMMA WritingIsNext ==
  ASSUME NEW r \in Requests
  PROVE  (r \in Writing(Page[r]))' <=> WritesTokens(req'[r])
BY DEF Writing, WritesTokens

LEMMA TokenBounds ==
  ASSUME TokensInv
  PROVE  /\ oldRefresh \in Nat /\ issued \in Nat /\ session \in Nat
         /\ session <= issued
         /\ \A p \in Pages : store[p] \in Nat /\ store[p] <= issued
         /\ req \in [Requests -> Request] /\ orphans \subseteq Requests
BY AuthConstants DEF TokensInv, AuthTypeOK, TokensSettled, Settled, Token

LEMMA HeldStep ==
  ASSUME TokensInv, HeldInv, ~raced, ~dropped,
         NEW r \in Requests, NEW x \in Request, Step(r, x),
         UNCHANGED oldRefresh,
         session' \in {session, 0, issued + 1},
         \A p \in Pages : (p # Page[r] \/ ~WritesTokens(req[r])) => store'[p] = store[p],
         WritesTokens(x) =>
           WritesTokens(req[r]) \/ (Writing(Page[r]) \ {r} = {} /\ r \notin orphans),
         x.pc \in {"refresh", "rotate"} => x.token = store'[Page[r]],
         x.pc \in AnswerPc /\ store'[Page[r]] = session' => session' <= oldRefresh,
         session' = issued + 1 => x.pc \in CarrierPc /\ x.token = session',
         session' = session /\ session > oldRefresh /\ store[Page[r]] = session
           => store'[Page[r]] = session,
         session' = session /\ session > oldRefresh /\ req[r].pc \in CarrierPc
           /\ req[r].token = session
           => (x.pc \in CarrierPc /\ x.token = session) \/ store'[Page[r]] = session
  PROVE  HeldInv'
<1>0. \A q \in Requests : Page[q] \in Pages
  BY AuthConstants
<1>1. SoleWriter /\ AnswersFit /\ SessionIsHeld
  BY DEF HeldInv
<1>2. \A q \in Requests : req'[q] = IF q = r THEN x ELSE req[q]
  BY TokenBounds DEF Step
<1>3. orphans' \subseteq orphans /\ orphans \subseteq Requests
  BY TokenBounds DEF Step
<1>4. SoleWriter'
  <2>1. ASSUME NEW u \in Requests, NEW v \in Requests, u # v, Page[u] = Page[v],
               WritesTokens(req'[u]), WritesTokens(req'[v])
        PROVE  FALSE
    <3>1. u = r \/ WritesTokens(req[u])
      BY <2>1, <1>2
    <3>2. v = r \/ WritesTokens(req[v])
      BY <2>1, <1>2
    <3>3. \A q \in Requests : q # r /\ Page[q] = Page[r] /\ WritesTokens(req[q])
            => ~WritesTokens(x)
      <4> SUFFICES ASSUME NEW q \in Requests, q # r, Page[q] = Page[r], WritesTokens(req[q]),
                          WritesTokens(x)
                   PROVE  FALSE
        OBVIOUS
      <4>1. q \in Writing(Page[r])
        BY WritingIs
      <4>2. ~WritesTokens(req[r])
        BY <4>1, <1>1, WritingIs DEF SoleWriter
      <4> QED BY <4>1, <4>2
    <3>4. CASE u # r /\ v # r
      BY <2>1, <3>1, <3>2, <3>4, <1>1, WritingIs DEF SoleWriter
    <3>5. CASE u = r
      BY <2>1, <3>2, <3>3, <3>5, <1>2
    <3>6. CASE v = r
      BY <2>1, <3>1, <3>3, <3>6, <1>2
    <3> QED BY <3>4, <3>5, <3>6
  <2>2. ASSUME NEW u \in orphans'
        PROVE  ~WritesTokens(req'[u]) /\ req'[u] # Idle
    <3>1. u \in orphans /\ u \in Requests /\ (u = r => x # Idle)
      BY <1>3 DEF Step
    <3>2. ~WritesTokens(req[u]) /\ req[u] # Idle
      BY <3>1, <1>1, WritingIs DEF SoleWriter
    <3> QED BY <3>1, <3>2, <1>2
  <2> QED BY <2>1, <2>2, <1>3, WritingIsNext DEF SoleWriter
<1>5. AnswersFit'
  <2> SUFFICES ASSUME NEW q \in Requests
               PROVE  /\ req'[q].pc \in {"refresh", "rotate"} => req'[q].token = store'[Page[q]]
                      /\ (req'[q].pc \in AnswerPc /\ store'[Page[q]] = session')
                           => session' <= oldRefresh
    BY DEF AnswersFit, AnswerPc
  <2>1. CASE q = r
    BY <2>1, <1>2
  <2>2. CASE q # r /\ WritesTokens(req[q])
    <3>1. req'[q] = req[q]
      BY <2>2, <1>2
    <3>2. Page[q] # Page[r] \/ ~WritesTokens(req[r])
      BY <2>2, <1>1, WritingIs DEF SoleWriter
    <3>3. store'[Page[q]] = store[Page[q]]
      BY <3>2, <1>0
    <3>4. /\ req[q].pc \in {"refresh", "rotate"} => req[q].token = store[Page[q]]
          /\ (req[q].pc \in AnswerPc /\ store[Page[q]] = session) => session <= oldRefresh
      BY <1>1 DEF AnswersFit, AnswerPc
    <3>5. store[Page[q]] <= issued /\ issued \in Nat /\ store[Page[q]] \in Nat /\ oldRefresh \in Nat
      BY <1>0, TokenBounds
    <3>6. store[Page[q]] # issued + 1 /\ 0 <= oldRefresh
      BY <3>5
    <3> QED BY <3>1, <3>3, <3>4, <3>6
  <2>3. CASE q # r /\ ~WritesTokens(req[q])
    BY <2>3, <1>2 DEF WritesTokens, AnswerPc
  <2> QED BY <2>1, <2>2, <2>3
<1>6. SessionIsHeld'
  <2> SUFFICES ASSUME session' > oldRefresh
               PROVE  session' \in Handed'
    BY DEF SessionIsHeld
  <2>1. /\ \A p \in Pages : store'[p] \in Handed'
        /\ \A q \in Requests : req'[q].pc \in CarrierPc => req'[q].token \in Handed'
    BY DEF Handed, Carriers, CarrierPc
  <2>2. session' # 0
    BY TokenBounds
  <2>3. CASE session' = issued + 1
    BY <2>1, <2>3, <1>2
  <2>4. CASE session' = session
    <3>1. session \in Handed
      BY <2>4, <1>1 DEF SessionIsHeld
    <3>2. ASSUME NEW p \in Pages, session = store[p]
          PROVE  session \in Handed'
      <4>1. CASE p = Page[r]
        BY <4>1, <3>2, <2>1, <2>4
      <4>2. CASE p # Page[r]
        BY <4>2, <3>2, <2>1
      <4> QED BY <4>1, <4>2
    <3>3. ASSUME NEW q \in Requests, req[q].pc \in CarrierPc, session = req[q].token
          PROVE  session \in Handed'
      <4>1. CASE q = r
        BY <4>1, <3>3, <2>1, <2>4, <1>0, <1>2
      <4>2. CASE q # r
        BY <4>2, <3>3, <2>1, <1>2
      <4> QED BY <4>1, <4>2
    <3> QED BY <3>1, <3>2, <3>3, <2>4 DEF Handed, Carriers, CarrierPc
  <2> QED BY <2>2, <2>3, <2>4
<1> QED BY <1>4, <1>5, <1>6 DEF HeldInv

\* What was raced or dropped stays so, and then nothing is claimed.
LEMMA NothingLost ==
  ASSUME (~raced' /\ ~dropped') => HeldInv'
  PROVE  HeldInv'
<1>1. CASE raced' \/ dropped'
  BY <1>1 DEF HeldInv, SessionIsHeld
<1> QED BY <1>1

\* The facts that the lemmas on single steps start from.
LEMMA HeldFacts ==
  ASSUME TokensInv, HeldInv, ~raced, ~dropped, NEW r \in Requests
  PROVE  /\ AuthTypeOK /\ oldRefresh \in Nat /\ Page[r] \in Pages
         /\ store \in [Pages -> {0} \cup Token]
         /\ req[r].pc \in {"refresh", "rotate"} => req[r].token = store[Page[r]]
         /\ (req[r].pc \in AnswerPc /\ store[Page[r]] = session) => session <= oldRefresh
         /\ r \in orphans => ~WritesTokens(req[r]) /\ req[r] # Idle
<1>1. AuthTypeOK /\ oldRefresh \in Nat /\ Page[r] \in Pages /\ store \in [Pages -> {0} \cup Token]
  BY AuthConstants, TokenBounds DEF TokensInv, AuthTypeOK
<1> QED BY <1>1, WritingIs DEF HeldInv, AnswersFit, SoleWriter, AnswerPc

\* A request is sent, or a token is sent with a refresh.
LEMMA HeldSend ==
  ASSUME TokensInv, HeldInv, NEW r \in Requests, NEW k \in Kind, Send(r, k)
  PROVE  HeldInv'
<1> SUFFICES ASSUME ~raced', ~dropped' PROVE HeldInv'
  BY NothingLost
<1> DEFINE x == [pc |-> "sent", kind |-> k, retry |-> FALSE, access |-> Access(Page[r])]
<1>1. /\ ~raced /\ ~dropped /\ Step(r, x) /\ req[r] = Idle
      /\ UNCHANGED <<session, store, oldRefresh>>
      /\ WritesTokens(x) => Writing(Page[r]) \ {r} = {}
  BY DEF Send, Writes, WritesTokens, serverVars, pageVars, expiryVars
<1>2. /\ AuthTypeOK /\ r \notin orphans
  BY <1>1, HeldFacts
<1>3. x \in Request
  BY <1>2, PageTypes, RequestForms DEF Access
<1>4. x.pc = "sent" /\ req[r].pc = "idle"
  BY <1>1 DEF Idle
<1>5. session' # issued + 1
  BY <1>1, TokenBounds
<1> HIDE DEF x
<1> QED BY <1>1, <1>2, <1>3, <1>4, <1>5, HeldStep DEF AnswerPc, CarrierPc

LEMMA HeldRefresh ==
  ASSUME TokensInv, HeldInv, NEW r \in Requests, Refresh(r)
  PROVE  HeldInv'
<1> SUFFICES ASSUME ~raced', ~dropped' PROVE HeldInv'
  BY NothingLost
<1> DEFINE x == [pc |-> "refresh", kind |-> req[r].kind, token |-> store[Page[r]]]
<1>1. /\ ~raced /\ ~dropped /\ Step(r, x) /\ req[r].pc = "unauthorized" /\ r \notin orphans
      /\ UNCHANGED <<session, store, oldRefresh>> /\ store[Page[r]] # 0
      /\ Writing(Page[r]) \ {r} = {}
  BY DEF Refresh, Answered, Writes, serverVars, pageVars, expiryVars
<1>2. AuthTypeOK
  BY <1>1, HeldFacts
<1>3. x \in Request
  BY <1>1, <1>2, PageTypes, RequestTypes, RequestForms
<1>4. x.pc = "refresh" /\ x.token = store[Page[r]]
  OBVIOUS
<1>5. session' # issued + 1
  BY <1>1, TokenBounds
<1> HIDE DEF x
<1> QED BY <1>1, <1>2, <1>3, <1>4, <1>5, HeldStep DEF AnswerPc, CarrierPc

\* The server answers without touching Redis.
LEMMA HeldAnswer ==
  ASSUME TokensInv, HeldInv, NEW r \in Requests,
         ServeApi(r) \/ Deny(r) \/ Reject(r) \/ Drop(r) \/ LoginError(r)
  PROVE  HeldInv'
<1> SUFFICES ASSUME ~raced', ~dropped' PROVE HeldInv'
  BY NothingLost
<1>1. /\ ~raced /\ ~dropped
      /\ UNCHANGED <<session, store, oldRefresh>>
  BY DEF ServeApi, Deny, Reject, Drop, LoginError, SetFails, serverVars, pageVars, expiryVars
<1>2. AuthTypeOK /\ (r \in orphans => ~WritesTokens(req[r]))
  BY <1>1, HeldFacts
<1>3. req[r].pc \notin CarrierPc
  BY <1>2 DEF ServeApi, Deny, Reject, Drop, LoginError, Answered, CarrierPc, WritesTokens
<1>4. PICK x \in Request : Step(r, x) /\ x.pc \in {"idle", "unauthorized"}
  <2>1. CASE Deny(r)
    <3>1. req[r].kind \in Kind /\ req[r].retry \in BOOLEAN
      BY <2>1, <1>2, RequestTypes DEF Deny
    <3> QED BY <2>1, <3>1, RequestForms DEF Deny
  <2>2. CASE ~Deny(r)
    BY <2>2, RequestForms DEF ServeApi, Reject, Drop, LoginError, Idle
  <2> QED BY <2>1, <2>2
<1>5. ~WritesTokens(x) /\ x.pc \notin AnswerPc /\ x.pc \notin {"refresh", "rotate"}
  BY <1>4 DEF WritesTokens, AnswerPc
<1>6. session' # issued + 1
  BY <1>1, TokenBounds
<1> QED BY <1>1, <1>3, <1>4, <1>5, <1>6, HeldStep

LEMMA HeldRefused ==
  ASSUME TokensInv, HeldInv, NEW r \in Requests, RefreshRefused(r)
  PROVE  HeldInv'
<1> SUFFICES ASSUME ~raced', ~dropped' PROVE HeldInv'
  BY NothingLost
<1> DEFINE x == [pc |-> "refused", kind |-> req[r].kind]
<1>1. /\ ~raced /\ ~dropped /\ Step(r, x) /\ req[r].pc = "refresh"
      /\ req[r].token <= oldRefresh \/ session # req[r].token
      /\ UNCHANGED <<session, store, oldRefresh>>
  BY DEF RefreshRefused, serverVars, pageVars, expiryVars
<1>2. AuthTypeOK /\ req[r].token = store[Page[r]] /\ oldRefresh \in Nat
  BY <1>1, HeldFacts
<1>3. x \in Request
  BY <1>1, <1>2, RequestTypes, RequestForms
<1>4. x.pc = "refused" /\ WritesTokens(req[r])
  BY <1>1 DEF WritesTokens
<1>5. session' # issued + 1 /\ session \in Nat
  BY <1>1, TokenBounds
<1>6. session = req[r].token => session <= oldRefresh /\ ~(session > oldRefresh)
  BY <1>1, <1>2, <1>5
<1> HIDE DEF x
<1> QED BY <1>1, <1>2, <1>3, <1>4, <1>5, <1>6, HeldStep DEF AnswerPc, CarrierPc

LEMMA HeldCheck ==
  ASSUME TokensInv, HeldInv, NEW r \in Requests, RefreshCheck(r)
  PROVE  HeldInv'
<1> SUFFICES ASSUME ~raced', ~dropped' PROVE HeldInv'
  BY NothingLost
<1> DEFINE x == [req[r] EXCEPT !.pc = "rotate"]
<1>1. /\ ~raced /\ ~dropped /\ Step(r, x) /\ req[r].pc = "refresh"
      /\ UNCHANGED <<session, store, oldRefresh>>
  BY DEF RefreshCheck, serverVars, pageVars, expiryVars
<1>2. AuthTypeOK /\ req[r].token = store[Page[r]]
  BY <1>1, HeldFacts
<1>3. /\ req[r] \in Request /\ req[r].kind \in Kind /\ req[r].token \in Token
  BY <1>1, <1>2, RequestTypes DEF CarrierPc
<1>4. x = [pc |-> "rotate", kind |-> req[r].kind, token |-> req[r].token]
  BY <1>1, <1>3 DEF Request, Idle
<1>5. [pc |-> "rotate", kind |-> req[r].kind, token |-> req[r].token] \in Request
  BY <1>3, RequestForms
<1>6. x \in Request /\ x.pc = "rotate" /\ x.token = req[r].token /\ WritesTokens(req[r])
  BY <1>1, <1>4, <1>5 DEF WritesTokens
<1>7. session' # issued + 1
  BY <1>1, TokenBounds
<1> HIDE DEF x
<1> QED BY <1>1, <1>2, <1>6, <1>7, HeldStep DEF AnswerPc, CarrierPc

\* Redis gets a new token, and the answer carries it.
LEMMA HeldGenerate ==
  ASSUME TokensInv, HeldInv, NEW r \in Requests, Login(r) \/ RefreshStore(r)
  PROVE  HeldInv'
<1> SUFFICES ASSUME ~raced', ~dropped' PROVE HeldInv'
  BY NothingLost
<1>1. /\ ~raced /\ ~dropped /\ session' = issued + 1
      /\ UNCHANGED <<store, oldRefresh>> /\ SetSession
  BY DEF Login, RefreshStore, SetSession, pageVars, expiryVars
<1>2. AuthTypeOK /\ issued + 1 \in Token
  BY <1>1, HeldFacts, NewToken DEF Makes
<1>3. WritesTokens(req[r])
  BY DEF Login, RefreshStore, WritesTokens
<1>4. PICK x \in Request : Step(r, x) /\ x.pc \in {"renewed", "loggedin"} /\ x.token = issued + 1
  <2>1. CASE Login(r)
    BY <2>1, <1>2, RequestForms DEF Login
  <2>2. CASE RefreshStore(r)
    <3>1. req[r].kind \in Kind
      BY <2>2, <1>2, RequestTypes DEF RefreshStore
    <3> QED BY <2>2, <3>1, <1>2, RequestForms DEF RefreshStore
  <2> QED BY <2>1, <2>2
<1>5. /\ store[Page[r]] # issued + 1 /\ session # issued + 1
  BY AuthConstants, TokenBounds
<1> QED BY <1>1, <1>3, <1>4, <1>5, HeldStep DEF AnswerPc, CarrierPc

LEMMA HeldLogout ==
  ASSUME TokensInv, HeldInv, NEW r \in Requests, Logout(r)
  PROVE  HeldInv'
<1> SUFFICES ASSUME ~raced', ~dropped' PROVE HeldInv'
  BY NothingLost
<1> DEFINE x == [pc |-> "loggedout"]
<1>1. /\ ~raced /\ ~dropped /\ session' = 0 /\ Step(r, x) /\ req[r].pc = "sent"
      /\ UNCHANGED <<store, oldRefresh>> /\ WritesTokens(req[r])
  BY DEF Logout, pageVars, expiryVars, WritesTokens
<1>2. x \in Request /\ x.pc = "loggedout"
  BY RequestForms
<1>3. oldRefresh \in Nat /\ session' # issued + 1 /\ (session' = session => ~(session > oldRefresh))
  BY <1>1, TokenBounds
<1> HIDE DEF x
<1> QED BY <1>1, <1>2, <1>3, HeldStep DEF AnswerPc, CarrierPc

\* The page takes the answer.
LEMMA HeldPage ==
  ASSUME TokensInv, HeldInv, NEW r \in Requests,
         Eject(r) \/ Renewed(r) \/ LoggedIn(r) \/ LoggedOut(r)
  PROVE  HeldInv'
<1> SUFFICES ASSUME ~raced', ~dropped' PROVE HeldInv'
  BY NothingLost
<1>1. /\ ~raced /\ ~dropped /\ UNCHANGED <<session, oldRefresh>>
  BY DEF Eject, Renewed, LoggedIn, LoggedOut, serverVars, expiryVars
<1>2. /\ AuthTypeOK /\ oldRefresh \in Nat /\ Page[r] \in Pages
      /\ store \in [Pages -> {0} \cup Token]
      /\ (req[r].pc \in AnswerPc /\ store[Page[r]] = session) => session <= oldRefresh
  BY <1>1, HeldFacts
<1>3. session' # issued + 1 /\ session \in Nat
  BY <1>1, TokenBounds
<1>4. CASE Eject(r) /\ req[r].pc = "unauthorized"
  <2>1. Step(r, Idle) /\ store[Page[r]] = 0 /\ store' = store
    BY <1>2, <1>4 DEF Eject, Answered
  <2>2. Idle \in Request /\ Idle.pc = "idle"
    BY RequestForms DEF Idle
  <2>3. ~WritesTokens(Idle)
    BY DEF WritesTokens, Idle
  <2> QED BY <1>1, <1>3, <1>4, <2>1, <2>2, <2>3, HeldStep DEF AnswerPc, CarrierPc
<1>5. CASE req[r].pc \in AnswerPc
  <2>1. WritesTokens(req[r])
    BY <1>5 DEF WritesTokens, AnswerPc
  <2>2. \A p \in Pages : p # Page[r] => store'[p] = store[p]
    BY <1>2 DEF Eject, Renewed, LoggedIn, LoggedOut
  <2>3. store[Page[r]] = session => ~(session > oldRefresh)
    BY <1>2, <1>3, <1>5
  <2>4. PICK x \in Request : Step(r, x) /\ x.pc \in {"idle", "sent"}
    <3>1. CASE Renewed(r)
      <4>1. req[r].kind \in Kind /\ req[r].token \in Token
        BY <3>1, <1>2, RequestTypes DEF Renewed, Answered, CarrierPc
      <4> DEFINE y == [pc |-> "sent", kind |-> req[r].kind, retry |-> TRUE, access |-> req[r].token]
      <4>2. y \in Request
        BY <4>1, RequestForms
      <4>3. Step(r, y) /\ y.pc = "sent"
        BY <3>1 DEF Renewed
      <4> HIDE DEF y
      <4> QED BY <4>2, <4>3
    <3>2. CASE ~Renewed(r)
      BY <3>2, RequestForms DEF Eject, LoggedIn, LoggedOut, Idle
    <3> QED BY <3>1, <3>2
  <2>5. req[r].pc \in CarrierPc => store'[Page[r]] = req[r].token
    BY <1>2, <1>5 DEF Eject, Renewed, LoggedIn, LoggedOut, Answered, CarrierPc, AnswerPc
  <2>6. x.pc \notin AnswerPc /\ x.pc \notin {"refresh", "rotate"}
    BY <2>4 DEF AnswerPc
  <2> QED BY <1>1, <1>3, <2>1, <2>2, <2>3, <2>4, <2>5, <2>6, HeldStep
<1> QED BY <1>4, <1>5 DEF Eject, Renewed, LoggedIn, LoggedOut, Answered, AnswerPc

\* A page that is loaded anew drops no request that writes its tokens, or
\* that is noted; time takes the session away before its token.
LEMMA HeldOther ==
  ASSUME TokensInv, HeldInv, UNCHANGED <<store, req, raced>>,
         session' \in {session, 0}, oldRefresh' \in Nat, oldRefresh <= oldRefresh',
         ~dropped' => ~dropped,
         ~dropped' => \A r \in orphans' : r \in Requests /\ (r \in orphans
                                             \/ (r \notin Writing(Page[r]) /\ req[r] # Idle))
  PROVE  HeldInv'
<1> SUFFICES ASSUME ~raced', ~dropped' PROVE HeldInv'
  BY NothingLost
<1>1. SoleWriter /\ AnswersFit /\ SessionIsHeld /\ ~raced /\ ~dropped
  BY DEF HeldInv
<1>2. oldRefresh \in Nat /\ session \in Nat
  BY TokenBounds
<1>3. \A p \in Pages : Writing(p)' = Writing(p)
  BY DEF Writing
<1>4. SoleWriter'
  BY <1>1, <1>3, AuthConstants DEF SoleWriter
<1>5. AnswersFit'
  <2> SUFFICES ASSUME NEW q \in Requests, req[q].pc \in AnswerPc, store[Page[q]] = session'
               PROVE  session' <= oldRefresh'
    BY <1>1 DEF AnswersFit, AnswerPc
  <2>1. CASE session' = 0
    BY <2>1
  <2>2. CASE session' = session
    <3>1. session <= oldRefresh
      BY <2>2, <1>1 DEF AnswersFit, AnswerPc
    <3> QED BY <2>2, <3>1, <1>2
  <2> QED BY <2>1, <2>2
<1>6. SessionIsHeld'
  <2> SUFFICES ASSUME session' > oldRefresh'
               PROVE  session' \in Handed'
    BY DEF SessionIsHeld
  <2>1. session' = session /\ session > oldRefresh
    BY <1>2
  <2>2. session \in Handed
    BY <2>1, <1>1 DEF SessionIsHeld
  <2>3. Handed' = Handed
    BY DEF Handed, Carriers
  <2> QED BY <2>1, <2>2, <2>3
<1> QED BY <1>4, <1>5, <1>6 DEF HeldInv

LEMMA HeldTime ==
  ASSUME TokensInv, HeldInv,
         AccessExpires \/ RefreshExpires \/ SessionExpires \/ UNCHANGED authVars
  PROVE  HeldInv'
<1>1. /\ UNCHANGED <<store, req, raced, dropped, orphans>>
      /\ session' \in {session, 0}
      /\ oldRefresh' \in {oldRefresh, oldRefresh + 1}
  BY DEF AccessExpires, RefreshExpires, SessionExpires, authVars, serverVars, pageVars,
         expiryVars, reqVars
<1>2. oldRefresh' \in Nat /\ oldRefresh <= oldRefresh' /\ orphans \subseteq Requests
  BY <1>1, TokenBounds
<1> QED BY <1>1, <1>2, HeldOther

LEMMA HeldUnload ==
  ASSUME TokensInv, HeldInv, NEW p \in Pages, GoToLogin(p) \/ Reload(p)
  PROVE  HeldInv'
<1>1. Unload(p)
  BY DEF GoToLogin, Reload
<1>2. /\ UNCHANGED <<store, req, raced, session, oldRefresh>>
      /\ ~dropped' => ~dropped /\ Writing(p) = {}
      /\ orphans' = orphans \cup {r \in Requests : Page[r] = p /\ req[r] # Idle}
  BY <1>1 DEF Unload, serverVars, expiryVars
<1>3. oldRefresh \in Nat /\ orphans \subseteq Requests
  BY TokenBounds
<1>4. ~dropped' => \A r \in orphans' : r \in Requests /\ (r \in orphans
                                          \/ (r \notin Writing(Page[r]) /\ req[r] # Idle))
  BY <1>2, <1>3
<1> QED BY <1>2, <1>3, <1>4, HeldOther

LEMMA HeldNext == TokensInv /\ HeldInv /\ [AuthNext]_authVars => HeldInv'
<1> SUFFICES ASSUME TokensInv, HeldInv, [AuthNext]_authVars
             PROVE  HeldInv'
  OBVIOUS
<1>1. ASSUME NEW r \in Requests, NEW k \in Kind, Send(r, k) PROVE HeldInv'
  BY <1>1, HeldSend
<1>2. ASSUME NEW r \in Requests, RequestStep(r) PROVE HeldInv'
  BY <1>2, HeldAnswer, HeldRefused, HeldCheck, HeldGenerate, HeldLogout, HeldRefresh, HeldPage
     DEF RequestStep
<1>3. ASSUME NEW r \in Requests, RedisError(r) PROVE HeldInv'
  BY <1>3, HeldAnswer, NothingLost
     DEF RedisError, LogoutError, RefreshError, RefreshStoreError
<1>4. ASSUME NEW p \in Pages, GoToLogin(p) \/ Reload(p) PROVE HeldInv'
  BY <1>4, HeldUnload
<1>5. ASSUME NEW n \in late, LateSet(n) PROVE HeldInv'
  BY <1>5, NothingLost DEF LateSet
<1>6. CASE AccessExpires \/ RefreshExpires \/ SessionExpires \/ UNCHANGED authVars
  BY <1>6, HeldTime
<1> QED BY <1>1, <1>2, <1>3, <1>4, <1>5, <1>6 DEF AuthNext

LEMMA HeldInit == AuthInit => HeldInv
<1> SUFFICES ASSUME AuthInit PROVE HeldInv
  OBVIOUS
<1> QED BY DEF AuthInit, HeldInv, SoleWriter, AnswersFit, SessionIsHeld, Writing, Idle

-----------------------------------------------------------------------------
\* AuthInv holds of every reachable state: no refresh token that Redis may
\* still get from a failed SET of generateTokens is in a page, in a request or
\* among those exchanged, and where nothing was raced or lost the answer that
\* replaces a page's tokens replaces none that Redis holds.
THEOREM AuthInvariant == AuthSpec => []AuthInv
<1>1. AuthInit => AuthInv
  BY InitInv, HeldInit DEF AuthInv
<1>2. AuthInv /\ [AuthNext]_authVars => AuthInv'
  BY NextInv, HeldNext DEF AuthInv
<1> QED BY <1>1, <1>2, PTL DEF AuthSpec

\* Rotation: once Refresh has exchanged a refresh token, Redis never holds it
\* again, for any number of pages, overlapping requests and failed commands.
THEOREM RedeemedIsDeadAlways == AuthSpec => []RedeemedIsDead
<1>1. AuthInv => RedeemedIsDead
  BY DEF AuthInv, TokensInv
<1> QED BY <1>1, AuthInvariant, PTL

\* A logout ends the session until the next login, unless it met a refresh
\* past its comparison or a SET whose outcome is unknown.
THEOREM LogoutHoldsAlways == AuthSpec => []LogoutHolds
<1>1. AuthInv => LogoutHolds
  BY DEF AuthInv, TokensInv, AfterLogout, LogoutHolds
<1> QED BY <1>1, AuthInvariant, PTL

\* The refresh token that Redis holds is in a page or on its way to one, for
\* any number of pages and of requests of a page, unless it has expired, two
\* requests wrote the tokens of one page, or an answer or a command was lost.
THEOREM SessionIsHeldAlways == AuthSpec => []SessionIsHeld
<1>1. AuthInv => SessionIsHeld
  BY DEF AuthInv, HeldInv
<1> QED BY <1>1, AuthInvariant, PTL
=============================================================================
