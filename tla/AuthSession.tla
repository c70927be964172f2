----------------------------- MODULE AuthSession -----------------------------
(***************************************************************************)
(* The console's session:                                                  *)
(*                                                                         *)
(*   internal/service/auth.go      Login, Refresh, Logout, generateTokens  *)
(*   internal/api/auth_handler.go  their handlers                          *)
(*   internal/middleware/jwt.go    the check of the access token           *)
(*   web/src/lib/axios.ts          what a page does with a 401             *)
(*   web/src/services/auth.ts, web/src/pages/Login.tsx                     *)
(*                                                                         *)
(* There is one user.  Redis, external, holds the one refresh token that   *)
(* may be exchanged; a page keeps a pair of tokens in localStorage.  Token *)
(* n is the n-th pair that generateTokens made.  Pairs expire in the order *)
(* they were made, so two watermarks say which access and which refresh    *)
(* tokens have expired.                                                    *)
(*                                                                         *)
(* A page has several requests under way at once.  A request runs in       *)
(* steps: the server's handler, with every Redis command a step of its     *)
(* own, and the interceptor that takes the answer.                         *)
(***************************************************************************)
EXTENDS Naturals, FiniteSets

CONSTANTS Pages,        \* console pages, each with its own localStorage
          Requests,     \* requests a page may have under way
          Page,         \* Page[r]: the page that sends r
          MaxTokens,    \* bound on the pairs of tokens made
          FaultBudget   \* bound on the Redis failures and reloads of a behaviour

ASSUME AuthConstants ==
  /\ Page \in [Requests -> Pages]
  /\ IsFiniteSet(Requests)
  /\ MaxTokens \in Nat
  /\ FaultBudget \in Nat

VARIABLES session,   \* the refresh token Redis holds, 0 for none
          late,      \* tokens of SETs that failed and may still be applied
          issued,    \* pairs made so far
          oldAccess, oldRefresh,   \* tokens up to these have expired
          store,     \* store[p]: the pair in localStorage, 0 for none
          header,    \* header[p]: the access token of the default header
          leaving,   \* leaving[p]: the page is on its way to /login
          req,       \* req[r]: a request
          orphans,   \* requests whose page is gone
          faults,
          (* History. *)
          redeemed,  \* refresh tokens that were exchanged
          loggedOut, \* no login since the last logout
          resumed,   \* the logout met an exchange or a late SET
          raced,     \* requests of one page wrote its tokens at the same time
          dropped    \* a page lost a token that Redis holds

serverVars  == <<session, late, issued, redeemed, loggedOut, resumed>>
pageVars    == <<store, header, leaving>>
expiryVars  == <<oldAccess, oldRefresh>>
reqVars     == <<req, orphans>>
authVars    == <<serverVars, pageVars, expiryVars, reqVars, faults, raced, dropped>>

Token == 1..MaxTokens
Kind  == {"api", "logout", "login", "badlogin"}

Idle    == [pc |-> "idle"]
Request == {Idle}
      \cup [pc : {"sent"}, kind : Kind, retry : BOOLEAN, access : {0} \cup Token]
      \cup [pc : {"unauthorized"}, kind : Kind, retry : BOOLEAN]
      \cup [pc : {"refresh", "rotate"}, kind : Kind, token : Token]
      \cup [pc : {"renewed"}, kind : Kind, token : Token]
      \cup [pc : {"refused"}, kind : Kind]
      \cup [pc : {"loggedin"}, token : Token]
      \cup [pc : {"loggedout"}]

AuthInit ==
  /\ session = 0
  /\ late = {}
  /\ issued = 0
  /\ oldAccess = 0
  /\ oldRefresh = 0
  /\ store = [p \in Pages |-> 0]
  /\ header = [p \in Pages |-> 0]
  /\ leaving = [p \in Pages |-> FALSE]
  /\ req = [r \in Requests |-> Idle]
  /\ orphans = {}
  /\ faults = 0
  /\ redeemed = {}
  /\ loggedOut = FALSE
  /\ resumed = FALSE
  /\ raced = FALSE
  /\ dropped = FALSE

Fault ==
  /\ faults < FaultBudget
  /\ faults' = faults + 1

Step(r, x) ==
  /\ req' = [req EXCEPT ![r] = x]
  /\ orphans' = IF x = Idle THEN orphans \ {r} ELSE orphans

-----------------------------------------------------------------------------
(* The page sends a request with the access token of localStorage, or else *)
(* of its default header.                                                  *)

Access(p) == IF store[p] # 0 THEN store[p] ELSE header[p]

\* Requests that are about to write the tokens of a page.
Writing(p) ==
  {r \in Requests :
     /\ Page[r] = p
     /\ \/ req[r].pc \in {"refresh", "rotate", "renewed", "refused", "loggedin",
                       "loggedout"}
        \/ req[r].pc = "sent" /\ req[r].kind \in {"login", "logout"}}

\* Request r becomes one of them; the history notes if it is not the only one.
Writes(r) == raced' = (raced \/ Writing(Page[r]) \ {r} # {})

\* A request makes one pair at most, and one is left for it.
MoreTokens == issued + Cardinality({r \in Requests : req[r] # Idle}) < MaxTokens

Send(r, kind) ==
  /\ req[r] = Idle
  /\ ~leaving[Page[r]]
  /\ MoreTokens
  /\ Step(r, [pc |-> "sent", kind |-> kind, retry |-> FALSE, access |-> Access(Page[r])])
  /\ IF kind \in {"login", "logout"} THEN Writes(r) ELSE UNCHANGED raced
  /\ UNCHANGED <<serverVars, pageVars, expiryVars, faults, dropped>>

-----------------------------------------------------------------------------
(* The server.                                                             *)

\* generateTokens makes the next pair; its SET succeeds.
SetSession ==
  /\ issued < MaxTokens
  /\ issued' = issued + 1
  /\ session' = issued + 1
  /\ UNCHANGED late

\* Its SET fails: it was not applied, or may still be.
SetFails ==
  /\ issued < MaxTokens
  /\ issued' = issued + 1
  /\ late' \in {late, late \cup {issued + 1}}
  /\ Fault
  /\ UNCHANGED session

\* JWTMiddleware, before every route but login and refresh.
Authorized(r) == req[r].access > oldAccess

ServeApi(r) ==
  /\ req[r].pc = "sent"
  /\ req[r].kind = "api"
  /\ Authorized(r)
  /\ Step(r, Idle)
  /\ UNCHANGED <<serverVars, pageVars, expiryVars, faults, raced, dropped>>

Deny(r) ==
  /\ req[r].pc = "sent"
  /\ \/ req[r].kind \in {"api", "logout"} /\ ~Authorized(r)
     \/ req[r].kind = "badlogin"
  /\ Step(r, [pc |-> "unauthorized", kind |-> req[r].kind, retry |-> req[r].retry])
  /\ UNCHANGED <<serverVars, pageVars, expiryVars, faults, raced, dropped>>

Rotating == {r \in Requests : req[r].pc = "rotate"}

Logout(r) ==
  /\ req[r].pc = "sent"
  /\ req[r].kind = "logout"
  /\ Authorized(r)
  /\ session' = 0
  /\ loggedOut' = TRUE
  /\ resumed' = (Rotating # {} \/ late # {})
  /\ Step(r, [pc |-> "loggedout"])
  /\ UNCHANGED <<late, issued, redeemed, pageVars, expiryVars, faults, raced, dropped>>

\* DEL fails; the handler logs the error and answers 200.
LogoutError(r) ==
  /\ req[r].pc = "sent"
  /\ req[r].kind = "logout"
  /\ Authorized(r)
  /\ Step(r, [pc |-> "loggedout"])
  /\ dropped' = TRUE
  /\ Fault
  /\ UNCHANGED <<serverVars, pageVars, expiryVars, raced>>

Login(r) ==
  /\ req[r].pc = "sent"
  /\ req[r].kind = "login"
  /\ SetSession
  /\ loggedOut' = FALSE
  /\ Step(r, [pc |-> "loggedin", token |-> issued + 1])
  /\ UNCHANGED <<redeemed, resumed, pageVars, expiryVars, faults, raced, dropped>>

\* 500, which the page only reports.
LoginError(r) ==
  /\ req[r].pc = "sent"
  /\ req[r].kind = "login"
  /\ SetFails
  /\ loggedOut' = FALSE
  /\ Step(r, Idle)
  /\ UNCHANGED <<redeemed, resumed, pageVars, expiryVars, raced, dropped>>

\* A mutation of RefreshCheck: a missing session is not an error.
RefreshCheck_MissingOk(r) ==
  /\ req[r].pc = "refresh"
  /\ req[r].token > oldRefresh
  /\ session \in {0, req[r].token}
  /\ Step(r, [req[r] EXCEPT !.pc = "rotate"])
  /\ UNCHANGED <<serverVars, pageVars, expiryVars, faults, raced, dropped>>

\* Refresh up to the comparison: the token is valid and the one Redis holds.
RefreshCheck(r) ==
  /\ req[r].pc = "refresh"
  /\ req[r].token > oldRefresh
  /\ session = req[r].token
  /\ Step(r, [req[r] EXCEPT !.pc = "rotate"])
  /\ UNCHANGED <<serverVars, pageVars, expiryVars, faults, raced, dropped>>

RefreshRefused(r) ==
  /\ req[r].pc = "refresh"
  /\ req[r].token <= oldRefresh \/ session # req[r].token
  /\ Step(r, [pc |-> "refused", kind |-> req[r].kind])
  /\ UNCHANGED <<serverVars, pageVars, expiryVars, faults, raced, dropped>>

\* GET fails, and the handler answers 401 as for a wrong token.
RefreshError(r) ==
  /\ req[r].pc = "refresh"
  /\ Step(r, [pc |-> "refused", kind |-> req[r].kind])
  /\ dropped' = TRUE
  /\ Fault
  /\ UNCHANGED <<serverVars, pageVars, expiryVars, raced>>

\* A mutation of RefreshStore: the old refresh token is handed out again.
RefreshStore_Keeps(r) ==
  /\ req[r].pc = "rotate"
  /\ redeemed' = redeemed \cup {req[r].token}
  /\ session' = req[r].token
  /\ Step(r, [req[r] EXCEPT !.pc = "renewed"])
  /\ UNCHANGED <<late, issued, loggedOut, resumed, pageVars, expiryVars, faults, raced, dropped>>

\* Refresh from there: the next pair replaces whatever Redis holds by now.
RefreshStore(r) ==
  /\ req[r].pc = "rotate"
  /\ SetSession
  /\ redeemed' = redeemed \cup {req[r].token}
  /\ Step(r, [pc |-> "renewed", kind |-> req[r].kind, token |-> issued + 1])
  /\ UNCHANGED <<loggedOut, resumed, pageVars, expiryVars, faults, raced, dropped>>

RefreshStoreError(r) ==
  /\ req[r].pc = "rotate"
  /\ SetFails
  /\ Step(r, [pc |-> "refused", kind |-> req[r].kind])
  /\ dropped' = TRUE
  /\ UNCHANGED <<redeemed, loggedOut, resumed, pageVars, expiryVars, raced>>

\* Redis applies a SET whose handler has given up: nobody has this token.
LateSet(n) ==
  /\ n \in late
  /\ session' = n
  /\ late' = late \ {n}
  /\ dropped' = TRUE
  /\ UNCHANGED <<issued, redeemed, loggedOut, resumed, pageVars, expiryVars, reqVars, faults, raced>>

-----------------------------------------------------------------------------
(* The page takes the answer.                                              *)

Answered(r, pc) == req[r].pc = pc /\ r \notin orphans

\* The interceptor gives up on a request it has already sent twice.
Reject(r) ==
  /\ Answered(r, "unauthorized")
  /\ req[r].retry
  /\ Step(r, Idle)
  /\ UNCHANGED <<serverVars, pageVars, expiryVars, faults, raced, dropped>>

\* A mutation of Refresh: _retry is not looked at.
Refresh_Again(r) ==
  /\ Answered(r, "unauthorized")
  /\ store[Page[r]] # 0
  /\ Writes(r)
  /\ Step(r, [pc |-> "refresh", kind |-> req[r].kind, token |-> store[Page[r]]])
  /\ UNCHANGED <<serverVars, pageVars, expiryVars, faults, dropped>>

\* On the first 401 it asks for new tokens with the ones it has.
Refresh(r) ==
  /\ Answered(r, "unauthorized")
  /\ ~req[r].retry
  /\ store[Page[r]] # 0
  /\ Writes(r)
  /\ Step(r, [pc |-> "refresh", kind |-> req[r].kind, token |-> store[Page[r]]])
  /\ UNCHANGED <<serverVars, pageVars, expiryVars, faults, dropped>>

\* It has none, or the refresh was refused: forget them and go to /login.
Eject(r) ==
  /\ \/ Answered(r, "unauthorized") /\ ~req[r].retry /\ store[Page[r]] = 0
     \/ Answered(r, "refused")
  /\ store' = [store EXCEPT ![Page[r]] = 0]
  /\ leaving' = [leaving EXCEPT ![Page[r]] = TRUE]
  /\ Step(r, Idle)
  /\ UNCHANGED <<serverVars, header, expiryVars, faults, raced, dropped>>

\* A mutation of Renewed: the rotated refresh token is not kept, so that the
\* page goes on with the pair it had.
Renewed_KeepsOld(r) ==
  /\ Answered(r, "renewed")
  /\ header' = [header EXCEPT ![Page[r]] = req[r].token]
  /\ Step(r, [pc |-> "sent", kind |-> req[r].kind, retry |-> TRUE, access |-> req[r].token])
  /\ UNCHANGED <<serverVars, store, leaving, expiryVars, faults, raced, dropped>>

\* The new pair is stored and the request sent again.
Renewed(r) ==
  /\ Answered(r, "renewed")
  /\ store' = [store EXCEPT ![Page[r]] = req[r].token]
  /\ header' = [header EXCEPT ![Page[r]] = req[r].token]
  /\ Step(r, [pc |-> "sent", kind |-> req[r].kind, retry |-> TRUE, access |-> req[r].token])
  /\ UNCHANGED <<serverVars, leaving, expiryVars, faults, raced, dropped>>

LoggedIn(r) ==
  /\ Answered(r, "loggedin")
  /\ store' = [store EXCEPT ![Page[r]] = req[r].token]
  /\ Step(r, Idle)
  /\ UNCHANGED <<serverVars, header, leaving, expiryVars, faults, raced, dropped>>

LoggedOut(r) ==
  /\ Answered(r, "loggedout")
  /\ store' = [store EXCEPT ![Page[r]] = 0]
  /\ Step(r, Idle)
  /\ UNCHANGED <<serverVars, header, leaving, expiryVars, faults, raced, dropped>>

\* The page is loaded anew.  The server may go on with its requests.
Unload(p) ==
  /\ header' = [header EXCEPT ![p] = 0]
  /\ leaving' = [leaving EXCEPT ![p] = FALSE]
  /\ orphans' = orphans \cup {r \in Requests : Page[r] = p /\ req[r] # Idle}
  /\ dropped' = (dropped \/ Writing(p) # {})
  /\ UNCHANGED <<serverVars, store, expiryVars, req, raced>>

\* The server notices, or answers nobody.
Drop(r) ==
  /\ r \in orphans
  /\ Step(r, Idle)
  /\ UNCHANGED <<serverVars, pageVars, expiryVars, faults, raced, dropped>>

GoToLogin(p) ==
  /\ leaving[p]
  /\ Unload(p)
  /\ UNCHANGED faults

Reload(p) ==
  /\ Unload(p)
  /\ Fault

-----------------------------------------------------------------------------
(* Time.                                                                   *)

AccessExpires ==
  /\ oldAccess < issued
  /\ oldAccess' = oldAccess + 1
  /\ UNCHANGED <<serverVars, pageVars, oldRefresh, reqVars, faults, raced, dropped>>

\* Seven days after fifteen minutes.
RefreshExpires ==
  /\ oldRefresh < oldAccess
  /\ oldRefresh' = oldRefresh + 1
  /\ UNCHANGED <<serverVars, pageVars, oldAccess, reqVars, faults, raced, dropped>>

\* The key has the refresh token's time to live.
SessionExpires ==
  /\ session # 0
  /\ session <= oldRefresh
  /\ session' = 0
  /\ UNCHANGED <<late, issued, redeemed, loggedOut, resumed, pageVars, expiryVars, reqVars, faults,
                 raced, dropped>>

-----------------------------------------------------------------------------
RequestStep(r) ==
  \/ ServeApi(r) \/ Deny(r) \/ Logout(r) \/ Login(r)
  \/ RefreshCheck(r) \/ RefreshRefused(r) \/ RefreshStore(r)
  \/ Reject(r) \/ Refresh(r) \/ Eject(r) \/ Renewed(r) \/ LoggedIn(r) \/ LoggedOut(r)
  \/ Drop(r)

RedisError(r) ==
  LogoutError(r) \/ LoginError(r) \/ RefreshError(r) \/ RefreshStoreError(r)

AuthNext ==
  \/ \E r \in Requests : \/ \E kind \in Kind : Send(r, kind)
                         \/ RequestStep(r)
                         \/ RedisError(r)
  \/ \E p \in Pages : GoToLogin(p) \/ Reload(p)
  \/ \E n \in late : LateSet(n)
  \/ AccessExpires \/ RefreshExpires \/ SessionExpires

\* Handlers and callbacks run; nobody has to send, reload, fail or wait.
AuthFairness == \A r \in Requests : WF_authVars(RequestStep(r))

AuthSpec     == AuthInit /\ [][AuthNext]_authVars
FairAuthSpec == AuthSpec /\ AuthFairness

-----------------------------------------------------------------------------
(* What the session guarantees.                                            *)

AuthTypeOK ==
  /\ session \in {0} \cup Token
  /\ late \subseteq Token
  /\ issued \in 0..MaxTokens
  /\ oldAccess \in 0..issued
  /\ oldRefresh \in 0..oldAccess
  /\ store \in [Pages -> {0} \cup Token]
  /\ header \in [Pages -> {0} \cup Token]
  /\ leaving \in [Pages -> BOOLEAN]
  /\ req \in [Requests -> Request]
  /\ orphans \subseteq Requests
  /\ faults \in Nat
  /\ redeemed \subseteq Token
  /\ loggedOut \in BOOLEAN
  /\ resumed \in BOOLEAN
  /\ raced \in BOOLEAN
  /\ dropped \in BOOLEAN

\* Requests that carry a refresh token, to the server or back.
Carriers == {r \in Requests : req[r].pc \in {"refresh", "rotate", "renewed", "loggedin"}}

\* Tokens that have left the server.
Handed == {store[p] : p \in Pages} \cup {req[r].token : r \in Carriers}

(* A refresh token that has been exchanged is never again the one Redis    *)
(* holds, whatever the order of logins, refreshes, logouts and late SETs:  *)
(* it cannot be exchanged again, except by a refresh that had already      *)
(* passed the comparison.                                                  *)
RedeemedIsDead == session \notin redeemed

(* After a logout there is no session until the next login, unless the     *)
(* logout met a refresh between its comparison and its SET, or a SET of    *)
(* unknown outcome.                                                        *)
LogoutHolds == loggedOut /\ ~resumed => session = 0

(* Whoever has the session can go on: the refresh token Redis holds is in  *)
(* a page's localStorage or on its way there, unless it has expired,       *)
(* requests of one page wrote its tokens at the same time, or an answer or *)
(* a Redis command was lost.                                               *)
SessionIsHeld ==
  session > oldRefresh /\ ~raced /\ ~dropped => session \in Handed

\* A token that exists, and that no failed SET will bring into Redis.
Settled(n) == n <= issued /\ n \notin late

\* The token of a SET that failed is nobody's.
TokensSettled ==
  /\ Settled(session)
  /\ \A n \in late : n <= issued
  /\ \A n \in redeemed : Settled(n)
  /\ \A p \in Pages : Settled(store[p])
  /\ \A r \in Carriers : Settled(req[r].token)

AfterLogout ==
  loggedOut /\ ~resumed => session = 0 /\ Rotating = {} /\ late = {}

\* Redis and the tokens: the inductive invariant of RedeemedIsDead and
\* LogoutHolds.
TokensInv ==
  AuthTypeOK /\ TokensSettled /\ RedeemedIsDead /\ AfterLogout

\* Two requests do not write one page's tokens, and none that lost its page.
SoleWriter ==
  /\ \A r, q \in Requests :
       (r # q /\ Page[r] = Page[q] /\ r \in Writing(Page[r])) => q \notin Writing(Page[q])
  /\ \A r \in orphans : r \notin Writing(Page[r]) /\ req[r] # Idle

\* A refresh goes with the token its page has.  A request whose answer will
\* replace the page's token replaces one that is no longer the session's.
AnswersFit ==
  \A r \in Requests :
    /\ req[r].pc \in {"refresh", "rotate"} => req[r].token = store[Page[r]]
    /\ (req[r].pc \in {"renewed", "refused", "loggedin", "loggedout"} /\ store[Page[r]] = session)
         => session <= oldRefresh

\* With these, the inductive invariant of SessionIsHeld.
HeldInv ==
  /\ ~raced /\ ~dropped => SoleWriter /\ AnswersFit
  /\ SessionIsHeld

AuthInv == TokensInv /\ HeldInv

(* Every request ends, with whatever outcome: a 401 is answered by one     *)
(* refresh and one more attempt, and never by a loop of them.              *)
RequestsEnd == \A r \in Requests : req[r].pc # "idle" ~> req[r].pc = "idle"
=============================================================================
