-------------------------------- MODULE Session --------------------------------
(***************************************************************************)
(* A signed-in browser: the tabs of the single-page application, the       *)
(* refresh cookie they share, and the one refresh token the server stores  *)
(* for the user (users.refreshToken; Accounts models the rest of the row). *)
(*                                                                         *)
(* Three independent places of a tab refresh the access token: the page    *)
(* load (rehydrate), the timer, and the interceptor of answers with status *)
(* 401.  A request travels, is read and written by the server in two       *)
(* steps, and its answer travels back or is lost.  Refresh tokens carry    *)
(* their second of issue and nothing else that varies, so a token is the   *)
(* second it was issued in.                                                *)
(***************************************************************************)
EXTENDS Integers, FiniteSets

CONSTANTS
  Tabs,
  None,
  MaxTime,   \* bound: seconds that matter
  MaxActs    \* bound: user actions, timers, 401 answers and losses

ASSUME SessionAssumption ==
  MaxTime \in Nat /\ MaxActs \in Nat /\ None \notin Tabs \union Nat

VARIABLES
  stored,  \* users.refreshToken
  cookie,  \* the refreshToken cookie
  code,    \* refresh token behind oauth:code:* in Redis
  disk,    \* auth-storage in localStorage: user, isAuthenticated
  tab,     \* per tab, the auth store, the timer, the layout and its socket
  net,     \* requests under way; tab None when their page is gone
  now,
  acts,
  seen     \* history: race, requests that overlapped, a lost answer or a
           \* session from elsewhere; revoked, a token refused as reused

vars == <<stored, cookie, code, disk, tab, net, now, acts, seen>>

Blank(d) == [open |-> TRUE, user |-> d.user, auth |-> d.auth, token |-> FALSE, loading |-> FALSE,
             leaving |-> FALSE, timer |-> None, layout |-> FALSE, socket |-> FALSE]

\* Signed out, or signed in since second 0 with every tab closed.
Init ==
  /\ \E signedIn \in BOOLEAN :
       /\ stored = (IF signedIn THEN 0 ELSE None) /\ cookie = stored
       /\ disk = [user |-> signedIn, auth |-> signedIn]
  /\ code = None
  /\ tab = [t \in Tabs |-> [Blank([user |-> FALSE, auth |-> FALSE]) EXCEPT !.open = FALSE]]
  /\ net = {} /\ now = 1 /\ acts = 0
  /\ seen = [race |-> FALSE, revoked |-> FALSE]

-----------------------------------------------------------------------------
\* The browser.

Act == acts < MaxActs /\ acts' = acts + 1

\* A request leaves with the cookie of the moment.
Message(t, kind) ==
  [tab |-> t, kind |-> kind, token |-> cookie, phase |-> "sent", snap |-> None,
   ok |-> FALSE, result |-> None]

Overlapping == net # {} \/ code # None
Send(t, kind) ==
  /\ net' = net \union {Message(t, kind)}
  /\ seen' = [seen EXCEPT !.race = @ \/ Overlapping]

\* Faulty variant: the socket outlives the sign-out.
SettleKeepsSocket(t, new) ==
  tab' = [tab EXCEPT ![t] = new] /\ disk' = [user |-> new.user, auth |-> new.auth]

\* set() of the store: the new state, what persist writes, and the effect of
\* Layout when isAuthenticated changed (disconnectSocket, connectSocket).
Settle(t, new) ==
  /\ tab' = [tab EXCEPT ![t] =
       IF new.layout /\ new.auth # @.auth THEN [new EXCEPT !.socket = new.auth /\ new.token] ELSE new]
  /\ disk' = [user |-> new.user, auth |-> new.auth]

SignedOut(x) == [x EXCEPT !.user = FALSE, !.auth = FALSE, !.token = FALSE]

\* App mounts: the store is read back and rehydrate refreshes once.  What the
\* page before had under way goes on without it.
Mount(t) ==
  LET left == {IF m.tab = t THEN [m EXCEPT !.tab = None] ELSE m : m \in net}
  IN  /\ tab' = [tab EXCEPT ![t] = [Blank(disk) EXCEPT !.loading = disk.user]]
      /\ net' = left \union (IF disk.user THEN {Message(t, "load")} ELSE {})
      /\ seen' = [seen EXCEPT !.race = @ \/ (disk.user /\ Overlapping)]
      /\ UNCHANGED <<stored, cookie, code, disk, now>>

Load(t) == Act /\ Mount(t)
\* window.location.href = '/login'
Redirect(t) == tab[t].leaving /\ Mount(t) /\ UNCHANGED acts

\* Layout mounts with the first page below it and goes with the last.
Navigate(t) ==
  /\ Act /\ tab[t].open
  /\ tab' = [tab EXCEPT ![t] = [@ EXCEPT !.layout = ~tab[t].layout, !.socket = ~tab[t].layout /\ tab[t].auth /\ tab[t].token]]
  /\ UNCHANGED <<stored, cookie, code, disk, net, now, seen>>

Outstanding(t, kind) == \E m \in net : m.tab = t /\ m.kind = kind
Await(t, kind) ==
  /\ Act /\ tab[t].open /\ ~Outstanding(t, kind)
  /\ Send(t, kind)
  /\ UNCHANGED <<stored, cookie, code, disk, now>>

\* An answer 401, of an expired access token or a wrong password: one refresh
\* serves all of them (refreshPromise).
Unauthorized(t) == Await(t, "call") /\ UNCHANGED tab

\* scheduleTokenRefresh, a minute before the access token expires.
TimerFires(t) ==
  /\ tab[t].timer # None /\ now > tab[t].timer
  /\ tab' = [tab EXCEPT ![t].timer = None]
  /\ Await(t, "timer")

\* The form: a password, or the code of the second factor.
SubmitLogin(t) == ~tab[t].layout /\ Await(t, "login") /\ UNCHANGED tab

\* handleLogout, with an access token the server takes.
SubmitLogout(t) == tab[t].layout /\ tab[t].token /\ Await(t, "logout") /\ UNCHANGED tab

-----------------------------------------------------------------------------
\* The server.

Advance(m, new) == net' = (net \ {m}) \union {new}
ServerUnchanged == UNCHANGED <<cookie, code, disk, tab, now, acts>>

\* Controller.refresh without a cookie, or the findUnique of refreshToken.
ReadToken(m) ==
  /\ m.phase = "sent" /\ m.kind \in {"load", "timer", "call"}
  /\ Advance(m, IF m.token = None THEN [m EXCEPT !.phase = "answered"]
                ELSE [m EXCEPT !.phase = "read", !.snap = stored])
  /\ UNCHANGED stored /\ UNCHANGED seen /\ ServerUnchanged

\* The comparison and its update: a new token, or none at all.
RotateToken(m) ==
  /\ m.phase = "read"
  /\ IF m.snap = m.token
     THEN /\ stored' = now
          /\ Advance(m, [m EXCEPT !.phase = "answered", !.ok = TRUE, !.result = now])
          /\ UNCHANGED seen
     ELSE /\ stored' = None
          /\ Advance(m, [m EXCEPT !.phase = "answered"])
          /\ seen' = [seen EXCEPT !.revoked = @ \/ stored # None]
  /\ ServerUnchanged

\* login and loginMfa with the right password and code; logout.
AcceptLogin(m) ==
  /\ m.phase = "sent" /\ m.kind = "login"
  /\ stored' = now
  /\ Advance(m, [m EXCEPT !.phase = "answered", !.ok = TRUE, !.result = now])
  /\ UNCHANGED seen /\ ServerUnchanged

AcceptLogout(m) ==
  /\ m.phase = "sent" /\ m.kind = "logout"
  /\ stored' = None
  /\ Advance(m, [m EXCEPT !.phase = "answered", !.ok = TRUE])
  /\ UNCHANGED seen /\ ServerUnchanged

\* googleCallback, githubCallback: the token waits behind a code, and the
\* redirect opens /auth/callback.
OAuthCallback ==
  /\ Act /\ code = None
  /\ stored' = now /\ code' = now
  /\ seen' = [seen EXCEPT !.race = @ \/ Overlapping]
  /\ UNCHANGED <<cookie, disk, tab, net, now>>

\* exchangeOAuthCode deletes the code and answers with its token.
ExchangeCode(t) ==
  /\ Act /\ code # None /\ tab[t].open /\ ~tab[t].layout /\ ~Outstanding(t, "login")
  /\ code' = None
  /\ net' = net \union {[Message(t, "login") EXCEPT !.phase = "answered", !.ok = TRUE, !.result = code]}
  /\ UNCHANGED <<stored, cookie, disk, tab, now, seen>>

\* The code expires after a minute; its token stays stored.
ExpireCode ==
  /\ Act /\ code # None /\ code' = None
  /\ seen' = [seen EXCEPT !.race = TRUE]
  /\ UNCHANGED <<stored, cookie, disk, tab, net, now>>

\* A sign-in from another browser, a reset of the password.
Elsewhere ==
  /\ Act /\ stored' \in {None, now}
  /\ seen' = [seen EXCEPT !.race = TRUE]
  /\ UNCHANGED <<cookie, code, disk, tab, net, now>>

-----------------------------------------------------------------------------
\* The answer.

\* Faulty variant: isRehydrating stays set after a refused refresh.
FailedKeepsLoading(m) ==
  LET x == tab[m.tab]
  IN  CASE m.kind = "load"   -> Settle(m.tab, SignedOut(x))
        [] m.kind = "call"   -> Settle(m.tab, [SignedOut(x) EXCEPT !.leaving = TRUE])
        [] m.kind = "logout" -> Settle(m.tab, SignedOut(x))
        [] OTHER             -> UNCHANGED <<tab, disk>>

Failed(m) ==
  LET x == tab[m.tab]
  IN  CASE m.kind = "load"   -> Settle(m.tab, [SignedOut(x) EXCEPT !.loading = FALSE])
        [] m.kind = "call"   -> Settle(m.tab, [SignedOut(x) EXCEPT !.leaving = TRUE])
        [] m.kind = "logout" -> Settle(m.tab, SignedOut(x))
        [] OTHER             -> UNCHANGED <<tab, disk>>

Succeeded(m) ==
  LET x == [tab[m.tab] EXCEPT !.token = TRUE, !.timer = now]
  IN  CASE m.kind = "load"  -> Settle(m.tab, [x EXCEPT !.auth = TRUE, !.loading = FALSE])
        [] m.kind = "login" -> Settle(m.tab, [x EXCEPT !.auth = TRUE, !.user = TRUE])
        [] m.kind = "logout" -> Settle(m.tab, SignedOut(tab[m.tab]))
        [] OTHER            -> Settle(m.tab, x)

Handle(m, ok) ==
  IF m.tab = None THEN UNCHANGED <<tab, disk>>
  ELSE IF ok THEN Succeeded(m) ELSE Failed(m)

\* Faulty variant: the answer to a refresh does not set the cookie.
DeliverWithoutCookie(m) ==
  /\ m.phase = "answered"
  /\ cookie' = IF m.ok /\ m.kind \in {"login", "logout"} THEN m.result ELSE cookie
  /\ Handle(m, m.ok)
  /\ net' = net \ {m}
  /\ UNCHANGED <<stored, code, now, acts, seen>>

\* res.cookie, res.clearCookie, then the code waiting for the answer.
Deliver(m) ==
  /\ m.phase = "answered"
  /\ cookie' = IF m.ok THEN m.result ELSE cookie
  /\ Handle(m, m.ok)
  /\ net' = net \ {m}
  /\ UNCHANGED <<stored, code, now, acts, seen>>

\* The request does not arrive, or its answer does not.
Lose(m) ==
  /\ Act /\ m.phase # "read"
  /\ Handle(m, FALSE)
  /\ net' = net \ {m}
  /\ seen' = [seen EXCEPT !.race = @ \/ m.ok]
  /\ UNCHANGED <<stored, cookie, code, now>>

Tick == now < MaxTime /\ now' = now + 1 /\ UNCHANGED <<stored, cookie, code, disk, tab, net, acts, seen>>

-----------------------------------------------------------------------------
Serve(m) == ReadToken(m) \/ RotateToken(m) \/ AcceptLogin(m) \/ AcceptLogout(m)

Next ==
  \/ \E t \in Tabs : \/ Load(t) \/ Redirect(t) \/ Navigate(t) \/ Unauthorized(t) \/ TimerFires(t)
                     \/ SubmitLogin(t) \/ SubmitLogout(t) \/ ExchangeCode(t)
  \/ \E m \in net : Serve(m) \/ Deliver(m) \/ Lose(m)
  \/ OAuthCallback \/ ExpireCode \/ Elsewhere \/ Tick

Spec == Init /\ [][Next]_vars

\* The server handles what arrives, the browser what is answered, and a page
\* that sets location.href is left.
FairSpec ==
  /\ Spec
  /\ WF_vars(\E m \in net : Serve(m) \/ Deliver(m))
  /\ \A t \in Tabs : WF_vars(Redirect(t))

-----------------------------------------------------------------------------
\* While no two requests that touch the token overlap, no answer is lost and
\* nobody signs in elsewhere, the browser's cookie is the stored token
\* whenever nothing is under way, across reloads, redirects, timers, sign-ins
\* and sign-outs in any tab, and no token is revoked as reused
\* (auth.controller refresh, login, logout; refreshToken, TOKEN_REUSE).
SessionContinues ==
  ~seen.race => ~seen.revoked /\ (net = {} /\ code = None => cookie = stored)

\* A tab is authenticated exactly when it has a user, which ProtectedRoute
\* relies on to check roles, unless requests overlapped, an answer was lost or
\* somebody signed in elsewhere (race); and its socket is open only while it is
\* authenticated with a token and shows the layout (authStore, Layout).
TabConsistent ==
  \A t \in Tabs :
    /\ ~seen.race => tab[t].auth = tab[t].user
    /\ tab[t].socket => tab[t].auth /\ tab[t].token /\ tab[t].layout

\* The loader that ProtectedRoute shows during the page-load refresh goes,
\* and a page that redirects to the sign-in form gets there.
PageSettles == \A t \in Tabs : []<>(~tab[t].loading /\ ~tab[t].leaving)
=============================================================================
