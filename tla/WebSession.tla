---------------------------- MODULE WebSession ----------------------------
(***************************************************************************)
(* The session of the web client against the cookie authentication of the  *)
(* API.  The browser keeps the two token cookies (jar); the page keeps the *)
(* auth store, of which a part survives a reload in localStorage, and the  *)
(* response interceptor of api/client.ts, which turns a 401 into one call  *)
(* of the refresh endpoint for all the requests that meet it.              *)
(*                                                                         *)
(* A call carries the cookies of the moment it is sent; its answer is one  *)
(* step: the server's handler, the cookies of its response and the code    *)
(* that awaits it.  A call takes 15 s at most and the access cookie lives  *)
(* for an hour: one that is sent with a live cookie is authenticated.      *)
(***************************************************************************)
EXTENDS Naturals, FiniteSets

CONSTANTS Users, Admins,   \* Admins may impersonate
          Requests,        \* data requests of the pages
          MaxInFlight,     \* bound on the user's calls in flight at a time
          None

ASSUME WebAssumption ==
    /\ Admins \subseteq Users
    /\ None \notin Users
    /\ MaxInFlight \in Nat

\* Calls of /api/auth/ pass the interceptor untouched, the others do not.
AuthCalls == {"token", "restore", "refresh", "logout", "giveup"}
StoreCalls == {"me", "impersonate", "stop", "profile"}
Intercepted == StoreCalls \union Requests
Calls == AuthCalls \union Intercepted

\* Calls that change the cookies or the store.
IdentityCalls == AuthCalls \union StoreCalls

VARIABLES jar,          \* the cookies: whose, impersonated by whom, which are there
          store,        \* the persisted part of useAuthStore
          accessToken,  \* the user of the token in memory
          authReady,
          flight,       \* per call: the cookies it was sent with, None when it is not out
          loginToken,   \* the user of the token that login() has obtained
          before,       \* currentUser of impersonate()
          isRefreshing, pendingQueue,
          owner,        \* the request whose handler refreshes
          retried,      \* the requests with _retry
          path,         \* the page shown
          leaving,      \* the page window.location was set to, "no" otherwise
          crossed       \* two identity calls were out at once, or login ended half way

handler == <<isRefreshing, pendingQueue, owner, retried>>
page    == <<store, accessToken, authReady, path>>
webVars == <<jar, store, accessToken, authReady, flight, loginToken, before, isRefreshing,
             pendingQueue, owner, retried, path, leaving, crossed>>

Nobody == Users \union {None}
Cookies == [sub : Nobody, by : Nobody, access : BOOLEAN, refresh : {"none", "live", "revoked"}]
Store == [user : Nobody, isAuthenticated : BOOLEAN, isImpersonating : BOOLEAN, originalUser : Nobody]

\* No request has the name of another call; None is neither a call nor cookies.
ASSUME WebNames ==
    /\ Requests \cap (AuthCalls \union StoreCalls) = {}
    /\ None \notin Calls /\ None \notin Cookies

WebTypeOK ==
    /\ jar \in Cookies
    /\ store \in Store
    /\ accessToken \in Nobody /\ loginToken \in Nobody /\ before \in Nobody
    /\ authReady \in BOOLEAN /\ isRefreshing \in BOOLEAN /\ crossed \in BOOLEAN
    /\ flight \in [Calls -> Cookies \union {None}]
    /\ pendingQueue \subseteq Intercepted /\ retried \subseteq Intercepted
    /\ owner \in Intercepted \union {None}
    /\ path \in {"landing", "login", "app"}
    /\ leaving \in {"no", "login", "app"}

NoCookies == [sub |-> None, by |-> None, access |-> FALSE, refresh |-> "none"]

\* Mutant: the user's id in the place of the access cookie.
IssueMisplaced(u, b) == [sub |-> u, by |-> b, access |-> u, refresh |-> "live"]

\* _set_token_cookies for a fresh pair of tokens.
Issue(u, b) == [sub |-> u, by |-> b, access |-> TRUE, refresh |-> "live"]

\* What clearAuth, logout and a failed restore put into the store.
SignedOut == [user |-> None, isAuthenticated |-> FALSE, isImpersonating |-> FALSE,
              originalUser |-> None]

WebInit ==
    /\ jar = NoCookies
    /\ store = SignedOut
    /\ accessToken = None /\ loginToken = None /\ before = None
    /\ authReady = TRUE
    /\ flight = [c \in Calls |-> None]
    /\ isRefreshing = FALSE /\ pendingQueue = {} /\ owner = None /\ retried = {}
    /\ path = "landing"
    /\ leaving = "no"
    /\ crossed = FALSE

Out(c) == flight[c] # None
Open(c) == Out(c) \/ c \in pendingQueue \/ c = owner

---------------------------------------------------------------------------
(* Helpers                                                                 *)

\* The answered call done is in, and the calls of S go out with cookies j.
Send(done, S, j) ==
    /\ flight' = [c \in Calls |-> IF c \in S THEN j
                                  ELSE IF c = done THEN None ELSE flight[c]]
    /\ crossed' = (crossed \/ Cardinality({c \in IdentityCalls : flight'[c] # None}) > 1)

\* ProtectedRoute and LandingRoute: the page shown for the address p.
Shown(p, authenticated, ready) ==
    CASE p = "app" /\ ~authenticated -> "login"
      [] p = "landing" /\ authenticated /\ ready -> "app"
      [] OTHER -> p

\* A set() of the store, the effect of AuthRestorer on it, and the guards of
\* the page p.
SetStore(s, token, p) ==
    /\ store' = s
    /\ accessToken' = token
    /\ authReady' = (authReady \/ ~s.isAuthenticated \/ token # None)
    /\ path' = Shown(p, s.isAuthenticated, authReady')

\* The local variables of login() and impersonate() live as long as the call
\* they await.
Locals(token, user) ==
    /\ loginToken' = IF Open("me")' THEN token ELSE None
    /\ before' = IF Open("impersonate")' THEN user ELSE None

\* A call of the user's.
UserCall(c, p) ==
    /\ path = p /\ leaving = "no"
    /\ ~Open(c)
    /\ Cardinality({d \in Calls : Open(d)}) < MaxInFlight
    /\ Send(None, {c}, jar)

\* The page is loaded at the address p: the memory is gone, and AuthRestorer
\* asks for an access token when localStorage says somebody is signed in.
LoadPage(p) ==
    /\ flight' = [c \in Calls |-> IF c = "restore" /\ store.isAuthenticated THEN jar ELSE None]
    /\ accessToken' = None
    /\ authReady' = ~store.isAuthenticated
    /\ isRefreshing' = FALSE /\ pendingQueue' = {} /\ owner' = None /\ retried' = {}
    /\ loginToken' = None /\ before' = None
    /\ path' = Shown(p, store.isAuthenticated, authReady')
    /\ leaving' = "no"
    /\ crossed' = (crossed \/ Open("me"))
    /\ UNCHANGED <<jar, store>>

\* CookieTokenRefreshView for the cookies c.  Without an access cookie the
\* default permission refuses the call before the view runs.  The rotation
\* renames the token first and blacklists it then: the token it hands out.
RefreshGranted(c) == c.access /\ c.refresh = "live"
RefreshedJar(c) ==
    CASE RefreshGranted(c) -> [c EXCEPT !.refresh = "revoked"]
      [] c.access /\ c.refresh = "revoked" -> NoCookies
      [] OTHER -> jar

\* CookieTokenLogoutView: authenticated callers only.  The refresh cookie is
\* not sent to it, so that its token stays valid.
LoggedOutJar(c) == IF c.access THEN NoCookies ELSE jar

---------------------------------------------------------------------------
(* The user                                                                *)

SubmitLogin ==
    /\ ~Open("me")
    /\ UserCall("token", "login")
    /\ UNCHANGED <<jar, page, loginToken, before, handler, leaving>>

ClickLogout ==
    /\ UserCall("logout", "app")
    /\ UNCHANGED <<jar, page, loginToken, before, handler, leaving>>

ClickImpersonate ==
    /\ UserCall("impersonate", "app")
    /\ before' = store.user
    /\ UNCHANGED <<jar, page, loginToken, handler, leaving>>

ClickStop ==
    /\ store.isImpersonating
    /\ UserCall("stop", "app")
    /\ UNCHANGED <<jar, page, loginToken, before, handler, leaving>>

SaveProfile ==
    /\ UserCall("profile", "app")
    /\ UNCHANGED <<jar, page, loginToken, before, handler, leaving>>

PageRequest(r) ==
    /\ UserCall(r, "app")
    /\ UNCHANGED <<jar, page, loginToken, before, handler, leaving>>

\* Back, or a link: the page changes, the calls stay out.
GoTo(p) ==
    /\ leaving = "no"
    /\ path' = Shown(p, store.isAuthenticated, authReady)
    /\ UNCHANGED <<jar, store, accessToken, authReady, flight, loginToken, before, handler,
                   leaving, crossed>>

Reload(p) == leaving = "no" /\ LoadPage(p)

\* window.location.href takes effect.
Unload == leaving # "no" /\ LoadPage(leaving)

AccessExpires ==
    /\ jar.access
    /\ jar' = [jar EXCEPT !.access = FALSE]
    /\ UNCHANGED <<page, flight, loginToken, before, handler, leaving, crossed>>

---------------------------------------------------------------------------
(* The answers of /api/auth/                                               *)

\* login(), first half: the cookies are those of u, and getMe goes out.
TokenIssued(u) ==
    /\ Out("token")
    /\ jar' = Issue(u, None)
    /\ loginToken' = u
    /\ Send("token", {"me"}, jar')
    /\ UNCHANGED <<page, before, handler, leaving>>

TokenRefused ==
    /\ Out("token")
    /\ Send("token", {}, jar)
    /\ UNCHANGED <<jar, page, handler, leaving>>
    /\ Locals(loginToken, before)

\* Mutant: the page is ready only when the token was restored.
RestoreAnsweredWhenGranted(lost) ==
    LET c == flight["restore"]
        granted == ~lost /\ RefreshGranted(c)
        s == IF granted THEN store ELSE SignedOut
    IN  /\ Out("restore")
        /\ jar' = IF lost THEN jar ELSE RefreshedJar(c)
        /\ store' = s
        /\ accessToken' = IF granted THEN c.sub ELSE None
        /\ authReady' = granted
        /\ path' = Shown(path, s.isAuthenticated, granted)
        /\ Send("restore", {}, jar)
        /\ UNCHANGED <<handler, leaving>>
        /\ Locals(loginToken, before)

\* restoreAccessToken: granted, or refused, or (lost) without an answer.
RestoreAnswered(lost) ==
    LET c == flight["restore"]
        granted == ~lost /\ RefreshGranted(c)
        s == IF granted THEN store ELSE SignedOut
    IN  /\ Out("restore")
        /\ jar' = IF lost THEN jar ELSE RefreshedJar(c)
        /\ store' = s
        /\ accessToken' = IF granted THEN c.sub ELSE None
        /\ authReady' = TRUE
        /\ path' = Shown(path, s.isAuthenticated, TRUE)
        /\ Send("restore", {}, jar)
        /\ UNCHANGED <<handler, leaving>>
        /\ Locals(loginToken, before)

\* logout(): the store is emptied whatever the server said.
LogoutAnswered(lost) ==
    /\ Out("logout")
    /\ jar' = IF lost THEN jar ELSE LoggedOutJar(flight["logout"])
    /\ SetStore(SignedOut, None, "login")
    /\ Send("logout", {}, jar)
    /\ UNCHANGED <<handler, leaving>>
    /\ Locals(loginToken, before)

\* The interceptor's refresh: the waiting requests and its own are sent
\* again with the new cookies.
RefreshOk ==
    LET c == flight["refresh"]
    IN  /\ Out("refresh")
        /\ RefreshGranted(c)
        /\ jar' = RefreshedJar(c)
        /\ Send("refresh", pendingQueue \union {owner}, jar')
        /\ pendingQueue' = {}
        /\ owner' = None
        /\ isRefreshing' = FALSE
        /\ UNCHANGED <<page, retried, leaving>>
        /\ Locals(loginToken, before)

\* Mutant: the store is not emptied.
RefreshFailedSignedIn(lost) ==
    LET c == flight["refresh"]
    IN  /\ Out("refresh")
        /\ lost \/ ~RefreshGranted(c)
        /\ jar' = IF lost THEN jar ELSE RefreshedJar(c)
        /\ Send("refresh", {"giveup"}, jar')
        /\ retried' = retried \ pendingQueue
        /\ pendingQueue' = {}
        /\ UNCHANGED <<page, owner, isRefreshing, leaving>>
        /\ Locals(loginToken, before)

\* It fails: the waiting requests are rejected, the store is emptied, and the
\* cookies are to be cleared by the logout endpoint.
RefreshFailed(lost) ==
    LET c == flight["refresh"]
    IN  /\ Out("refresh")
        /\ lost \/ ~RefreshGranted(c)
        /\ jar' = IF lost THEN jar ELSE RefreshedJar(c)
        /\ SetStore(SignedOut, None, path)
        /\ Send("refresh", {"giveup"}, jar')
        /\ retried' = retried \ pendingQueue
        /\ pendingQueue' = {}
        /\ UNCHANGED <<owner, isRefreshing, leaving>>
        /\ Locals(loginToken, before)

\* Mutant: the page is not left.
GiveUpStays(lost) ==
    /\ Out("giveup")
    /\ jar' = IF lost THEN jar ELSE LoggedOutJar(flight["giveup"])
    /\ Send("giveup", {}, jar)
    /\ retried' = retried \ {owner}
    /\ owner' = None
    /\ isRefreshing' = FALSE
    /\ UNCHANGED <<page, pendingQueue, leaving>>
    /\ Locals(loginToken, before)

\* Cleared or not, the page goes to /login and the request is rejected.
GiveUpAnswered(lost) ==
    /\ Out("giveup")
    /\ jar' = IF lost THEN jar ELSE LoggedOutJar(flight["giveup"])
    /\ Send("giveup", {}, jar)
    /\ retried' = retried \ {owner}
    /\ owner' = None
    /\ isRefreshing' = FALSE
    /\ leaving' = "login"
    /\ UNCHANGED <<page, pendingQueue>>
    /\ Locals(loginToken, before)

---------------------------------------------------------------------------
(* The answers of the intercepted calls                                    *)

\* CookieJWTAuthentication: the cookie, else the Bearer token getMe carries.
Caller(c) ==
    CASE flight[c].access -> flight[c].sub
      [] c = "me" -> loginToken
      [] OTHER -> None

\* A 401: rejected when it was a retry, else it waits for the refresh under
\* way, else it starts one.
Unauthorized(c) ==
    /\ Out(c) /\ Caller(c) = None
    /\ \/ /\ c \in retried
          /\ retried' = retried \ {c}
          /\ Send(c, {}, jar)
          /\ UNCHANGED <<isRefreshing, pendingQueue, owner>>
       \/ /\ c \notin retried /\ isRefreshing
          /\ pendingQueue' = pendingQueue \union {c}
          /\ Send(c, {}, jar)
          /\ UNCHANGED <<isRefreshing, owner, retried>>
       \/ /\ c \notin retried /\ ~isRefreshing
          /\ retried' = retried \union {c}
          /\ isRefreshing' = TRUE
          /\ owner' = c
          /\ Send(c, {"refresh"}, jar)
          /\ UNCHANGED pendingQueue
    /\ UNCHANGED <<jar, page, leaving>>
    /\ Locals(loginToken, before)

\* Any other failure is passed on.  login() then leaves the cookies of the
\* one user with the store of the other.
Failed(c) ==
    /\ Out(c)
    /\ flight' = [flight EXCEPT ![c] = None]
    /\ retried' = retried \ {c}
    /\ crossed' = (crossed \/ c = "me")
    /\ UNCHANGED <<jar, page, isRefreshing, pendingQueue, owner, leaving>>
    /\ Locals(loginToken, before)

\* Answered with the caller's own data; nothing else of the handler changes.
Answered(c) ==
    /\ Out(c) /\ Caller(c) # None
    /\ Send(c, {}, jar)
    /\ retried' = retried \ {c}
    /\ UNCHANGED <<isRefreshing, pendingQueue, owner>>
    /\ Locals(loginToken, before)

RequestAnswered(r) ==
    /\ Answered(r)
    /\ UNCHANGED <<jar, page, leaving>>

\* login(), second half, and Login.tsx's navigation.
MeAnswered ==
    /\ Answered("me")
    /\ SetStore([user |-> Caller("me"), isAuthenticated |-> TRUE, isImpersonating |-> FALSE,
                 originalUser |-> None], loginToken, "app")
    /\ UNCHANGED <<jar, leaving>>

\* ImpersonateUserView and impersonate(), for the target t.
ImpersonateAnswered(t) ==
    LET u == Caller("impersonate")
    IN  /\ Answered("impersonate")
        /\ u \in Admins /\ t # u
        /\ jar' = Issue(t, u)
        /\ SetStore([store EXCEPT !.user = t, !.isImpersonating = TRUE,
                                  !.originalUser = before], t, "app")
        /\ UNCHANGED leaving

\* Mutant: the response sets no cookies.
StopAnsweredWithoutCookies ==
    LET u == flight["stop"].by
    IN  /\ Answered("stop")
        /\ u # None
        /\ SetStore([store EXCEPT !.user = u, !.isImpersonating = FALSE,
                                  !.originalUser = None], u, path)
        /\ leaving' = "app"
        /\ UNCHANGED jar

\* StopImpersonationView, stopImpersonating() and the banner's navigation.
StopAnswered ==
    LET u == flight["stop"].by
    IN  /\ Answered("stop")
        /\ u # None
        /\ jar' = Issue(u, None)
        /\ SetStore([store EXCEPT !.user = u, !.isImpersonating = FALSE,
                                  !.originalUser = None], u, path)
        /\ leaving' = "app"

\* saveProfile() of the settings page.
ProfileAnswered ==
    /\ Answered("profile")
    /\ SetStore([store EXCEPT !.user = Caller("profile"), !.isAuthenticated = TRUE],
                accessToken, path)
    /\ UNCHANGED <<jar, leaving>>

---------------------------------------------------------------------------
\* The step that brings the answer of call c.
Answer(c) ==
    \/ c = "token" /\ (TokenRefused \/ \E u \in Users : TokenIssued(u))
    \/ c = "restore" /\ \E lost \in BOOLEAN : RestoreAnswered(lost)
    \/ c = "logout" /\ \E lost \in BOOLEAN : LogoutAnswered(lost)
    \/ c = "refresh" /\ (RefreshOk \/ \E lost \in BOOLEAN : RefreshFailed(lost))
    \/ c = "giveup" /\ \E lost \in BOOLEAN : GiveUpAnswered(lost)
    \/ c = "me" /\ MeAnswered
    \/ c = "impersonate" /\ \E t \in Users : ImpersonateAnswered(t)
    \/ c = "stop" /\ StopAnswered
    \/ c = "profile" /\ ProfileAnswered
    \/ c \in Requests /\ RequestAnswered(c)
    \/ c \in Intercepted /\ (Unauthorized(c) \/ Failed(c))

WebNext ==
    \/ SubmitLogin \/ ClickLogout \/ ClickImpersonate \/ ClickStop \/ SaveProfile
    \/ \E r \in Requests : PageRequest(r)
    \/ \E p \in {"landing", "login", "app"} : GoTo(p) \/ Reload(p)
    \/ Unload
    \/ AccessExpires
    \/ \E c \in Calls : Answer(c)

\* Every call of apiClient, and the refresh, ends by its answer or after 15 s;
\* the sign-out of the interceptor that gives up has no timeout and may hang.
\* A page that was told to leave is left.  Nobody has to click, and no cookie
\* has to expire.
WebFairness ==
    /\ \A c \in Calls \ {"giveup"} : WF_webVars(Answer(c))
    /\ WF_webVars(Unload)

WebSpec == WebInit /\ [][WebNext]_webVars /\ WebFairness

---------------------------------------------------------------------------
(* Properties                                                              *)

\* drainQueue forgets nobody: a request waits for a refresh only while the
\* interceptor is at one, or on a page that is being left.  A request that is
\* refused between the drain of a failed refresh and the end of the logout
\* call still joins the queue; only leaving the page ends its wait.
NoWaiterForgotten == pendingQueue # {} => isRefreshing \/ leaving # "no"

\* The page shows the user the server answers for.  As long as no two calls
\* that change the session were out at once and no login ended half way, a
\* signed-in page at rest with a live access cookie shows the cookie's user,
\* its impersonation banner tells who is behind it, and the token in memory,
\* if there is one, is of the same user: across reloads, restores, expiry,
\* sign-outs of either kind and impersonation there and back.
StoreAgreesWithCookies ==
    (/\ ~crossed /\ store.isAuthenticated /\ jar.access /\ leaving = "no"
     /\ \A c \in IdentityCalls : ~Open(c))
    => /\ store.user = jar.sub
       /\ store.isImpersonating = (jar.by # None)
       /\ store.originalUser = jar.by
       /\ accessToken \in {None, jar.sub}

\* Once the interceptor has given the session up, the store says so until the
\* page is left, so that no route sends the user back into the application.
GivenUpIsSignedOut ==
    (~crossed /\ (Out("giveup") \/ leaving = "login")) => ~store.isAuthenticated /\ path # "app"

\* Nothing the page awaits hangs: a call is answered, retried to an answer,
\* rejected, or its page is left, whatever refresh it had to wait for; unless
\* the sign-out of an interceptor that gave up hangs for ever, while every
\* further refusal joins the queue.
EveryRequestSettles ==
    []<>~Out("giveup") => \A c \in Intercepted : Open(c) ~> ~Open(c)

\* The landing page does not wait for ever for the restoration of the token.
LandingOpens == ~authReady ~> authReady

\* What settings.py promises of the rotation: the refresh cookie the browser
\* holds is the token that was issued last, and it is valid.
RefreshCookieIsUsable == jar.refresh # "revoked"
============================================================================
