-------------------------- MODULE WebSessionProofs --------------------------
(***************************************************************************)
(* Theorems about WebSession, for any users, administrators, requests and  *)
(* number of calls in flight.                                              *)
(***************************************************************************)
EXTENDS WebSession, FiniteSetTheorems, TLAPS

\* isRefreshing, the owner and the calls of the interceptor tell the same
\* story, and it is at one of its two calls at a time.
Refresher ==
    /\ isRefreshing <=> owner # None
    /\ isRefreshing <=> Out("refresh") \/ Out("giveup")
    /\ ~(Out("refresh") /\ Out("giveup"))

\* While getMe is out, login() has the token of a user, whose Bearer header
\* keeps getMe from ever being refused: it never meets the refresh.
LoginAwaits ==
    /\ Out("me") => /\ loginToken \in Users /\ flight["me"].sub = loginToken
                   /\ ~Out("token")
    /\ "me" \notin pendingQueue /\ owner # "me"

\* ProtectedRoute: the application is shown to the signed-in only.
AppIsSignedIn == path = "app" => store.isAuthenticated

\* AuthRestorer: a page that is not ready has its restoration under way.
Restoring == authReady \/ Out("restore")

\* The handler of c runs: its call is out, or it owns the refresh under way.
Runs(c) == Out(c) \/ (owner = c /\ Out("refresh"))

\* What is true until two identity calls cross.  One is out at a time, and
\* none waits for a refresh:
Alone ==
    /\ \A c, d \in IdentityCalls : Out(c) /\ Out(d) => c = d
    /\ \A c \in IdentityCalls : c \notin pendingQueue

\* the cookies have not changed hands since it was sent:
SentAsNow ==
    \A c \in IdentityCalls : Out(c) => flight[c].sub = jar.sub /\ flight[c].by = jar.by

\* the calls of a signed-in page run on a signed-in page, and what login() and
\* impersonate() remember is the user of the cookies:
SignedInCalls ==
    /\ \A c \in StoreCalls \ {"me"} : Runs(c) => store.isAuthenticated
    /\ Runs("impersonate") => before = jar.sub
    /\ Out("me") => jar.sub = loginToken /\ jar.by = None

\* but for the second half of login(), the store is that of the cookies:
Agreement ==
    store.isAuthenticated /\ ~Out("me") =>
        /\ store.user = jar.sub
        /\ store.isImpersonating = (jar.by # None)
        /\ store.originalUser = jar.by
        /\ accessToken \in {None, jar.sub}

\* and a session that was given up stays so: nobody signs in meanwhile.
GivenUp ==
    /\ Out("giveup") \/ leaving = "login" => ~store.isAuthenticated
    /\ leaving = "login" => ~Out("token") /\ ~Out("me")

Calm == Alone /\ SentAsNow /\ SignedInCalls /\ Agreement /\ GivenUp

WebInv ==
    /\ WebTypeOK
    /\ Refresher /\ NoWaiterForgotten /\ LoginAwaits /\ AppIsSignedIn /\ Restoring
    /\ ~crossed => Calm

---------------------------------------------------------------------------
(* The operators                                                           *)

LEMMA IdentityCallsFinite == IsFiniteSet(IdentityCalls)
  <1>1. IsFiniteSet(AuthCalls)
    <2>1. IsFiniteSet((((({} \union {"token"}) \union {"restore"}) \union {"refresh"})
                        \union {"logout"}) \union {"giveup"})
      BY FS_EmptySet, FS_AddElement
    <2> QED
      BY <2>1 DEF AuthCalls
  <1>2. IsFiniteSet(StoreCalls)
    <2>1. IsFiniteSet(((({} \union {"me"}) \union {"impersonate"}) \union {"stop"})
                        \union {"profile"})
      BY FS_EmptySet, FS_AddElement
    <2> QED
      BY <2>1 DEF StoreCalls
  <1> QED
    BY <1>1, <1>2, FS_Union DEF IdentityCalls

\* The test of crossed: a set of at most one identity call has one member.
LEMMA AtMostOne ==
    ASSUME NEW T \in SUBSET IdentityCalls, ~(Cardinality(T) > 1)
    PROVE  \A c, d \in T : c = d
  <1> SUFFICES ASSUME NEW c \in T, NEW d \in T, c # d
               PROVE  FALSE
    OBVIOUS
  <1>1. IsFiniteSet(T) /\ Cardinality(T) \in Nat
    BY IdentityCallsFinite, FS_Subset, FS_CardinalityType
  <1>2. IsFiniteSet({c}) /\ Cardinality({c}) = 1
    BY FS_Singleton
  <1>3. Cardinality({c} \union {d}) = 2
    <2>1. d \notin {c}
      OBVIOUS
    <2>2. Cardinality({c} \union {d}) = Cardinality({c}) + 1
      BY <1>2, <2>1, FS_AddElement
    <2> QED
      BY <1>2, <2>2
  <1>4. Cardinality({c} \union {d}) <= Cardinality(T)
    BY <1>1, FS_Subset
  <1> QED
    BY <1>1, <1>3, <1>4

\* What Send does to the calls.
LEMMA SendFacts ==
    ASSUME WebTypeOK, NEW done, NEW S \in SUBSET Calls, NEW j \in Cookies, Send(done, S, j)
    PROVE  /\ flight' \in [Calls -> Cookies \union {None}]
           /\ crossed' \in BOOLEAN
           /\ \A c \in Calls : flight'[c] = IF c \in S THEN j
                                            ELSE IF c = done THEN None ELSE flight[c]
           /\ \A c \in Calls : flight'[c] # None <=> c \in S \/ (c # done /\ flight[c] # None)
           /\ ~crossed' => /\ ~crossed
                           /\ \A c, d \in IdentityCalls :
                                flight'[c] # None /\ flight'[d] # None => c = d
  <1>1. \A c \in Calls : flight'[c] = IF c \in S THEN j
                                      ELSE IF c = done THEN None ELSE flight[c]
    BY DEF Send
  <1>2. flight' \in [Calls -> Cookies \union {None}]
    BY DEF Send, WebTypeOK
  <1>3. \A c \in Calls : flight'[c] # None <=> c \in S \/ (c # done /\ flight[c] # None)
    BY <1>1, WebNames
  <1>4. crossed' \in BOOLEAN
    BY DEF Send
  <1>5. ASSUME ~crossed'
        PROVE  /\ ~crossed
               /\ \A c, d \in IdentityCalls : flight'[c] # None /\ flight'[d] # None => c = d
    <2> DEFINE T == {c \in IdentityCalls : flight'[c] # None}
    <2>1. ~crossed /\ ~(Cardinality(T) > 1)
      BY <1>5 DEF Send
    <2>2. \A c, d \in T : c = d
      BY <2>1, AtMostOne
    <2> QED
      BY <2>1, <2>2
  <1> QED
    BY <1>1, <1>2, <1>3, <1>4, <1>5

Pages == {"landing", "login", "app"}

\* The guards of the routes show the application to the signed-in only.
LEMMA ShownFacts ==
    ASSUME NEW p \in Pages, NEW a \in BOOLEAN, NEW r \in BOOLEAN
    PROVE  Shown(p, a, r) \in Pages /\ (Shown(p, a, r) = "app" => a)
  BY DEF Shown, Pages

LEMMA SetStoreFacts ==
    ASSUME WebTypeOK, NEW s \in Store, NEW token \in Nobody, NEW p \in Pages,
           SetStore(s, token, p)
    PROVE  /\ store' = s /\ accessToken' = token
           /\ authReady' \in BOOLEAN /\ (authReady => authReady')
           /\ path' \in Pages /\ (path' = "app" => s.isAuthenticated)
  <1>1. authReady' \in BOOLEAN /\ (authReady => authReady')
    BY DEF SetStore, WebTypeOK
  <1>2. s.isAuthenticated \in BOOLEAN
    BY DEF Store
  <1> QED
    BY <1>1, <1>2, ShownFacts DEF SetStore

LEMMA LocalsFacts ==
    ASSUME NEW token \in Nobody, NEW user \in Nobody, Locals(token, user)
    PROVE  /\ loginToken' \in Nobody /\ before' \in Nobody
           /\ flight'["me"] # None => loginToken' = token
           /\ flight'["impersonate"] # None \/ owner' = "impersonate" => before' = user
  BY DEF Locals, Open, Out, Nobody

\* Cookies stay cookies, of the same user, when one of them dies.
LEMMA CookieFacts ==
    ASSUME NEW c \in Cookies
    PROVE  /\ [c EXCEPT !.refresh = "revoked"] \in Cookies
           /\ [c EXCEPT !.refresh = "revoked"].sub = c.sub
           /\ [c EXCEPT !.refresh = "revoked"].by = c.by
           /\ [c EXCEPT !.access = FALSE] \in Cookies
           /\ [c EXCEPT !.access = FALSE].sub = c.sub
           /\ [c EXCEPT !.access = FALSE].by = c.by
  <1>1. c = [sub |-> c.sub, by |-> c.by, access |-> c.access, refresh |-> c.refresh]
    BY DEF Cookies
  <1>2. /\ c.sub \in Nobody /\ c.by \in Nobody /\ c.access \in BOOLEAN
        /\ c.refresh \in {"none", "live", "revoked"}
    BY DEF Cookies
  <1>3. [c EXCEPT !.refresh = "revoked"]
          = [sub |-> c.sub, by |-> c.by, access |-> c.access, refresh |-> "revoked"]
    BY <1>1
  <1>4. [sub |-> c.sub, by |-> c.by, access |-> c.access, refresh |-> "revoked"] \in Cookies
    BY <1>2 DEF Cookies
  <1>5. [c EXCEPT !.access = FALSE]
          = [sub |-> c.sub, by |-> c.by, access |-> FALSE, refresh |-> c.refresh]
    <2>1. \A a : [c EXCEPT !.access = a]
                  = [sub |-> c.sub, by |-> c.by, access |-> a, refresh |-> c.refresh]
      BY <1>1
    <2> QED
      BY <2>1, Zenon
  <1>6. [sub |-> c.sub, by |-> c.by, access |-> FALSE, refresh |-> c.refresh] \in Cookies
    BY <1>2 DEF Cookies
  <1> QED
    BY <1>3, <1>4, <1>5, <1>6

\* Every answer leaves cookies, and a granted refresh leaves them with the
\* user they were of.
LEMMA JarFacts ==
    ASSUME WebTypeOK
    PROVE  /\ NoCookies \in Cookies
           /\ \A u, b \in Nobody : Issue(u, b) \in Cookies
           /\ \A c \in Cookies : RefreshedJar(c) \in Cookies /\ LoggedOutJar(c) \in Cookies
           /\ \A c \in Cookies : RefreshGranted(c) => /\ RefreshedJar(c).sub = c.sub
                                                      /\ RefreshedJar(c).by = c.by
  <1>1. NoCookies \in Cookies
    BY DEF NoCookies, Cookies, Nobody
  <1>2. \A u, b \in Nobody : Issue(u, b) \in Cookies
    BY DEF Issue, Cookies
  <1>3. jar \in Cookies
    BY DEF WebTypeOK
  <1>4. \A c \in Cookies : LoggedOutJar(c) \in Cookies
    BY <1>1, <1>3 DEF LoggedOutJar
  <1>5. \A c \in Cookies : /\ [c EXCEPT !.refresh = "revoked"] \in Cookies
                          /\ [c EXCEPT !.refresh = "revoked"].sub = c.sub
                          /\ [c EXCEPT !.refresh = "revoked"].by = c.by
    BY CookieFacts
  <1>6. \A c \in Cookies : RefreshedJar(c) \in Cookies
    BY <1>1, <1>3, <1>5 DEF RefreshedJar
  <1>7. \A c \in Cookies : RefreshGranted(c) => /\ RefreshedJar(c).sub = c.sub
                                                /\ RefreshedJar(c).by = c.by
    <2> SUFFICES ASSUME NEW c \in Cookies, RefreshGranted(c)
                 PROVE  RefreshedJar(c).sub = c.sub /\ RefreshedJar(c).by = c.by
      OBVIOUS
    <2>1. RefreshedJar(c) = [c EXCEPT !.refresh = "revoked"]
      BY DEF RefreshedJar, RefreshGranted
    <2> QED
      BY <1>5, <2>1, Zenon
  <1> QED
    BY <1>1, <1>2, <1>4, <1>6, <1>7

\* The updates of the store in impersonate() and stopImpersonating(), and in
\* saveProfile(), field by field.
LEMMA StoreExcept ==
    ASSUME NEW s \in Store, NEW a, NEW b, NEW d
    PROVE  [s EXCEPT !.user = a, !.isImpersonating = b, !.originalUser = d]
             = [user |-> a, isAuthenticated |-> s.isAuthenticated,
                isImpersonating |-> b, originalUser |-> d]
  <1> DEFINE r1 == [user |-> a, isAuthenticated |-> s.isAuthenticated,
                    isImpersonating |-> s.isImpersonating, originalUser |-> s.originalUser]
             r2 == [user |-> a, isAuthenticated |-> s.isAuthenticated,
                    isImpersonating |-> b, originalUser |-> s.originalUser]
             r3 == [user |-> a, isAuthenticated |-> s.isAuthenticated,
                    isImpersonating |-> b, originalUser |-> d]
  <1>1. [s EXCEPT !.user = a] = r1
    <2>1. s = [user |-> s.user, isAuthenticated |-> s.isAuthenticated,
               isImpersonating |-> s.isImpersonating, originalUser |-> s.originalUser]
      BY DEF Store
    <2> QED
      BY <2>1
  <1>2. [r1 EXCEPT !.isImpersonating = b] = r2 /\ [r2 EXCEPT !.originalUser = d] = r3
    OBVIOUS
  <1>3. [s EXCEPT !.user = a, !.isImpersonating = b, !.originalUser = d]
          = [[[s EXCEPT !.user = a] EXCEPT !.isImpersonating = b] EXCEPT !.originalUser = d]
    OBVIOUS
  <1> HIDE DEF r1, r2, r3
  <1>4. [s EXCEPT !.user = a, !.isImpersonating = b, !.originalUser = d] = r3
    BY <1>1, <1>2, <1>3, Zenon
  <1> QED
    BY <1>4 DEF r3

LEMMA StoreExceptUser ==
    ASSUME NEW s \in Store, NEW a, NEW b
    PROVE  [s EXCEPT !.user = a, !.isAuthenticated = b]
             = [user |-> a, isAuthenticated |-> b,
                isImpersonating |-> s.isImpersonating, originalUser |-> s.originalUser]
  <1> DEFINE r1 == [user |-> a, isAuthenticated |-> s.isAuthenticated,
                    isImpersonating |-> s.isImpersonating, originalUser |-> s.originalUser]
             r2 == [user |-> a, isAuthenticated |-> b,
                    isImpersonating |-> s.isImpersonating, originalUser |-> s.originalUser]
  <1>1. [s EXCEPT !.user = a] = r1
    <2>1. s = [user |-> s.user, isAuthenticated |-> s.isAuthenticated,
               isImpersonating |-> s.isImpersonating, originalUser |-> s.originalUser]
      BY DEF Store
    <2> QED
      BY <2>1
  <1>2. [r1 EXCEPT !.isAuthenticated = b] = r2
    OBVIOUS
  <1>3. [s EXCEPT !.user = a, !.isAuthenticated = b]
          = [[s EXCEPT !.user = a] EXCEPT !.isAuthenticated = b]
    OBVIOUS
  <1> HIDE DEF r1, r2
  <1>4. [s EXCEPT !.user = a, !.isAuthenticated = b] = r2
    BY <1>1, <1>2, <1>3, Zenon
  <1> QED
    BY <1>4 DEF r2

LEMMA StoreFacts ==
    ASSUME WebTypeOK
    PROVE  /\ SignedOut \in Store /\ ~SignedOut.isAuthenticated
           /\ store \in Store /\ store.user \in Nobody
  BY DEF WebTypeOK, Store, SignedOut, Nobody

---------------------------------------------------------------------------
(* The steps of the user                                                   *)

LEMMA WebInitInv == WebInit => WebInv
  <1> SUFFICES ASSUME WebInit
               PROVE  WebInv
    OBVIOUS
  <1>1. \A c \in Calls : flight[c] = None
    BY DEF WebInit
  <1>2. WebTypeOK
    <2>1. jar \in Cookies
      BY DEF WebInit, NoCookies, Cookies, Nobody
    <2>2. store \in Store /\ ~store.isAuthenticated
      BY DEF WebInit, SignedOut, Store, Nobody
    <2>3. flight \in [Calls -> Cookies \union {None}]
      BY DEF WebInit
    <2> QED
      BY <2>1, <2>2, <2>3 DEF WebInit, WebTypeOK, Nobody
  <1>3. ~store.isAuthenticated
    BY DEF WebInit, SignedOut
  <1>4. Refresher /\ NoWaiterForgotten /\ LoginAwaits /\ AppIsSignedIn /\ Restoring
    BY <1>1, WebNames
       DEF WebInit, Refresher, NoWaiterForgotten, LoginAwaits, AppIsSignedIn, Restoring, Out,
           Calls, AuthCalls, Intercepted, StoreCalls
  <1>5. Alone /\ SentAsNow
    BY <1>1 DEF WebInit, Alone, SentAsNow, Out, IdentityCalls, Calls, Intercepted
  <1>6. SignedInCalls /\ Agreement /\ GivenUp
    BY <1>1, <1>3, WebNames DEF WebInit, SignedInCalls, Runs, Agreement, GivenUp, Out,
                      Calls, AuthCalls, Intercepted, StoreCalls
  <1> QED
    BY <1>2, <1>4, <1>5, <1>6 DEF WebInv, Calm

\* A call of the user's goes out with the cookies of now.
LEMMA UserStep ==
    ASSUME WebInv, NEW c \in Calls \ {"restore", "refresh", "giveup", "me"},
           NEW p \in {"login", "app"}, UserCall(c, p),
           IF c = "token" THEN p = "login" /\ ~Open("me") ELSE p = "app",
           before' = IF c = "impersonate" THEN store.user ELSE before,
           UNCHANGED <<jar, page, loginToken, handler, leaving>>
    PROVE  WebInv'
  <1>1. /\ path = p /\ leaving = "no" /\ ~Open(c) /\ Send(None, {c}, jar)
        /\ UNCHANGED <<jar, store, accessToken, authReady, path, loginToken, isRefreshing,
                       pendingQueue, owner, retried, leaving>>
    BY DEF UserCall, page, handler
  <1>2. WebTypeOK /\ jar \in Cookies
    BY DEF WebInv, WebTypeOK
  <1>3. /\ flight' \in [Calls -> Cookies \union {None}]
        /\ crossed' \in BOOLEAN
        /\ flight'[c] = jar
        /\ \A d \in Calls : d # c => flight'[d] = flight[d]
        /\ \A d \in Calls : flight'[d] # None <=> d = c \/ flight[d] # None
        /\ ~crossed' => /\ ~crossed
                        /\ \A d, e \in IdentityCalls :
                             flight'[d] # None /\ flight'[e] # None => d = e
    <2>1. {c} \in SUBSET Calls /\ None \notin Calls /\ jar # None
      BY <1>2, WebNames
    <2>2. /\ flight' \in [Calls -> Cookies \union {None}]
          /\ crossed' \in BOOLEAN
          /\ \A d \in Calls : flight'[d] = IF d \in {c} THEN jar
                                           ELSE IF d = None THEN None ELSE flight[d]
          /\ ~crossed' => /\ ~crossed
                          /\ \A d, e \in IdentityCalls :
                               flight'[d] # None /\ flight'[e] # None => d = e
      BY <1>1, <1>2, <2>1, SendFacts
    <2> QED
      BY <2>1, <2>2
  <1> USE DEF Calls, AuthCalls, Intercepted, StoreCalls
  <1>4. WebTypeOK'
    <2>1. before' \in Nobody
      BY <1>2, StoreFacts DEF WebTypeOK
    <2> QED
      BY <1>1, <1>2, <1>3, <2>1 DEF WebTypeOK
  <1>5. Refresher' /\ NoWaiterForgotten' /\ AppIsSignedIn' /\ Restoring'
    BY <1>1, <1>3 DEF WebInv, Refresher, NoWaiterForgotten, AppIsSignedIn, Restoring, Out
  <1>6. LoginAwaits'
    BY <1>1, <1>3 DEF WebInv, LoginAwaits, Out, Open
  <1>7. ASSUME ~crossed'
        PROVE  Calm'
    <2>1. ~crossed /\ Calm
      BY <1>3, <1>7 DEF WebInv
    <2>2. Alone'
      BY <1>1, <1>3, <1>7, <2>1 DEF Calm, Alone, Out
    <2>3. SentAsNow'
      BY <1>1, <1>3, <2>1 DEF Calm, SentAsNow, Out, IdentityCalls
    <2>4. c \in IdentityCalls => \A d \in IdentityCalls \ {c} : flight[d] = None
      BY <1>3, <1>7 DEF IdentityCalls
    <2>5. c # "token" => store.isAuthenticated
      BY <1>1 DEF WebInv, AppIsSignedIn
    <2>6. SignedInCalls'
      <3>1. \A d \in StoreCalls \ {"me"} : Runs(d)' => Runs(d) \/ d = c
        BY <1>1, <1>3 DEF Runs, Out
      <3>2. \A d \in StoreCalls \ {"me"} : Runs(d)' => store.isAuthenticated
        BY <2>1, <2>5, <3>1 DEF Calm, SignedInCalls
      <3>3. Runs("impersonate")' => before' = jar.sub
        <4>1. CASE c = "impersonate"
          <5>1. store.isAuthenticated /\ ~Out("me")
            BY <2>4, <2>5, <4>1 DEF IdentityCalls, Out
          <5> QED
            BY <2>1, <4>1, <5>1 DEF Calm, Agreement
        <4>2. CASE c # "impersonate"
          BY <2>1, <3>1, <4>2 DEF Calm, SignedInCalls
        <4> QED
          BY <4>1, <4>2
      <3>4. Out("me")' => Out("me")
        BY <1>3 DEF Out
      <3> QED
        BY <1>1, <2>1, <3>2, <3>3, <3>4 DEF Calm, SignedInCalls
    <2>7. Agreement'
      BY <1>1, <1>3, <2>1 DEF Calm, Agreement, Out
    <2>8. GivenUp'
      BY <1>1, <1>3, <2>1 DEF Calm, GivenUp, Out
    <2> QED
      BY <2>2, <2>3, <2>6, <2>7, <2>8 DEF Calm
  <1> QED
    BY <1>4, <1>5, <1>6, <1>7 DEF WebInv

LEMMA AccessExpiresStep ==
    ASSUME WebInv, AccessExpires
    PROVE  WebInv'
  <1>1. UNCHANGED <<store, accessToken, authReady, path, flight, loginToken, before,
                    isRefreshing, pendingQueue, owner, retried, leaving, crossed>>
    BY DEF AccessExpires, page, handler
  <1>2. jar' \in Cookies /\ jar'.sub = jar.sub /\ jar'.by = jar.by
    <2>1. jar \in Cookies /\ jar' = [jar EXCEPT !.access = FALSE]
      BY DEF AccessExpires, WebInv, WebTypeOK
    <2> QED
      BY <2>1, CookieFacts
  <1>3. WebTypeOK'
    BY <1>1, <1>2 DEF WebInv, WebTypeOK
  <1>4. Refresher' /\ NoWaiterForgotten' /\ LoginAwaits' /\ AppIsSignedIn' /\ Restoring'
    BY <1>1 DEF WebInv, Refresher, NoWaiterForgotten, LoginAwaits, AppIsSignedIn, Restoring, Out
  <1>5. ASSUME ~crossed'
        PROVE  Calm'
    <2>1. Calm
      BY <1>1, <1>5 DEF WebInv
    <2>2. Alone' /\ SentAsNow' /\ GivenUp'
      BY <1>1, <1>2, <2>1 DEF Calm, Alone, SentAsNow, GivenUp, Out
    <2>3. SignedInCalls' /\ Agreement'
      BY <1>1, <1>2, <2>1 DEF Calm, SignedInCalls, Runs, Agreement, Out
    <2> QED
      BY <2>2, <2>3 DEF Calm
  <1> QED
    BY <1>3, <1>4, <1>5 DEF WebInv

LEMMA GoToStep ==
    ASSUME WebInv, NEW p \in Pages, GoTo(p)
    PROVE  WebInv'
  <1>1. UNCHANGED <<jar, store, accessToken, authReady, flight, loginToken, before,
                    isRefreshing, pendingQueue, owner, retried, leaving, crossed>>
    BY DEF GoTo, handler
  <1>2. path' \in Pages /\ (path' = "app" => store.isAuthenticated)
    BY ShownFacts DEF GoTo, WebInv, WebTypeOK, Store
  <1>3. WebTypeOK'
    BY <1>1, <1>2 DEF WebInv, WebTypeOK, Pages
  <1>4. Refresher' /\ NoWaiterForgotten' /\ LoginAwaits' /\ AppIsSignedIn' /\ Restoring'
    BY <1>1, <1>2
       DEF WebInv, Refresher, NoWaiterForgotten, LoginAwaits, AppIsSignedIn, Restoring, Out
  <1>5. ~crossed' => Calm'
    BY <1>1 DEF WebInv, Calm, Alone, SentAsNow, GivenUp, SignedInCalls, Runs, Agreement, Out
  <1> QED
    BY <1>3, <1>4, <1>5 DEF WebInv

LEMMA LoadPageStep ==
    ASSUME WebInv, NEW p \in Pages, LoadPage(p)
    PROVE  WebInv'
  <1> USE DEF Calls, AuthCalls, Intercepted, StoreCalls
  <1>1. /\ UNCHANGED <<jar, store>>
        /\ accessToken' = None /\ loginToken' = None /\ before' = None
        /\ authReady' = ~store.isAuthenticated
        /\ isRefreshing' = FALSE /\ pendingQueue' = {} /\ owner' = None /\ retried' = {}
        /\ leaving' = "no" /\ crossed' = (crossed \/ Open("me"))
    BY DEF LoadPage
  <1>2. \A c \in Calls : /\ flight'[c] \in {None, jar}
                         /\ flight'[c] # None => c = "restore"
    BY DEF LoadPage
  <1>3. store.isAuthenticated => flight'["restore"] # None
    <2>1. "restore" \in Calls /\ jar # None
      BY WebNames DEF WebInv, WebTypeOK
    <2> QED
      BY <2>1 DEF LoadPage
  <1>4. path' \in Pages /\ (path' = "app" => store.isAuthenticated)
    BY ShownFacts DEF LoadPage, WebInv, WebTypeOK, Store
  <1>5. WebTypeOK'
    <2>1. flight' \in [Calls -> Cookies \union {None}]
      BY DEF LoadPage, WebInv, WebTypeOK
    <2>2. crossed' \in BOOLEAN /\ authReady' \in BOOLEAN
      BY <1>1 DEF WebInv, WebTypeOK, Store
    <2> QED
      BY <1>1, <1>4, <2>1, <2>2 DEF WebInv, WebTypeOK, Pages, Nobody
  <1>6. Refresher' /\ NoWaiterForgotten' /\ AppIsSignedIn' /\ Restoring'
    BY <1>1, <1>2, <1>4, <1>3 DEF Refresher, NoWaiterForgotten, AppIsSignedIn, Restoring, Out
  <1>7. LoginAwaits'
    BY <1>1, <1>2, WebNames DEF LoginAwaits, Out
  <1>8. ASSUME ~crossed'
        PROVE  Calm'
    <2>1. Calm /\ ~Out("me")
      BY <1>1, <1>8 DEF WebInv, Open
    <2>2. Alone' /\ SentAsNow' /\ SignedInCalls'
      BY <1>1, <1>2 DEF Alone, SentAsNow, SignedInCalls, Runs, Out, IdentityCalls
    <2>3. Agreement'
      BY <1>1, <2>1 DEF Calm, Agreement
    <2>4. GivenUp'
      BY <1>1, <1>2 DEF GivenUp, Out
    <2> QED
      BY <2>2, <2>3, <2>4 DEF Calm
  <1> QED
    BY <1>5, <1>6, <1>7, <1>8 DEF WebInv

---------------------------------------------------------------------------
(* The answers of /api/auth/                                               *)

\* The answer of an identity call, which sends the calls of S with cookies j.
LEMMA AnswerFacts ==
    ASSUME WebInv, NEW c \in IdentityCalls, Out(c), NEW S \in SUBSET Calls, NEW j \in Cookies,
           Send(c, S, j)
    PROVE  /\ flight' \in [Calls -> Cookies \union {None}]
           /\ crossed' \in BOOLEAN
           /\ \A d \in S : flight'[d] = j
           /\ c \notin S => flight'[c] = None
           /\ \A d \in Calls : d # c /\ d \notin S => flight'[d] = flight[d]
           /\ ~crossed' => /\ ~crossed /\ Calm
                           /\ \A d \in IdentityCalls : flight'[d] # None <=> d \in S
           /\ ~crossed' /\ pendingQueue' \subseteq pendingQueue /\ (S = {} \/ j = jar')
                => Alone' /\ SentAsNow'
  <1>1. /\ flight' \in [Calls -> Cookies \union {None}]
        /\ crossed' \in BOOLEAN
        /\ \A d \in Calls : flight'[d] = IF d \in S THEN j
                                         ELSE IF d = c THEN None ELSE flight[d]
        /\ \A d \in Calls : flight'[d] # None <=> d \in S \/ (d # c /\ flight[d] # None)
        /\ ~crossed' => /\ ~crossed
                        /\ \A d, e \in IdentityCalls :
                             flight'[d] # None /\ flight'[e] # None => d = e
    BY SendFacts DEF WebInv
  <1>2. IdentityCalls \subseteq Calls
    BY DEF IdentityCalls, Calls, Intercepted
  <1>3. ASSUME ~crossed'
        PROVE  /\ ~crossed /\ Calm
               /\ \A d \in IdentityCalls : flight'[d] # None <=> d \in S
    <2>1. ~crossed /\ Calm
      BY <1>1, <1>3 DEF WebInv
    <2>2. \A d \in IdentityCalls : flight[d] # None => d = c
      BY <2>1 DEF Calm, Alone, Out
    <2> QED
      BY <1>1, <1>2, <2>1, <2>2
  <1>4. ASSUME ~crossed', pendingQueue' \subseteq pendingQueue, S = {} \/ j = jar'
        PROVE  Alone' /\ SentAsNow'
    <2>1. Alone'
      BY <1>1, <1>3, <1>4 DEF Calm, Alone, Out
    <2>2. \A d \in IdentityCalls : flight'[d] # None => flight'[d] = jar'
      BY <1>1, <1>2, <1>3, <1>4
    <2> QED
      BY <2>1, <2>2 DEF SentAsNow, Out
  <1>5. /\ \A d \in S : flight'[d] = j
        /\ c \notin S => flight'[c] = None
        /\ \A d \in Calls : d # c /\ d \notin S => flight'[d] = flight[d]
    BY <1>1, <1>2
  <1> QED
    BY <1>1, <1>3, <1>4, <1>5

\* A signed-out page at which no store call runs is calm.
LEMMA SignedOutCalm ==
    ASSUME Alone', SentAsNow', ~store'.isAuthenticated,
           \A c \in StoreCalls : flight'[c] = None,
           flight'["refresh"] = None \/ owner' \notin StoreCalls,
           leaving' = "login" => flight'["token"] = None
    PROVE  Calm'
  <1>1. \A c \in StoreCalls : ~Runs(c)'
    BY DEF Runs, Out
  <1>2. "me" \in StoreCalls /\ "impersonate" \in StoreCalls
    BY DEF StoreCalls
  <1>3. SignedInCalls' /\ Agreement' /\ GivenUp'
    BY <1>1, <1>2 DEF SignedInCalls, Agreement, GivenUp, Out
  <1> QED
    BY <1>3 DEF Calm

LEMMA TokenIssuedStep ==
    ASSUME WebInv, NEW u \in Users, TokenIssued(u)
    PROVE  WebInv'
  <1>1. /\ Out("token") /\ Send("token", {"me"}, jar')
        /\ loginToken' = u
        /\ UNCHANGED <<store, accessToken, authReady, path, before, isRefreshing, pendingQueue,
                       owner, retried, leaving>>
    BY DEF TokenIssued, page, handler
  <1>2. jar' \in Cookies /\ jar'.sub = u /\ jar'.by = None
    <2>1. jar' = Issue(u, None) /\ u \in Nobody /\ None \in Nobody
      BY DEF TokenIssued, Nobody
    <2>2. Issue(u, None) \in Cookies
      BY <2>1, JarFacts DEF WebInv
    <2> QED
      BY <2>1, <2>2 DEF Issue
  <1>3. "token" \in IdentityCalls /\ {"me"} \in SUBSET Calls
    BY DEF IdentityCalls, Calls, AuthCalls, Intercepted, StoreCalls
  <1>4. /\ flight' \in [Calls -> Cookies \union {None}]
        /\ crossed' \in BOOLEAN
        /\ \A d \in {"me"} : flight'[d] = jar'
        /\ flight'["token"] = None
        /\ \A d \in Calls : d # "token" /\ d \notin {"me"} => flight'[d] = flight[d]
        /\ ~crossed' => /\ ~crossed /\ Calm /\ Alone' /\ SentAsNow'
                        /\ \A d \in IdentityCalls : flight'[d] # None <=> d \in {"me"}
    BY <1>1, <1>2, <1>3, AnswerFacts
  <1> USE DEF Calls, AuthCalls, Intercepted, StoreCalls
  <1>5. WebTypeOK'
    BY <1>1, <1>2, <1>4 DEF WebInv, WebTypeOK, Nobody
  <1>6. Refresher' /\ NoWaiterForgotten' /\ AppIsSignedIn' /\ Restoring'
    BY <1>1, <1>4 DEF WebInv, Refresher, NoWaiterForgotten, AppIsSignedIn, Restoring, Out
  <1>7. LoginAwaits'
    BY <1>1, <1>2, <1>4 DEF WebInv, LoginAwaits, Out
  <1>8. ASSUME ~crossed'
        PROVE  Calm'
    <2>1. SignedInCalls' /\ Agreement'
      BY <1>1, <1>2, <1>4, <1>8, WebNames
         DEF SignedInCalls, Runs, Agreement, Out, IdentityCalls
    <2>2. GivenUp'
      BY <1>1, <1>4, <1>8 DEF Calm, GivenUp, Out, IdentityCalls
    <2> QED
      BY <1>4, <1>8, <2>1, <2>2 DEF Calm
  <1> QED
    BY <1>5, <1>6, <1>7, <1>8 DEF WebInv

LEMMA TokenRefusedStep ==
    ASSUME WebInv, TokenRefused
    PROVE  WebInv'
  <1>1. /\ Out("token") /\ Send("token", {}, jar) /\ Locals(loginToken, before)
        /\ UNCHANGED <<jar, store, accessToken, authReady, path, isRefreshing, pendingQueue,
                       owner, retried, leaving>>
    BY DEF TokenRefused, page, handler
  <1>2. jar \in Cookies /\ loginToken \in Nobody /\ before \in Nobody
    BY DEF WebInv, WebTypeOK
  <1>3. "token" \in IdentityCalls /\ {} \in SUBSET Calls
    BY DEF IdentityCalls, AuthCalls
  <1>4. /\ flight' \in [Calls -> Cookies \union {None}]
        /\ crossed' \in BOOLEAN
        /\ flight'["token"] = None
        /\ \A d \in Calls : d # "token" => flight'[d] = flight[d]
        /\ ~crossed' => /\ ~crossed /\ Calm /\ Alone' /\ SentAsNow'
                        /\ \A d \in IdentityCalls : flight'[d] = None
    BY <1>1, <1>2, <1>3, AnswerFacts
  <1>5. /\ loginToken' \in Nobody /\ before' \in Nobody
        /\ flight'["me"] # None => loginToken' = loginToken
    BY <1>1, <1>2, LocalsFacts
  <1> USE DEF Calls, AuthCalls, Intercepted, StoreCalls
  <1>6. WebTypeOK'
    BY <1>1, <1>4, <1>5 DEF WebInv, WebTypeOK
  <1>7. Refresher' /\ NoWaiterForgotten' /\ AppIsSignedIn' /\ Restoring'
    BY <1>1, <1>4 DEF WebInv, Refresher, NoWaiterForgotten, AppIsSignedIn, Restoring, Out
  <1>8. LoginAwaits'
    BY <1>1, <1>4, <1>5 DEF WebInv, LoginAwaits, Out
  <1>9. ASSUME ~crossed'
        PROVE  Calm'
    <2>1. SignedInCalls'
      BY <1>4, <1>9 DEF SignedInCalls, Runs, Out, IdentityCalls
    <2>2. Agreement'
      BY <1>1, <1>4, <1>9 DEF Calm, Alone, Agreement, Out, IdentityCalls
    <2>3. GivenUp'
      BY <1>1, <1>4, <1>9 DEF Calm, GivenUp, Out, IdentityCalls
    <2> QED
      BY <1>4, <1>9, <2>1, <2>2, <2>3 DEF Calm
  <1> QED
    BY <1>6, <1>7, <1>8, <1>9 DEF WebInv

LEMMA RestoreAnsweredStep ==
    ASSUME WebInv, NEW lost \in BOOLEAN, RestoreAnswered(lost)
    PROVE  WebInv'
  <1> DEFINE c == flight["restore"]
             granted == ~lost /\ RefreshGranted(c)
  <1>1. /\ Out("restore") /\ Send("restore", {}, jar) /\ Locals(loginToken, before)
        /\ jar' = IF lost THEN jar ELSE RefreshedJar(c)
        /\ store' = IF granted THEN store ELSE SignedOut
        /\ accessToken' = IF granted THEN c.sub ELSE None
        /\ authReady' = TRUE
        /\ path' = Shown(path, store'.isAuthenticated, TRUE)
        /\ UNCHANGED <<isRefreshing, pendingQueue, owner, retried, leaving>>
    BY DEF RestoreAnswered, handler
  <1>2. jar \in Cookies /\ loginToken \in Nobody /\ before \in Nobody
    BY DEF WebInv, WebTypeOK
  <1>3. "restore" \in IdentityCalls /\ "restore" \in Calls /\ {} \in SUBSET Calls
    BY DEF IdentityCalls, AuthCalls, Calls
  <1>4. /\ flight' \in [Calls -> Cookies \union {None}]
        /\ crossed' \in BOOLEAN
        /\ flight'["restore"] = None
        /\ \A d \in Calls : d # "restore" => flight'[d] = flight[d]
        /\ ~crossed' => /\ ~crossed /\ Calm /\ Alone' /\ SentAsNow'
                        /\ \A d \in IdentityCalls : flight'[d] = None
    BY <1>1, <1>2, <1>3, AnswerFacts
  <1>5. /\ loginToken' \in Nobody /\ before' \in Nobody
        /\ flight'["me"] # None => loginToken' = loginToken
    BY <1>1, <1>2, LocalsFacts
  <1>6. c \in Cookies
    BY <1>1, <1>3 DEF WebInv, WebTypeOK, Out
  <1>7. /\ jar' \in Cookies
        /\ granted => jar'.sub = c.sub /\ jar'.by = c.by
    BY <1>1, <1>2, <1>6, JarFacts DEF WebInv
  <1>8. store' \in Store /\ accessToken' \in Nobody
    <2>1. c.sub \in Nobody /\ None \in Nobody
      BY <1>6 DEF Cookies, Nobody
    <2> QED
      BY <1>1, <2>1, StoreFacts DEF WebInv
  <1>9. path' \in Pages /\ (path' = "app" => store'.isAuthenticated)
    <2>1. store'.isAuthenticated \in BOOLEAN /\ path \in Pages
      BY <1>8 DEF Store, WebInv, WebTypeOK, Pages
    <2> QED
      BY <1>1, <2>1, ShownFacts
  <1> HIDE DEF c, granted
  <1> USE DEF Calls, AuthCalls, Intercepted, StoreCalls
  <1>10. WebTypeOK'
    BY <1>1, <1>4, <1>5, <1>7, <1>8, <1>9 DEF WebInv, WebTypeOK, Pages
  <1>11. Refresher' /\ NoWaiterForgotten' /\ AppIsSignedIn' /\ Restoring'
    BY <1>1, <1>4, <1>9 DEF WebInv, Refresher, NoWaiterForgotten, AppIsSignedIn, Restoring, Out
  <1>12. LoginAwaits'
    BY <1>1, <1>4, <1>5 DEF WebInv, LoginAwaits, Out
  <1>13. ASSUME ~crossed'
         PROVE  Calm'
    <2>1. \A d \in IdentityCalls : flight'[d] = None
      BY <1>4, <1>13
    <2>2. CASE granted
      <3>1. jar'.sub = jar.sub /\ jar'.by = jar.by
        BY <1>1, <1>3, <1>4, <1>7, <1>13, <2>2 DEF Calm, SentAsNow, c
      <3>2. Agreement'
        BY <1>1, <1>3, <1>4, <1>7, <1>13, <2>2, <3>1
           DEF Calm, Alone, Agreement, Out, IdentityCalls
      <3>3. SignedInCalls'
        BY <2>1 DEF SignedInCalls, Runs, Out, IdentityCalls
      <3>4. GivenUp'
        BY <1>1, <1>4, <1>13, <2>1, <2>2 DEF Calm, GivenUp, Out, IdentityCalls
      <3> QED
        BY <1>4, <1>13, <3>2, <3>3, <3>4 DEF Calm
    <2>3. CASE ~granted
      <3>1. ~store'.isAuthenticated
        BY <1>1, <2>3, StoreFacts DEF WebInv
      <3> QED
        BY <1>4, <1>13, <2>1, <3>1, SignedOutCalm DEF IdentityCalls
    <2> QED
      BY <2>2, <2>3
  <1> QED
    BY <1>10, <1>11, <1>12, <1>13 DEF WebInv

LEMMA LogoutAnsweredStep ==
    ASSUME WebInv, NEW lost \in BOOLEAN, LogoutAnswered(lost)
    PROVE  WebInv'
  <1>1. /\ Out("logout") /\ Send("logout", {}, jar) /\ Locals(loginToken, before)
        /\ jar' = IF lost THEN jar ELSE LoggedOutJar(flight["logout"])
        /\ SetStore(SignedOut, None, "login")
        /\ UNCHANGED <<isRefreshing, pendingQueue, owner, retried, leaving>>
    BY DEF LogoutAnswered, handler
  <1>2. /\ jar \in Cookies /\ loginToken \in Nobody /\ before \in Nobody
        /\ None \in Nobody /\ "login" \in Pages
    BY DEF WebInv, WebTypeOK, Nobody, Pages
  <1>3. "logout" \in IdentityCalls /\ "logout" \in Calls /\ {} \in SUBSET Calls
    BY DEF IdentityCalls, AuthCalls, Calls
  <1>4. /\ flight' \in [Calls -> Cookies \union {None}]
        /\ crossed' \in BOOLEAN
        /\ flight'["logout"] = None
        /\ \A d \in Calls : d # "logout" => flight'[d] = flight[d]
        /\ ~crossed' => /\ ~crossed /\ Calm /\ Alone' /\ SentAsNow'
                        /\ \A d \in IdentityCalls : flight'[d] = None
    BY <1>1, <1>2, <1>3, AnswerFacts
  <1>5. /\ loginToken' \in Nobody /\ before' \in Nobody
        /\ flight'["me"] # None => loginToken' = loginToken
    BY <1>1, <1>2, LocalsFacts
  <1>6. jar' \in Cookies
    <2>1. flight["logout"] \in Cookies
      BY <1>1, <1>3 DEF WebInv, WebTypeOK, Out
    <2> QED
      BY <1>1, <1>2, <2>1, JarFacts DEF WebInv
  <1>7. /\ store' = SignedOut /\ store' \in Store /\ ~store'.isAuthenticated
        /\ accessToken' = None /\ authReady' \in BOOLEAN /\ (authReady => authReady')
        /\ path' \in Pages /\ path' # "app"
    <2>1. SignedOut \in Store /\ ~SignedOut.isAuthenticated
      BY StoreFacts DEF WebInv
    <2> QED
      BY <1>1, <1>2, <2>1, SetStoreFacts DEF WebInv
  <1> USE DEF Calls, AuthCalls, Intercepted, StoreCalls
  <1>8. WebTypeOK'
    BY <1>1, <1>2, <1>4, <1>5, <1>6, <1>7 DEF WebInv, WebTypeOK, Pages
  <1>9. Refresher' /\ NoWaiterForgotten' /\ AppIsSignedIn' /\ Restoring'
    BY <1>1, <1>4, <1>7 DEF WebInv, Refresher, NoWaiterForgotten, AppIsSignedIn, Restoring, Out
  <1>10. LoginAwaits'
    BY <1>1, <1>4, <1>5 DEF WebInv, LoginAwaits, Out
  <1>11. ~crossed' => Calm'
    BY <1>4, <1>7, SignedOutCalm DEF IdentityCalls
  <1> QED
    BY <1>8, <1>9, <1>10, <1>11 DEF WebInv

LEMMA RefreshOkStep ==
    ASSUME WebInv, RefreshOk
    PROVE  WebInv'
  <1> DEFINE c == flight["refresh"]
             S == pendingQueue \union {owner}
  <1>1. /\ Out("refresh") /\ RefreshGranted(c) /\ jar' = RefreshedJar(c)
        /\ Send("refresh", S, jar') /\ Locals(loginToken, before)
        /\ pendingQueue' = {} /\ owner' = None /\ isRefreshing' = FALSE
        /\ UNCHANGED <<store, accessToken, authReady, path, retried, leaving>>
    BY DEF RefreshOk, page
  <1>2. /\ loginToken \in Nobody /\ before \in Nobody
        /\ c \in Cookies
    <2>1. "refresh" \in Calls
      BY DEF Calls, AuthCalls
    <2> QED
      BY <1>1, <2>1 DEF WebInv, WebTypeOK, Out
  <1>3. jar' \in Cookies /\ jar'.sub = c.sub /\ jar'.by = c.by
    BY <1>1, <1>2, JarFacts DEF WebInv
  <1>4. owner \in Intercepted /\ S \subseteq Intercepted
    BY <1>1 DEF WebInv, WebTypeOK, Refresher
  <1>5. /\ "refresh" \in IdentityCalls /\ S \in SUBSET Calls
        /\ "refresh" \notin S /\ "giveup" \notin S /\ "token" \notin S
        /\ "restore" \notin S /\ "me" \notin S
    <2>1. "refresh" \in IdentityCalls /\ S \in SUBSET Calls
      BY <1>4 DEF IdentityCalls, AuthCalls, Calls
    <2>2. "refresh" \notin S /\ "giveup" \notin S /\ "token" \notin S
          /\ "restore" \notin S
      BY <1>4, WebNames DEF Intercepted, AuthCalls, StoreCalls
    <2>3. "me" \notin S
      BY DEF WebInv, LoginAwaits
    <2> QED
      BY <2>1, <2>2, <2>3
  <1> HIDE DEF S
  <1>6. /\ flight' \in [Calls -> Cookies \union {None}]
        /\ crossed' \in BOOLEAN
        /\ \A d \in S : flight'[d] = jar'
        /\ flight'["refresh"] = None
        /\ \A d \in Calls : d # "refresh" /\ d \notin S => flight'[d] = flight[d]
        /\ ~crossed' => /\ ~crossed /\ Calm /\ Alone' /\ SentAsNow'
                        /\ \A d \in IdentityCalls : flight'[d] # None <=> d \in S
    BY <1>1, <1>3, <1>5, AnswerFacts
  <1>7. /\ loginToken' \in Nobody /\ before' \in Nobody
        /\ flight'["me"] # None => loginToken' = loginToken
        /\ flight'["impersonate"] # None \/ owner' = "impersonate" => before' = before
    BY <1>1, <1>2, LocalsFacts
  <1> USE DEF Calls, AuthCalls, Intercepted, StoreCalls
  <1>8. WebTypeOK'
    BY <1>1, <1>3, <1>6, <1>7 DEF WebInv, WebTypeOK
  <1>9. Refresher' /\ NoWaiterForgotten' /\ AppIsSignedIn' /\ Restoring'
    BY <1>1, <1>5, <1>6 DEF WebInv, Refresher, NoWaiterForgotten, AppIsSignedIn, Restoring, Out
  <1>10. LoginAwaits'
    BY <1>1, <1>5, <1>6, <1>7, WebNames DEF WebInv, LoginAwaits, Out
  <1>11. ASSUME ~crossed'
         PROVE  Calm'
    <2>1. /\ Calm /\ flight'["me"] = None /\ flight["me"] = None
          /\ jar'.sub = jar.sub /\ jar'.by = jar.by
      BY <1>1, <1>3, <1>5, <1>6, <1>11 DEF Calm, Alone, SentAsNow, Out, IdentityCalls, c
    <2>2. \A d \in StoreCalls \ {"me"} : Runs(d)' => d = owner /\ Runs(d)
      BY <1>1, <1>5, <1>6, <1>11, <2>1 DEF S, Runs, Out, Calm, Alone, IdentityCalls
    <2>3. SignedInCalls'
      <3>1. \A d \in StoreCalls \ {"me"} : Runs(d)' => store'.isAuthenticated
        BY <1>1, <2>1, <2>2 DEF Calm, SignedInCalls
      <3>2. Runs("impersonate")' => flight'["impersonate"] # None \/ owner' = "impersonate"
        BY DEF Runs, Out
      <3>3. Runs("impersonate")' => before' = jar'.sub
        BY <1>7, <2>1, <2>2, <3>2 DEF Calm, SignedInCalls
      <3> QED
        BY <2>1, <3>1, <3>3 DEF SignedInCalls, Out
    <2>4. Agreement'
      BY <1>1, <2>1 DEF Calm, Agreement, Out
    <2>5. GivenUp'
      BY <1>1, <1>5, <1>6, <1>11, <2>1 DEF Calm, GivenUp, Out, IdentityCalls
    <2> QED
      BY <1>6, <1>11, <2>3, <2>4, <2>5 DEF Calm
  <1> QED
    BY <1>8, <1>9, <1>10, <1>11 DEF WebInv

LEMMA RefreshFailedStep ==
    ASSUME WebInv, NEW lost \in BOOLEAN, RefreshFailed(lost)
    PROVE  WebInv'
  <1>1. /\ Out("refresh") /\ Send("refresh", {"giveup"}, jar') /\ Locals(loginToken, before)
        /\ jar' = IF lost THEN jar ELSE RefreshedJar(flight["refresh"])
        /\ SetStore(SignedOut, None, path)
        /\ retried' = retried \ pendingQueue /\ pendingQueue' = {}
        /\ UNCHANGED <<owner, isRefreshing, leaving>>
    BY DEF RefreshFailed
  <1>2. /\ jar \in Cookies /\ loginToken \in Nobody /\ before \in Nobody
        /\ None \in Nobody /\ path \in Pages
    BY DEF WebInv, WebTypeOK, Nobody, Pages
  <1>3. /\ "refresh" \in IdentityCalls /\ "refresh" \in Calls /\ {"giveup"} \in SUBSET Calls
        /\ "refresh" \notin {"giveup"}
    BY DEF IdentityCalls, AuthCalls, Calls
  <1>4. jar' \in Cookies
    <2>1. flight["refresh"] \in Cookies
      BY <1>1, <1>3 DEF WebInv, WebTypeOK, Out
    <2> QED
      BY <1>1, <1>2, <2>1, JarFacts DEF WebInv
  <1>5. /\ flight' \in [Calls -> Cookies \union {None}]
        /\ crossed' \in BOOLEAN
        /\ \A d \in {"giveup"} : flight'[d] = jar'
        /\ flight'["refresh"] = None
        /\ \A d \in Calls : d # "refresh" /\ d \notin {"giveup"} => flight'[d] = flight[d]
        /\ ~crossed' => /\ ~crossed /\ Calm /\ Alone' /\ SentAsNow'
                        /\ \A d \in IdentityCalls : flight'[d] # None <=> d \in {"giveup"}
    BY <1>1, <1>3, <1>4, AnswerFacts
  <1>6. /\ loginToken' \in Nobody /\ before' \in Nobody
        /\ flight'["me"] # None => loginToken' = loginToken
    BY <1>1, <1>2, LocalsFacts
  <1>7. /\ store' = SignedOut /\ store' \in Store /\ ~store'.isAuthenticated
        /\ accessToken' = None /\ authReady' \in BOOLEAN /\ (authReady => authReady')
        /\ path' \in Pages /\ path' # "app"
    <2>1. SignedOut \in Store /\ ~SignedOut.isAuthenticated
      BY StoreFacts DEF WebInv
    <2> QED
      BY <1>1, <1>2, <2>1, SetStoreFacts DEF WebInv
  <1> USE DEF Calls, AuthCalls, Intercepted, StoreCalls
  <1>8. WebTypeOK'
    BY <1>1, <1>2, <1>4, <1>5, <1>6, <1>7 DEF WebInv, WebTypeOK, Pages
  <1>9. Refresher' /\ NoWaiterForgotten' /\ AppIsSignedIn' /\ Restoring'
    BY <1>1, <1>4, <1>5, <1>7, WebNames
       DEF WebInv, Refresher, NoWaiterForgotten, AppIsSignedIn, Restoring, Out
  <1>10. LoginAwaits'
    BY <1>1, <1>5, <1>6 DEF WebInv, LoginAwaits, Out
  <1>11. ~crossed' => Calm'
    BY <1>5, <1>7, SignedOutCalm DEF IdentityCalls
  <1> QED
    BY <1>8, <1>9, <1>10, <1>11 DEF WebInv

LEMMA GiveUpAnsweredStep ==
    ASSUME WebInv, NEW lost \in BOOLEAN, GiveUpAnswered(lost)
    PROVE  WebInv'
  <1>1. /\ Out("giveup") /\ Send("giveup", {}, jar) /\ Locals(loginToken, before)
        /\ jar' = IF lost THEN jar ELSE LoggedOutJar(flight["giveup"])
        /\ retried' = retried \ {owner} /\ owner' = None
        /\ isRefreshing' = FALSE /\ leaving' = "login"
        /\ UNCHANGED <<store, accessToken, authReady, path, pendingQueue>>
    BY DEF GiveUpAnswered, page
  <1>2. jar \in Cookies /\ loginToken \in Nobody /\ before \in Nobody
    BY DEF WebInv, WebTypeOK
  <1>3. "giveup" \in IdentityCalls /\ "giveup" \in Calls /\ {} \in SUBSET Calls
    BY DEF IdentityCalls, AuthCalls, Calls
  <1>4. /\ flight' \in [Calls -> Cookies \union {None}]
        /\ crossed' \in BOOLEAN
        /\ flight'["giveup"] = None
        /\ \A d \in Calls : d # "giveup" => flight'[d] = flight[d]
        /\ ~crossed' => /\ ~crossed /\ Calm /\ Alone' /\ SentAsNow'
                        /\ \A d \in IdentityCalls : flight'[d] = None
    BY <1>1, <1>2, <1>3, AnswerFacts
  <1>5. /\ loginToken' \in Nobody /\ before' \in Nobody
        /\ flight'["me"] # None => loginToken' = loginToken
    BY <1>1, <1>2, LocalsFacts
  <1>6. jar' \in Cookies
    <2>1. flight["giveup"] \in Cookies
      BY <1>1, <1>3 DEF WebInv, WebTypeOK, Out
    <2> QED
      BY <1>1, <1>2, <2>1, JarFacts DEF WebInv
  <1> USE DEF Calls, AuthCalls, Intercepted, StoreCalls
  <1>7. WebTypeOK'
    BY <1>1, <1>4, <1>5, <1>6 DEF WebInv, WebTypeOK
  <1>8. Refresher' /\ NoWaiterForgotten' /\ AppIsSignedIn' /\ Restoring'
    BY <1>1, <1>4 DEF WebInv, Refresher, NoWaiterForgotten, AppIsSignedIn, Restoring, Out
  <1>9. LoginAwaits'
    BY <1>1, <1>4, <1>5, WebNames DEF WebInv, LoginAwaits, Out
  <1>10. ASSUME ~crossed'
         PROVE  Calm'
    <2>1. ~store'.isAuthenticated
      BY <1>1, <1>4, <1>10 DEF Calm, GivenUp
    <2> QED
      BY <1>4, <1>10, <2>1, SignedOutCalm DEF IdentityCalls
  <1> QED
    BY <1>7, <1>8, <1>9, <1>10 DEF WebInv

---------------------------------------------------------------------------
(* The answers of the intercepted calls                                    *)

\* The intercepted call c comes in and nothing else happens.
LEMMA EndedStep ==
    ASSUME WebInv, NEW c \in Intercepted, Out(c),
           flight' \in [Calls -> Cookies \union {None}],
           flight'[c] = None, \A d \in Calls : d # c => flight'[d] = flight[d],
           crossed' \in BOOLEAN, ~crossed' => ~crossed,
           c = "me" => crossed',
           retried' \subseteq retried \union {c}, Locals(loginToken, before),
           UNCHANGED <<jar, page, isRefreshing, pendingQueue, owner, leaving>>
    PROVE  WebInv'
  <1>1. UNCHANGED <<store, accessToken, authReady, path>>
    BY DEF page
  <1>2. loginToken \in Nobody /\ before \in Nobody
    BY DEF WebInv, WebTypeOK
  <1>3. /\ loginToken' \in Nobody /\ before' \in Nobody
        /\ flight'["me"] # None => loginToken' = loginToken
        /\ flight'["impersonate"] # None \/ owner' = "impersonate" => before' = before
    BY <1>2, LocalsFacts
  <1>4. c \notin {"refresh", "giveup", "token", "restore"} /\ c \in Calls
    BY WebNames DEF Intercepted, AuthCalls, StoreCalls, Calls
  <1> USE DEF Calls, AuthCalls, Intercepted, StoreCalls
  <1>5. WebTypeOK'
    BY <1>1, <1>3 DEF WebInv, WebTypeOK
  <1>6. Refresher' /\ NoWaiterForgotten' /\ AppIsSignedIn' /\ Restoring'
    BY <1>1, <1>4 DEF WebInv, Refresher, NoWaiterForgotten, AppIsSignedIn, Restoring, Out
  <1>7. LoginAwaits'
    BY <1>3 DEF WebInv, LoginAwaits, Out
  <1>8. ASSUME ~crossed'
        PROVE  Calm'
    <2>1. /\ Calm /\ c # "me"
          /\ \A d \in Calls : flight'[d] # None => flight'[d] = flight[d]
      BY <1>8 DEF WebInv
    <2>2. Alone' /\ SentAsNow'
      BY <2>1 DEF Calm, Alone, SentAsNow, Out, IdentityCalls
    <2>3. SignedInCalls'
      <3>1. \A d \in StoreCalls : Runs(d)' => Runs(d)
        BY <2>1 DEF Runs, Out
      <3>2. Runs("impersonate")' => before' = jar'.sub
        BY <1>3, <2>1, <3>1 DEF Calm, SignedInCalls, Runs, Out
      <3>3. Out("me")' => Out("me") /\ loginToken' = loginToken
        BY <1>3, <2>1 DEF Out
      <3> QED
        BY <1>1, <2>1, <3>1, <3>2, <3>3 DEF Calm, SignedInCalls
    <2>4. Agreement' /\ GivenUp'
      BY <1>1, <1>4, <2>1 DEF Calm, Agreement, GivenUp, Out
    <2> QED
      BY <2>2, <2>3, <2>4 DEF Calm
  <1> QED
    BY <1>5, <1>6, <1>7, <1>8 DEF WebInv

LEMMA FailedStep ==
    ASSUME WebInv, NEW c \in Intercepted, Failed(c)
    PROVE  WebInv'
  <1>1. /\ Out(c) /\ flight' = [flight EXCEPT ![c] = None]
        /\ retried' \subseteq retried \union {c} /\ Locals(loginToken, before)
        /\ crossed' = (crossed \/ c = "me")
        /\ UNCHANGED <<jar, page, isRefreshing, pendingQueue, owner, leaving>>
    BY DEF Failed
  <1>2. c \in Calls /\ flight \in [Calls -> Cookies \union {None}] /\ crossed \in BOOLEAN
    BY DEF Calls, WebInv, WebTypeOK
  <1>3. /\ flight' \in [Calls -> Cookies \union {None}]
        /\ flight'[c] = None /\ \A d \in Calls : d # c => flight'[d] = flight[d]
    BY <1>1, <1>2
  <1>4. crossed' \in BOOLEAN /\ (~crossed' => ~crossed) /\ (c = "me" => crossed')
    BY <1>1, <1>2
  <1> QED
    BY <1>1, <1>3, <1>4, EndedStep

\* The token of login() is a user's, so that getMe has a caller.
LEMMA MeHasCaller ==
    ASSUME WebInv, Out("me")
    PROVE  Caller("me") = loginToken /\ loginToken \in Users /\ loginToken # None
  BY WebAssumption DEF WebInv, LoginAwaits, Caller

\* What Send does when an intercepted call c comes in.
LEMMA InterceptedFacts ==
    ASSUME WebInv, NEW c \in Intercepted, Out(c), NEW S \in SUBSET {"refresh"}, Send(c, S, jar)
    PROVE  /\ flight' \in [Calls -> Cookies \union {None}]
           /\ crossed' \in BOOLEAN
           /\ \A d \in S : flight'[d] = jar
           /\ flight'[c] = None
           /\ \A d \in Calls : d # c /\ d \notin S => flight'[d] = flight[d]
           /\ ~crossed' => /\ ~crossed /\ Calm
                           /\ \A d, e \in IdentityCalls :
                                flight'[d] # None /\ flight'[e] # None => d = e
  <1>1. c \in Calls /\ c \notin S /\ S \in SUBSET Calls
    BY WebNames DEF Intercepted, Calls, AuthCalls, StoreCalls
  <1>2. jar \in Cookies
    BY DEF WebInv, WebTypeOK
  <1>3. /\ flight' \in [Calls -> Cookies \union {None}]
        /\ crossed' \in BOOLEAN
        /\ \A d \in Calls : flight'[d] = IF d \in S THEN jar
                                         ELSE IF d = c THEN None ELSE flight[d]
        /\ ~crossed' => /\ ~crossed
                        /\ \A d, e \in IdentityCalls :
                             flight'[d] # None /\ flight'[e] # None => d = e
    BY <1>1, <1>2, SendFacts DEF WebInv
  <1>4. /\ \A d \in S : flight'[d] = jar
        /\ flight'[c] = None
        /\ \A d \in Calls : d # c /\ d \notin S => flight'[d] = flight[d]
    BY <1>1, <1>3
  <1>5. ~crossed => Calm
    BY DEF WebInv
  <1> QED
    BY <1>3, <1>4, <1>5

LEMMA RequestAnsweredStep ==
    ASSUME WebInv, NEW r \in Requests, RequestAnswered(r)
    PROVE  WebInv'
  <1>1. /\ Out(r) /\ Send(r, {}, jar) /\ Locals(loginToken, before)
        /\ retried' \subseteq retried \union {r}
        /\ UNCHANGED <<jar, page, isRefreshing, pendingQueue, owner, leaving>>
    BY DEF RequestAnswered, Answered
  <1>2. r \in Intercepted /\ r # "me"
    BY WebNames DEF Intercepted, StoreCalls
  <1>3. /\ flight' \in [Calls -> Cookies \union {None}]
        /\ flight'[r] = None /\ \A d \in Calls : d # r => flight'[d] = flight[d]
        /\ crossed' \in BOOLEAN /\ (~crossed' => ~crossed)
    BY <1>1, <1>2, InterceptedFacts
  <1> QED
    BY <1>1, <1>2, <1>3, EndedStep

LEMMA UnauthorizedStep ==
    ASSUME WebInv, NEW c \in Intercepted, Unauthorized(c)
    PROVE  WebInv'
  <1>1. /\ Out(c) /\ Caller(c) = None /\ Locals(loginToken, before)
        /\ UNCHANGED <<jar, page, leaving>>
    BY DEF Unauthorized
  <1>2. UNCHANGED <<store, accessToken, authReady, path>>
    BY <1>1 DEF page
  <1>3. c \notin {"me", "refresh", "giveup", "token", "restore"} /\ c # None /\ c \in Calls
    BY <1>1, MeHasCaller, WebNames DEF Intercepted, AuthCalls, StoreCalls, Calls
  <1>4. loginToken \in Nobody /\ before \in Nobody
    BY DEF WebInv, WebTypeOK
  <1>5. /\ loginToken' \in Nobody /\ before' \in Nobody
        /\ flight'["me"] # None => loginToken' = loginToken
        /\ flight'["impersonate"] # None \/ owner' = "impersonate" => before' = before
    BY <1>1, <1>4, LocalsFacts
  \* Rejected.
  <1>6. CASE /\ retried' = retried \ {c} /\ Send(c, {}, jar)
             /\ UNCHANGED <<isRefreshing, pendingQueue, owner>>
    <2>1. /\ flight' \in [Calls -> Cookies \union {None}]
          /\ flight'[c] = None /\ \A d \in Calls : d # c => flight'[d] = flight[d]
          /\ crossed' \in BOOLEAN /\ (~crossed' => ~crossed)
      BY <1>1, <1>6, InterceptedFacts
    <2>2. retried' \subseteq retried \union {c}
      BY <1>6
    <2> QED
      BY <1>1, <1>3, <1>6, <2>1, <2>2, EndedStep
  \* It waits: no identity call does so before two have crossed.
  <1>7. CASE /\ isRefreshing
             /\ pendingQueue' = pendingQueue \union {c} /\ Send(c, {}, jar)
             /\ UNCHANGED <<isRefreshing, owner, retried>>
    <2>1. /\ flight' \in [Calls -> Cookies \union {None}]
          /\ crossed' \in BOOLEAN
          /\ flight'[c] = None /\ \A d \in Calls : d # c => flight'[d] = flight[d]
          /\ ~crossed' => ~crossed /\ Calm
      BY <1>1, <1>7, InterceptedFacts
    <2> USE DEF Calls, AuthCalls, Intercepted, StoreCalls
    <2>2. WebTypeOK'
      BY <1>1, <1>2, <1>5, <1>7, <2>1 DEF WebInv, WebTypeOK
    <2>3. Refresher' /\ NoWaiterForgotten' /\ AppIsSignedIn' /\ Restoring'
      BY <1>1, <1>2, <1>3, <1>7, <2>1
         DEF WebInv, Refresher, NoWaiterForgotten, AppIsSignedIn, Restoring, Out
    <2>4. LoginAwaits'
      BY <1>3, <1>5, <1>7, <2>1 DEF WebInv, LoginAwaits, Out
    <2>5. ASSUME ~crossed'
          PROVE  Calm'
      <3>1. /\ Calm /\ \A d \in Calls : flight'[d] # None => flight'[d] = flight[d]
        BY <2>1, <2>5
      <3>2. c \notin IdentityCalls
        BY <1>1, <1>3, <1>7, <3>1 DEF WebInv, Refresher, Calm, Alone, Out, IdentityCalls
      <3>3. Alone' /\ SentAsNow'
        BY <1>1, <1>7, <3>1, <3>2 DEF Calm, Alone, SentAsNow, Out, IdentityCalls
      <3>4. \A d \in StoreCalls : Runs(d)' => Runs(d)
        BY <1>7, <3>1 DEF Runs, Out
      <3>5. Runs("impersonate")' => before' = jar'.sub
        BY <1>1, <1>5, <3>1, <3>4 DEF Calm, SignedInCalls, Runs, Out
      <3>6. Out("me")' => Out("me") /\ loginToken' = loginToken
        BY <1>5, <3>1 DEF Out
      <3>7. SignedInCalls'
        BY <1>1, <1>2, <3>1, <3>4, <3>5, <3>6 DEF Calm, SignedInCalls
      <3>8. Agreement' /\ GivenUp'
        BY <1>1, <1>2, <1>3, <2>1, <3>1 DEF Calm, Agreement, GivenUp, Out
      <3> QED
        BY <3>3, <3>7, <3>8 DEF Calm
    <2> QED
      BY <2>2, <2>3, <2>4, <2>5 DEF WebInv
  \* It starts the refresh and owns it.
  <1>8. CASE /\ ~isRefreshing
             /\ retried' = retried \union {c} /\ isRefreshing' = TRUE /\ owner' = c
             /\ Send(c, {"refresh"}, jar)
             /\ UNCHANGED pendingQueue
    <2>1. {"refresh"} \in SUBSET {"refresh"}
      OBVIOUS
    <2>2. /\ flight' \in [Calls -> Cookies \union {None}]
          /\ crossed' \in BOOLEAN
          /\ \A d \in {"refresh"} : flight'[d] = jar
          /\ flight'[c] = None
          /\ \A d \in Calls : d # c /\ d \notin {"refresh"} => flight'[d] = flight[d]
          /\ ~crossed' => /\ ~crossed /\ Calm
                          /\ \A d, e \in IdentityCalls :
                               flight'[d] # None /\ flight'[e] # None => d = e
      BY <1>1, <1>8, <2>1, InterceptedFacts
    <2>3. flight'["refresh"] = jar /\ jar # None
      BY <2>2, WebNames DEF WebInv, WebTypeOK
    <2> USE DEF Calls, AuthCalls, Intercepted, StoreCalls
    <2>4. WebTypeOK'
      BY <1>1, <1>2, <1>5, <1>8, <2>2 DEF WebInv, WebTypeOK
    <2>5. Refresher' /\ NoWaiterForgotten' /\ AppIsSignedIn' /\ Restoring'
      BY <1>1, <1>2, <1>3, <1>8, <2>2, <2>3
         DEF WebInv, Refresher, NoWaiterForgotten, AppIsSignedIn, Restoring, Out
    <2>6. LoginAwaits'
      BY <1>3, <1>5, <1>8, <2>2 DEF WebInv, LoginAwaits, Out
    <2>7. ASSUME ~crossed'
          PROVE  Calm'
      <3>1. /\ Calm
            /\ \A d \in Calls : d # "refresh" /\ flight'[d] # None => flight'[d] = flight[d]
        BY <2>2, <2>7
      <3>2. Alone' /\ SentAsNow'
        BY <1>1, <1>8, <2>2, <2>3, <2>7, <3>1 DEF Calm, Alone, SentAsNow, Out, IdentityCalls
      <3>3. \A d \in StoreCalls : Runs(d)' => Runs(d)
        BY <1>1, <1>8, <3>1 DEF Runs, Out
      <3>4. Runs("impersonate")' => before' = jar'.sub
        BY <1>1, <1>5, <3>1, <3>3 DEF Calm, SignedInCalls, Runs, Out
      <3>5. Out("me")' => Out("me") /\ loginToken' = loginToken
        BY <1>5, <3>1 DEF Out
      <3>6. SignedInCalls'
        BY <1>1, <1>2, <3>1, <3>3, <3>4, <3>5 DEF Calm, SignedInCalls
      <3>7. Agreement' /\ GivenUp'
        BY <1>1, <1>2, <1>3, <2>2, <3>1 DEF Calm, Agreement, GivenUp, Out
      <3> QED
        BY <3>2, <3>6, <3>7 DEF Calm
    <2> QED
      BY <2>4, <2>5, <2>6, <2>7 DEF WebInv
  <1> QED
    BY <1>6, <1>7, <1>8 DEF Unauthorized

\* A store call is answered: what is left to show is that the new store is that
\* of the new cookies.
LEMMA StoreCallStep ==
    ASSUME WebInv, NEW c \in StoreCalls, Answered(c),
           jar' \in Cookies, store' \in Store, accessToken' \in Nobody,
           authReady' \in BOOLEAN, authReady => authReady',
           path' \in Pages, path' = "app" => store'.isAuthenticated,
           leaving' \in {leaving, "app"},
           ~crossed /\ Calm => Agreement'
    PROVE  WebInv'
  <1>1. /\ Out(c) /\ Send(c, {}, jar) /\ Locals(loginToken, before)
        /\ retried' = retried \ {c}
        /\ UNCHANGED <<isRefreshing, pendingQueue, owner>>
    BY DEF Answered
  <1>2. jar \in Cookies /\ loginToken \in Nobody /\ before \in Nobody
    BY DEF WebInv, WebTypeOK
  <1>3. /\ c \in IdentityCalls /\ c \in Calls /\ {} \in SUBSET Calls
        /\ c # "refresh" /\ c # "giveup" /\ c # "token"
    BY DEF IdentityCalls, Calls, Intercepted, StoreCalls
  <1>4. /\ flight' \in [Calls -> Cookies \union {None}]
        /\ crossed' \in BOOLEAN
        /\ flight'[c] = None
        /\ \A d \in Calls : d # c => flight'[d] = flight[d]
        /\ ~crossed' => /\ ~crossed /\ Calm /\ Alone' /\ SentAsNow'
                        /\ \A d \in IdentityCalls : flight'[d] = None
    BY <1>1, <1>2, <1>3, AnswerFacts
  <1>5. /\ loginToken' \in Nobody /\ before' \in Nobody
        /\ flight'["me"] # None => loginToken' = loginToken
    BY <1>1, <1>2, LocalsFacts
  <1> USE DEF Calls, AuthCalls, Intercepted, StoreCalls
  <1>6. WebTypeOK'
    BY <1>1, <1>4, <1>5 DEF WebInv, WebTypeOK, Pages
  <1>7. Refresher' /\ NoWaiterForgotten' /\ AppIsSignedIn' /\ Restoring'
    BY <1>1, <1>3, <1>4 DEF WebInv, Refresher, NoWaiterForgotten, AppIsSignedIn, Restoring, Out
  <1>8. LoginAwaits'
    BY <1>1, <1>4, <1>5 DEF WebInv, LoginAwaits, Out
  <1>9. ASSUME ~crossed'
        PROVE  Calm'
    <2>1. SignedInCalls'
      BY <1>4, <1>9 DEF SignedInCalls, Runs, Out, IdentityCalls
    <2>2. Agreement'
      BY <1>4, <1>9
    <2>3. leaving # "login"
      <3>1. CASE c = "me"
        BY <1>1, <1>4, <1>9, <3>1 DEF Calm, GivenUp
      <3>2. CASE c # "me"
        BY <1>1, <1>4, <1>9, <3>2 DEF Calm, SignedInCalls, Runs, GivenUp
      <3> QED
        BY <3>1, <3>2
    <2>4. GivenUp'
      BY <1>4, <1>9, <2>3 DEF GivenUp, Out, IdentityCalls
    <2> QED
      BY <1>4, <1>9, <2>1, <2>2, <2>4 DEF Calm
  <1> QED
    BY <1>6, <1>7, <1>8, <1>9 DEF WebInv

\* The caller of a call other than getMe is the user of the cookies it carries.
LEMMA CallerFacts ==
    ASSUME WebInv, NEW c \in StoreCalls \ {"me"}, Out(c), Caller(c) # None
    PROVE  /\ Caller(c) = flight[c].sub /\ Caller(c) \in Nobody
           /\ flight[c].by \in Nobody
           /\ ~crossed /\ Calm => /\ Caller(c) = jar.sub /\ flight[c].by = jar.by
                                  /\ ~Out("me") /\ store.isAuthenticated
  <1>1. c \in Calls /\ c \in IdentityCalls /\ "me" \in IdentityCalls
    BY DEF Calls, Intercepted, IdentityCalls, StoreCalls
  <1>2. flight[c] \in Cookies
    BY <1>1 DEF WebInv, WebTypeOK, Out
  <1>3. Caller(c) = flight[c].sub
    BY DEF Caller
  <1>4. Calm => /\ flight[c].sub = jar.sub /\ flight[c].by = jar.by
                /\ ~Out("me") /\ store.isAuthenticated
    BY <1>1 DEF Calm, Alone, SentAsNow, SignedInCalls, Runs
  <1> QED
    BY <1>2, <1>3, <1>4 DEF Cookies

LEMMA MeAnsweredStep ==
    ASSUME WebInv, MeAnswered
    PROVE  WebInv'
  <1> DEFINE s == [user |-> loginToken, isAuthenticated |-> TRUE, isImpersonating |-> FALSE,
                   originalUser |-> None]
  <1>1. Answered("me") /\ Out("me") /\ UNCHANGED <<jar, leaving>>
    BY DEF MeAnswered, Answered
  <1>2. Caller("me") = loginToken /\ loginToken \in Nobody /\ jar \in Cookies
    BY <1>1, MeHasCaller DEF WebInv, WebTypeOK
  <1>3. SetStore(s, loginToken, "app") /\ s \in Store /\ "app" \in Pages
    BY <1>2 DEF MeAnswered, Store, Nobody, Pages
  <1>4. /\ store' = s /\ accessToken' = loginToken
        /\ authReady' \in BOOLEAN /\ (authReady => authReady')
        /\ path' \in Pages /\ (path' = "app" => s.isAuthenticated)
    BY <1>2, <1>3, SetStoreFacts DEF WebInv
  <1>5. Calm => Agreement'
    BY <1>1, <1>4 DEF Calm, SignedInCalls, Agreement
  <1>6. "me" \in StoreCalls
    BY DEF StoreCalls
  <1> QED
    BY <1>1, <1>2, <1>3, <1>4, <1>5, <1>6, StoreCallStep

LEMMA ImpersonateAnsweredStep ==
    ASSUME WebInv, NEW t \in Users, ImpersonateAnswered(t)
    PROVE  WebInv'
  <1> DEFINE u == Caller("impersonate")
             s == [user |-> t, isAuthenticated |-> store.isAuthenticated,
                   isImpersonating |-> TRUE, originalUser |-> before]
  <1>1. /\ Answered("impersonate") /\ Out("impersonate") /\ u # None
        /\ jar' = Issue(t, u) /\ leaving' = leaving
        /\ "impersonate" \in StoreCalls \ {"me"}
    BY DEF ImpersonateAnswered, Answered, StoreCalls
  <1>2. store \in Store /\ before \in Nobody /\ t \in Nobody
    BY DEF WebInv, WebTypeOK, Nobody
  <1>3. u \in Nobody /\ (~crossed /\ Calm => u = jar.sub)
    BY <1>1, CallerFacts
  <1>4. s \in Store /\ SetStore(s, t, "app") /\ "app" \in Pages
    <2>1. s \in Store
      BY <1>2 DEF Store
    <2>2. [store EXCEPT !.user = t, !.isImpersonating = TRUE, !.originalUser = before] = s
      BY <1>2, StoreExcept, Zenon
    <2>3. SetStore([store EXCEPT !.user = t, !.isImpersonating = TRUE,
                                 !.originalUser = before], t, "app")
      BY DEF ImpersonateAnswered
    <2> QED
      BY <2>1, <2>2, <2>3 DEF Pages
  <1>5. /\ store' = s /\ accessToken' = t /\ authReady' \in BOOLEAN /\ (authReady => authReady')
        /\ path' \in Pages /\ (path' = "app" => s.isAuthenticated)
    BY <1>2, <1>4, SetStoreFacts DEF WebInv
  <1>6. jar' \in Cookies /\ jar'.sub = t /\ jar'.by = u
    <2>1. Issue(t, u) \in Cookies
      BY <1>2, <1>3, JarFacts DEF WebInv
    <2> QED
      BY <1>1, <2>1 DEF Issue
  <1>7. ~crossed /\ Calm => Agreement'
    <2>1. Calm => before = jar.sub
      BY <1>1 DEF Calm, SignedInCalls, Runs
    <2> HIDE DEF u
    <2> QED
      BY <1>1, <1>3, <1>5, <1>6, <2>1 DEF Agreement
  <1> QED
    BY <1>1, <1>2, <1>4, <1>5, <1>6, <1>7, StoreCallStep

LEMMA StopAnsweredStep ==
    ASSUME WebInv, StopAnswered
    PROVE  WebInv'
  <1> DEFINE u == flight["stop"].by
             s == [user |-> u, isAuthenticated |-> store.isAuthenticated,
                   isImpersonating |-> FALSE, originalUser |-> None]
  <1>1. /\ Answered("stop") /\ Out("stop") /\ Caller("stop") # None
        /\ jar' = Issue(u, None) /\ leaving' = "app"
        /\ "stop" \in StoreCalls \ {"me"}
    BY DEF StopAnswered, Answered, StoreCalls
  <1>2. store \in Store /\ path \in Pages /\ None \in Nobody
    BY DEF WebInv, WebTypeOK, Nobody, Pages
  <1>3. u \in Nobody
    BY <1>1, CallerFacts
  <1>4. s \in Store /\ SetStore(s, u, path)
    <2>1. s \in Store
      BY <1>2, <1>3 DEF Store
    <2>2. [store EXCEPT !.user = u, !.isImpersonating = FALSE, !.originalUser = None] = s
      BY <1>2, StoreExcept, Zenon
    <2>3. SetStore([store EXCEPT !.user = u, !.isImpersonating = FALSE,
                                 !.originalUser = None], u, path)
      BY DEF StopAnswered
    <2> QED
      BY <2>1, <2>2, <2>3
  <1>5. /\ store' = s /\ accessToken' = u /\ authReady' \in BOOLEAN /\ (authReady => authReady')
        /\ path' \in Pages /\ (path' = "app" => s.isAuthenticated)
    BY <1>2, <1>3, <1>4, SetStoreFacts DEF WebInv
  <1>6. jar' \in Cookies /\ jar'.sub = u /\ jar'.by = None
    <2>1. Issue(u, None) \in Cookies
      BY <1>2, <1>3, JarFacts DEF WebInv
    <2> QED
      BY <1>1, <2>1 DEF Issue
  <1>7. Agreement'
    BY <1>5, <1>6 DEF Agreement
  <1> QED
    BY <1>1, <1>3, <1>4, <1>5, <1>6, <1>7, StoreCallStep

LEMMA ProfileAnsweredStep ==
    ASSUME WebInv, ProfileAnswered
    PROVE  WebInv'
  <1> DEFINE u == Caller("profile")
             s == [user |-> u, isAuthenticated |-> TRUE,
                   isImpersonating |-> store.isImpersonating,
                   originalUser |-> store.originalUser]
  <1>1. /\ Answered("profile") /\ Out("profile") /\ u # None
        /\ UNCHANGED <<jar, leaving>>
        /\ "profile" \in StoreCalls \ {"me"}
    BY DEF ProfileAnswered, Answered, StoreCalls
  <1>2. store \in Store /\ path \in Pages /\ accessToken \in Nobody /\ jar \in Cookies
    BY DEF WebInv, WebTypeOK, Pages
  <1>3. u \in Nobody /\ (~crossed /\ Calm => u = jar.sub /\ ~Out("me") /\ store.isAuthenticated)
    BY <1>1, CallerFacts
  <1>4. s \in Store /\ SetStore(s, accessToken, path)
    <2>1. s \in Store
      BY <1>2, <1>3 DEF Store
    <2>2. [store EXCEPT !.user = u, !.isAuthenticated = TRUE] = s
      BY <1>2, StoreExceptUser
    <2>3. SetStore([store EXCEPT !.user = u, !.isAuthenticated = TRUE], accessToken, path)
      BY DEF ProfileAnswered
    <2> QED
      BY <2>1, <2>2, <2>3
  <1>5. /\ store' = s /\ accessToken' = accessToken
        /\ authReady' \in BOOLEAN /\ (authReady => authReady')
        /\ path' \in Pages /\ (path' = "app" => s.isAuthenticated)
    BY <1>2, <1>4, SetStoreFacts DEF WebInv
  <1>6. ~crossed /\ Calm => Agreement'
    <2> HIDE DEF u
    <2> QED
      BY <1>1, <1>3, <1>5 DEF Calm, Agreement
  <1> QED
    BY <1>1, <1>2, <1>4, <1>5, <1>6, StoreCallStep

---------------------------------------------------------------------------
(* Every step                                                              *)

LEMMA ClickStep ==
    ASSUME WebInv, SubmitLogin \/ ClickLogout \/ ClickImpersonate \/ ClickStop \/ SaveProfile
    PROVE  WebInv'
  <1> USE DEF Calls, AuthCalls, Intercepted, StoreCalls
  <1>1. CASE SubmitLogin
    BY <1>1, UserStep DEF SubmitLogin
  <1>2. CASE ClickLogout
    BY <1>2, UserStep DEF ClickLogout
  <1>3. CASE ClickImpersonate
    BY <1>3, UserStep DEF ClickImpersonate
  <1>4. CASE ClickStop
    BY <1>4, UserStep DEF ClickStop
  <1>5. CASE SaveProfile
    BY <1>5, UserStep DEF SaveProfile
  <1> QED
    BY <1>1, <1>2, <1>3, <1>4, <1>5

LEMMA PageRequestStep ==
    ASSUME WebInv, NEW r \in Requests, PageRequest(r)
    PROVE  WebInv'
  <1>1. /\ r \in Calls \ {"restore", "refresh", "giveup", "me"}
        /\ r # "token" /\ r # "impersonate"
    BY WebNames DEF Calls, AuthCalls, Intercepted, StoreCalls
  <1> QED
    BY <1>1, UserStep DEF PageRequest

LEMMA AnswerStep ==
    ASSUME WebInv, NEW c \in Calls, Answer(c)
    PROVE  WebInv'
  <1>1. CASE TokenRefused \/ \E u \in Users : TokenIssued(u)
    BY <1>1, TokenRefusedStep, TokenIssuedStep
  <1>2. CASE \E lost \in BOOLEAN : RestoreAnswered(lost) \/ LogoutAnswered(lost)
    BY <1>2, RestoreAnsweredStep, LogoutAnsweredStep
  <1>3. CASE RefreshOk \/ \E lost \in BOOLEAN : RefreshFailed(lost) \/ GiveUpAnswered(lost)
    BY <1>3, RefreshOkStep, RefreshFailedStep, GiveUpAnsweredStep
  <1>4. CASE MeAnswered \/ StopAnswered \/ ProfileAnswered
    BY <1>4, MeAnsweredStep, StopAnsweredStep, ProfileAnsweredStep
  <1>5. CASE \E t \in Users : ImpersonateAnswered(t)
    BY <1>5, ImpersonateAnsweredStep
  <1>6. CASE c \in Requests /\ RequestAnswered(c)
    BY <1>6, RequestAnsweredStep
  <1>7. CASE c \in Intercepted /\ (Unauthorized(c) \/ Failed(c))
    BY <1>7, UnauthorizedStep, FailedStep
  <1> QED
    BY <1>1, <1>2, <1>3, <1>4, <1>5, <1>6, <1>7 DEF Answer

LEMMA WebNextInv == WebInv /\ [WebNext]_webVars => WebInv'
  <1> SUFFICES ASSUME WebInv, [WebNext]_webVars
               PROVE  WebInv'
    OBVIOUS
  <1>1. CASE SubmitLogin \/ ClickLogout \/ ClickImpersonate \/ ClickStop \/ SaveProfile
    BY <1>1, ClickStep
  <1>2. CASE \E r \in Requests : PageRequest(r)
    BY <1>2, PageRequestStep
  <1>3. CASE \E p \in {"landing", "login", "app"} : GoTo(p) \/ Reload(p)
    BY <1>3, GoToStep, LoadPageStep DEF Reload, Pages
  <1>4. CASE Unload
    <2>1. LoadPage(leaving) /\ leaving \in Pages
      BY <1>4 DEF Unload, WebInv, WebTypeOK, Pages
    <2> QED
      BY <2>1, LoadPageStep
  <1>5. CASE AccessExpires
    BY <1>5, AccessExpiresStep
  <1>6. CASE \E c \in Calls : Answer(c)
    BY <1>6, AnswerStep
  <1>7. CASE UNCHANGED webVars
    <2>1. /\ WebTypeOK' /\ Refresher' /\ NoWaiterForgotten' /\ LoginAwaits'
          /\ AppIsSignedIn' /\ Restoring'
      BY <1>7 DEF webVars, WebInv, WebTypeOK, Refresher, NoWaiterForgotten, LoginAwaits,
                  AppIsSignedIn, Restoring, Out
    <2>2. ~crossed' => Calm'
      BY <1>7 DEF webVars, WebInv, Calm, Alone, SentAsNow, GivenUp, SignedInCalls, Runs,
                  Agreement, Out
    <2> QED
      BY <2>1, <2>2 DEF WebInv
  <1> QED
    BY <1>1, <1>2, <1>3, <1>4, <1>5, <1>6, <1>7 DEF WebNext

---------------------------------------------------------------------------
(* The theorems                                                            *)

\* The inductive invariant: as long as no two identity calls cross, one call at
\* a time has the session in its hands, with the cookies of now.
THEOREM WebInductiveInvariant == WebSpec => []WebInv
  BY WebInitInv, WebNextInv, PTL DEF WebSpec

\* Every variable of the session keeps its type.
THEOREM WebTypeCorrect == WebSpec => []WebTypeOK
  BY WebInductiveInvariant, PTL DEF WebInv

\* drainQueue: a request waits for a refresh only while the interceptor is at
\* one, or on a page that is being left.
THEOREM NobodyForgotten == WebSpec => []NoWaiterForgotten
  BY WebInductiveInvariant, PTL DEF WebInv

\* The page shows the user the server answers for, through logins, reloads,
\* restores, expiry, sign-outs and impersonation there and back, as long as the
\* calls that change the session come one at a time.
THEOREM StoreIsOfTheCookies == WebSpec => []StoreAgreesWithCookies
  <1>1. WebInv => StoreAgreesWithCookies
    BY DEF WebInv, Calm, Agreement, StoreAgreesWithCookies, Open, IdentityCalls, StoreCalls
  <1> QED
    BY <1>1, WebInductiveInvariant, PTL

\* A session that the interceptor has given up is shown as signed out until the
\* page is left.
THEOREM GivenUpStaysSignedOut == WebSpec => []GivenUpIsSignedOut
  <1>1. WebInv => GivenUpIsSignedOut
    BY DEF WebInv, AppIsSignedIn, Calm, GivenUp, GivenUpIsSignedOut
  <1> QED
    BY <1>1, WebInductiveInvariant, PTL

\* Whatever intercepted call the page still awaits, the call itself, the
\* refresh or the logout after it is out, or the page is being left.  Fairness
\* brings on the answer of each but that logout, which has no timeout.
SomeAnswerIsDue ==
    \A c \in Intercepted :
        Open(c) => Out(c) \/ Out("refresh") \/ Out("giveup") \/ leaving # "no"

\* No deadlock of the interceptor: the part of EveryRequestSettles that holds in
\* every state.
THEOREM NoWaitWithoutAnswer == WebSpec => []SomeAnswerIsDue
  <1>1. WebInv => SomeAnswerIsDue
    BY WebNames
       DEF WebInv, Refresher, NoWaiterForgotten, SomeAnswerIsDue, Open, Intercepted, Calls
  <1> QED
    BY <1>1, WebInductiveInvariant, PTL

\* An interceptor that is at a refresh has one call of its own out and no more,
\* and one that is not has none: however many requests meet a 401 at a time,
\* they share one refresh.
THEOREM OneRefreshAtATime == WebSpec => []Refresher
  BY WebInductiveInvariant, PTL DEF WebInv

\* A page that is not ready has its restoration under way, also when calls
\* cross: the part of LandingOpens that holds in every state.
THEOREM LandingAwaitsAnAnswer == WebSpec => []Restoring
  BY WebInductiveInvariant, PTL DEF WebInv
============================================================================
