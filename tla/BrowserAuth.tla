---------------------------- MODULE BrowserAuth ------------------------------
(***************************************************************************)
(* The single-page application's side of a session: AuthStore, the retry   *)
(* of an unauthorised request in requestResponse, and the view logic of     *)
(* App.svelte that decides which of them the user can reach.  Tabs of one  *)
(* browser share the refresh cookie; each keeps its access token, its      *)
(* generation and its refresh attempt in memory.                           *)
(*                                                                         *)
(* The server is Sessions.  A response reaches a tab in two steps: the     *)
(* browser stores its Set-Cookie when the headers arrive, and the promise   *)
(* of the call is resolved later, when other code may have run.            *)
(***************************************************************************)
EXTENDS Sessions, FiniteSets

CONSTANTS
  Tabs,
  MaxGen,    \* bound on the generation from which a sign-in starts
  Faults     \* what may go wrong in an instance: any of FaultKinds

FaultKinds == {"failure", "loss", "expiry", "reload"}
ASSUME FaultsAssumption == Faults \subseteq FaultKinds
ASSUME TabsAssumption == None \notin Tabs

VARIABLES
  jar,       \* the refresh cookie
  tab,       \* the state of each tab's AuthStore
  ctx,       \* what the client knows of each call
  dropped,   \* history: the sessions a Set-Cookie of which was lost
  spentBy    \* history: the page that redeemed each token, None if it is gone

clientVars == <<jar, tab, ctx, dropped, spentBy>>
vars == <<sessionVars, clientVars>>

-----------------------------------------------------------------------------
Tab == [status : {"closed", "starting", "open"},  \* no page, init() running, usable
        gen : Nat,                                \* #generation
        user : Users \union {None},               \* user and accessToken, set together
        attempt : Calls \union {None},            \* #refreshAttempt
        unavailable : BOOLEAN,                    \* renewalUnavailable
        loggingOut : BOOLEAN,
        shown : Users \union {None}]              \* whose data the stores hold

FreshTab == [status |-> "closed", gen |-> 0, user |-> None, attempt |-> None,
             unavailable |-> FALSE, loggingOut |-> FALSE, shown |-> None]

Ctx == [tab : Tabs \union {None},             \* None: the page is gone
        gen : Nat,                            \* the generation it was started under
        cookie : Tokens \union {NoCookie},    \* the jar when it was sent
        stored : BOOLEAN,                     \* the Set-Cookie of its response was stored
        waits : Calls \union {None},          \* the refresh attempt it awaits
        outcome : {"none", "refreshed", "unavailable", "ended"},  \* ... and its result
        retry : BOOLEAN,                      \* it was sent a second time
        old : BOOLEAN]                        \* history: a sign-out of its tab came after it

NoCtx == [tab |-> None, gen |-> 0, cookie |-> NoCookie, stored |-> FALSE, waits |-> None,
          outcome |-> "none", retry |-> FALSE, old |-> FALSE]

SignedIn(t) == tab[t].user # None      \* isAuthenticated

\* The promise of the call is about to be resolved.
Resolved(c, kind) ==
  /\ call[c].kind = kind /\ call[c].stage = "answered"
  /\ ctx[c].tab # None /\ ctx[c].stored
  /\ ctx[c].waits = None /\ ctx[c].outcome = "none"

Stale(c) == ctx[c].gen # tab[ctx[c].tab].gen

\* Defect: the stores keep the previous user's data when the generation changes.
RedrawUserOnly(t, n) == [n EXCEPT !.shown = IF n.user = None THEN None ELSE @]

\* The new state n of tab t after App.svelte's effect: the stores are reset
\* when the session goes away or its generation changes.
Redraw(t, n) ==
  [n EXCEPT !.shown = IF n.user = None \/ n.gen # tab[t].gen THEN None ELSE @]

Becomes(t, n) == tab' = [tab EXCEPT ![t] = Redraw(t, n)]

\* The calls of t that a sign-out leaves behind.
Aged(t, n, f) ==
  [c \in Calls |-> IF f[c].tab = t /\ SignedIn(t) /\ n.user = None
                     THEN [f[c] EXCEPT !.old = TRUE] ELSE f[c]]

\* fetch: the browser attaches the cookie it holds at that moment.
Send(c, kind, user) ==
  Arrive(c, kind, IF kind \in {"renew", "logout"} THEN jar ELSE NoCookie, user)

SentBy(t, gen) == [NoCtx EXCEPT !.tab = t, !.gen = gen, !.cookie = jar]

Done(c) == Finish(c) /\ UNCHANGED <<jar, dropped, spentBy>>

-----------------------------------------------------------------------------
(* What the user does.                                                     *)

\* A page is opened or reloaded: the old page's state and promises are gone,
\* and init() tries to restore the session.
Load(t, c) ==
  /\ tab[t].status = "closed" \/ "reload" \in Faults
  /\ call[c].stage = "idle"
  /\ Send(c, "renew", None)
  /\ tab' = [tab EXCEPT ![t] = [FreshTab EXCEPT !.status = "starting", !.attempt = c]]
  /\ ctx' = [d \in Calls |-> IF d = c THEN SentBy(t, 0)
                             ELSE IF ctx[d].tab = t THEN [NoCtx EXCEPT !.stored = ctx[d].stored]
                             ELSE ctx[d]]
  /\ spentBy' = [n \in Tokens |-> IF spentBy[n] = t THEN None ELSE spentBy[n]]
  /\ UNCHANGED <<jar, dropped>>

\* login(): reachable from the sign-in view only.
SubmitLogin(t, c, user) ==
  LET gen == tab[t].gen + 1 IN
  /\ tab[t].status = "open" /\ ~SignedIn(t) /\ ~tab[t].unavailable /\ ~tab[t].loggingOut
  /\ tab[t].gen < MaxGen
  /\ call[c].stage = "idle"
  /\ Send(c, "login", user)
  /\ Becomes(t, [tab[t] EXCEPT !.gen = gen])
  /\ ctx' = [ctx EXCEPT ![c] = SentBy(t, gen)]
  /\ UNCHANGED <<jar, dropped, spentBy>>

\* Defect: the generation is left alone.
LogoutSameGeneration(n) == [n EXCEPT !.loggingOut = TRUE, !.user = None, !.unavailable = FALSE]

\* What logout() does to the tab before its request.
LoggedOut(n) ==
  [n EXCEPT !.loggingOut = TRUE, !.gen = @ + 1, !.user = None, !.unavailable = FALSE]

ClickLogout(t, c) ==
  LET n == LoggedOut(tab[t]) IN
  /\ tab[t].status = "open" /\ SignedIn(t)
  /\ call[c].stage = "idle"
  /\ Send(c, "logout", None)
  /\ Becomes(t, n)
  /\ ctx' = Aged(t, n, [ctx EXCEPT ![c] = SentBy(t, n.gen)])
  /\ UNCHANGED <<jar, dropped, spentBy>>

\* A store asks for data with the access token.  (Calls bounds what is in
\* flight: one slot is left for the refresh a 401 may call for.)
LoadData(t, c) ==
  /\ tab[t].status = "open" /\ SignedIn(t)
  /\ call[c].stage = "idle" /\ \E d \in Calls \ {c} : call[d].stage = "idle"
  /\ Send(c, "data", tab[t].user)
  /\ ctx' = [ctx EXCEPT ![c] = SentBy(t, tab[t].gen)]
  /\ UNCHANGED <<jar, tab, dropped, spentBy>>

-----------------------------------------------------------------------------
(* tryRefresh.                                                             *)

\* Defect: every caller starts an attempt of its own.
NeverUnderWay(t) == FALSE

UnderWay(t) == tab[t].attempt # None /\ ctx[tab[t].attempt].gen = tab[t].gen

\* A new attempt c of tab t; f is what becomes of the other calls.
StartRefresh(t, c, f) ==
  /\ call[c].stage = "idle"
  /\ Send(c, "renew", None)
  /\ tab' = [tab EXCEPT ![t].attempt = c]
  /\ ctx' = [f EXCEPT ![c] = SentBy(t, tab[t].gen)]

\* The Retry button of the "couldn't restore your session" message.
RetryRefresh(t, c) ==
  /\ tab[t].status = "open" /\ tab[t].unavailable
  /\ ~UnderWay(t)
  /\ StartRefresh(t, c, ctx)
  /\ UNCHANGED <<jar, dropped, spentBy>>

Invalidated(n) == [n EXCEPT !.gen = @ + 1, !.user = None, !.unavailable = FALSE]

\* Defect: an identity change keeps the generation.
RefreshedSameGeneration(t, user) == [tab[t] EXCEPT !.user = user, !.unavailable = FALSE]

\* A successful renewal; the generation changes with the identity.
Refreshed(t, user) ==
  [tab[t] EXCEPT !.gen = IF SignedIn(t) /\ tab[t].user # user THEN @ + 1 ELSE @,
                 !.user = user, !.unavailable = FALSE]

\* Defect: the generation is not compared after the request.
AfterRefreshAnyGeneration(t, c) ==
  CASE call[c].code = "ok" -> Refreshed(t, call[c].user)
    [] call[c].code = "error" -> [tab[t] EXCEPT !.unavailable = TRUE]
    [] OTHER -> Invalidated(tab[t])

\* #performRefresh once its request is answered.
AfterRefresh(t, c) ==
  CASE Stale(c) -> tab[t]
    [] ~Stale(c) /\ call[c].code = "ok" -> Refreshed(t, call[c].user)
    [] ~Stale(c) /\ call[c].code = "error" -> [tab[t] EXCEPT !.unavailable = TRUE]
    [] OTHER -> Invalidated(tab[t])

Outcome(c) ==
  CASE call[c].code = "ok" -> "refreshed"
    [] call[c].code = "error" -> "unavailable"
    [] OTHER -> "ended"

\* Defect: the attempt stays registered after it ended.
Registered(attempt, c) == attempt

\* finally: the attempt is forgotten, unless a newer one has replaced it.
Forget(attempt, c) == IF attempt = c THEN None ELSE attempt

\* Defect: only a successful attempt is reported.
ToldOfSuccess(c) ==
  [d \in Calls |-> IF ctx[d].waits = c /\ Outcome(c) = "refreshed"
                     THEN [ctx[d] EXCEPT !.waits = None, !.outcome = Outcome(c)] ELSE ctx[d]]

\* Those that await the attempt are told its outcome.
Told(c) ==
  [d \in Calls |-> IF ctx[d].waits = c
                     THEN [ctx[d] EXCEPT !.waits = None, !.outcome = Outcome(c)] ELSE ctx[d]]

\* The attempt ends, and init() with it if it was init's.
ApplyRefresh(c) ==
  LET t == ctx[c].tab
      n == [AfterRefresh(t, c) EXCEPT !.status = "open", !.attempt = Forget(@, c)]
  IN
  /\ Resolved(c, "renew")
  /\ Becomes(t, n)
  /\ ctx' = Aged(t, n, [Told(c) EXCEPT ![c] = NoCtx])
  /\ Done(c)

-----------------------------------------------------------------------------
(* The other answers.                                                      *)

ApplyLogin(c) ==
  LET t == ctx[c].tab IN
  /\ Resolved(c, "login")
  /\ Becomes(t, IF call[c].code = "ok" /\ ~Stale(c)
                  THEN [tab[t] EXCEPT !.user = call[c].user] ELSE tab[t])
  /\ ctx' = [ctx EXCEPT ![c] = NoCtx]
  /\ Done(c)

ApplyLogout(c) ==
  /\ Resolved(c, "logout")
  /\ Becomes(ctx[c].tab, [tab[ctx[c].tab] EXCEPT !.loggingOut = FALSE])
  /\ ctx' = [ctx EXCEPT ![c] = NoCtx]
  /\ Done(c)

\* The first answer to a request is 401: it waits for a refresh attempt.
AwaitRefresh(c, d) ==
  LET t == ctx[c].tab IN
  /\ Resolved(c, "data") /\ ~Stale(c)
  /\ call[c].code = "denied" /\ ~ctx[c].retry
  /\ \/ /\ UnderWay(t) /\ d = tab[t].attempt
        /\ ctx' = [ctx EXCEPT ![c].waits = d]
        /\ UNCHANGED <<sessionVars, tab>>
     \/ /\ ~UnderWay(t)
        /\ StartRefresh(t, d, [ctx EXCEPT ![c].waits = d])
  /\ UNCHANGED <<jar, dropped, spentBy>>

\* The attempt is over: the request is sent again, or given up.
Resume(c) ==
  LET t == ctx[c].tab IN
  /\ t # None /\ ctx[c].outcome # "none"
  /\ \/ /\ ctx[c].outcome = "refreshed" /\ ~Stale(c)
        /\ Send(c, "data", tab[t].user)
        /\ ctx' = [ctx EXCEPT ![c] = [SentBy(t, ctx[c].gen) EXCEPT !.retry = TRUE]]
        /\ UNCHANGED <<jar, dropped, spentBy>>
     \/ /\ ctx[c].outcome # "refreshed" \/ Stale(c)
        /\ ctx' = [ctx EXCEPT ![c] = NoCtx]
        /\ Done(c)
  /\ UNCHANGED tab

\* A request's result reaches the store that asked, unless the generation
\* changed meanwhile.
ApplyData(c) ==
  LET t == ctx[c].tab IN
  /\ Resolved(c, "data")
  /\ Stale(c) \/ call[c].code # "denied" \/ ctx[c].retry
  /\ Becomes(t, IF call[c].code = "ok" /\ ~Stale(c)
                  THEN [tab[t] EXCEPT !.shown = call[c].user] ELSE tab[t])
  /\ ctx' = [ctx EXCEPT ![c] = NoCtx]
  /\ Done(c)

-----------------------------------------------------------------------------
(* The browser and the network.                                            *)

\* The headers of a response arrive.  An expired cookie is not kept.
StoreCookie(c) ==
  /\ call[c].stage = "answered" /\ ctx[c].tab # None /\ ~ctx[c].stored
  /\ jar' = CASE call[c].setCookie = Keep -> jar
              [] call[c].setCookie # Keep /\ Expired(call[c].setCookie) -> NoCookie
              [] OTHER -> call[c].setCookie
  /\ ctx' = [ctx EXCEPT ![c].stored = TRUE]
  /\ UNCHANGED <<sessionVars, tab, dropped, spentBy>>

DropCookie(c) ==
  dropped' = dropped \union
    {s \in Tokens : call[c].setCookie \in Tokens /\ sessionOf[call[c].setCookie] = s}

\* A response is lost before its headers arrive ...
LoseResponse(c) ==
  /\ "loss" \in Faults /\ ctx[c].tab # None /\ ~ctx[c].stored
  /\ Lose(c) /\ DropCookie(c)
  /\ UNCHANGED <<jar, tab, ctx, spentBy>>

\* ... or in the middle of its body.
LoseBody(c) ==
  /\ "loss" \in Faults
  /\ \E kind \in {"login", "renew", "data"} : Resolved(c, kind)
  /\ Lose(c)
  /\ UNCHANGED clientVars

\* A response for a page that is gone is dropped, and its cookie with it.
Discard(c) ==
  /\ ctx[c].tab = None
  /\ Finish(c)
  /\ ctx' = [ctx EXCEPT ![c] = NoCtx]
  /\ IF ctx[c].stored THEN UNCHANGED dropped ELSE DropCookie(c)
  /\ UNCHANGED <<jar, tab, spentBy>>

\* A token expires, and the cookie that holds it.
ExpireCookie ==
  /\ "expiry" \in Faults /\ Expire
  /\ jar' = IF jar = expired' THEN NoCookie ELSE jar
  /\ UNCHANGED <<tab, ctx, dropped, spentBy>>

\* The server works on a call.
ServeCall(c) ==
  /\ Serve(c)
  /\ spentBy' = IF count' > count /\ call[c].kind = "renew"
                  THEN [spentBy EXCEPT ![call[c].cookie] = ctx[c].tab] ELSE spentBy
  /\ UNCHANGED <<jar, tab, ctx, dropped>>

FailCall(c) == "failure" \in Faults /\ Fail(c) /\ UNCHANGED clientVars

Init ==
  /\ SessionsInit
  /\ jar = NoCookie
  /\ tab = [t \in Tabs |-> FreshTab]
  /\ ctx = [c \in Calls |-> NoCtx]
  /\ dropped = {}
  /\ spentBy = [n \in Tokens |-> None]

\* The rest of a call's life once it was sent, losses aside.
Progress(c) ==
  \/ ServeCall(c) \/ StoreCookie(c) \/ Discard(c)
  \/ ApplyRefresh(c) \/ ApplyLogin(c) \/ ApplyLogout(c) \/ ApplyData(c) \/ Resume(c)
  \/ \E d \in Calls : AwaitRefresh(c, d)

Next ==
  \/ \E t \in Tabs, c \in Calls :
       \/ Load(t, c) \/ ClickLogout(t, c) \/ LoadData(t, c) \/ RetryRefresh(t, c)
       \/ \E user \in Users : SubmitLogin(t, c, user)
  \/ \E c \in Calls : Progress(c) \/ FailCall(c) \/ LoseResponse(c) \/ LoseBody(c)
  \/ ExpireCookie

Spec == Init /\ [][Next]_vars

-----------------------------------------------------------------------------
(* Properties.                                                             *)

TypeOK ==
  /\ SessionsTypeOK
  /\ jar \in 0 .. count
  /\ tab \in [Tabs -> Tab]
  /\ ctx \in [Calls -> Ctx]
  /\ dropped \subseteq Tokens
  /\ spentBy \in [Tokens -> Tabs \union {None}]
  /\ \A c \in Calls : call[c].stage = "idle" => ctx[c] = NoCtx
  /\ \A t \in Tabs : tab[t].attempt # None =>
       LET c == tab[t].attempt IN call[c].kind = "renew" /\ ctx[c].tab = t

\* What a tab shows was fetched with the access token of the user it now has:
\* no answer to a request of an earlier identity is delivered, though another
\* tab may replace the shared cookie and a refresh then change the identity.
ShownIsOwn == \A t \in Tabs : tab[t].shown \in {None, tab[t].user}

\* A tab that signed out is signed in again only by an answer to a request it
\* made afterwards, however late the answers to earlier requests arrive.
NoResurrection ==
  [][\A t \in Tabs :
       tab[t].user = None /\ tab'[t].user # None =>
         \E c \in Calls : /\ ctx[c].tab = t /\ call[c].kind \in {"login", "renew"}
                          /\ call'[c].stage = "idle" /\ ~ctx[c].old]_vars

\* Unless a response was lost, the cookie is the token its session is at, or
\* the response that will make it so is on its way, or the session is blocked.
JarRenewable ==
  jar # NoCookie =>
    LET row == rows[sessionOf[jar]] IN
    \/ row.blocked \/ row.token = jar \/ sessionOf[jar] \in dropped
    \/ \E c \in Calls : call[c].stage = "answered" /\ call[c].setCookie = row.token

\* A tab never ends its own session by renewing it twice: if its renewal is
\* refused the token expired, the session was blocked, a response was lost, or
\* another page spent the token.
OwnTokenSpentOnce ==
  \A c \in Calls :
    Resolved(c, "renew") /\ ~Stale(c) /\ call[c].code = "denied" =>
      LET s == sessionOf[ctx[c].cookie] IN
      \/ Expired(ctx[c].cookie) \/ rows[s].blocked \/ s \in dropped
      \/ spentBy[ctx[c].cookie] # ctx[c].tab

\* A request that waits for a refresh attempt waits for one that is under way
\* in its own tab and does not wait itself: none is left behind when an
\* attempt ends, fails, is superseded or was started before a sign-out.
WaitersCovered ==
  \A c \in Calls :
    ctx[c].waits # None =>
      LET d == ctx[c].waits IN
      /\ call[d].kind = "renew" /\ call[d].stage # "idle"
      /\ ctx[d].tab = ctx[c].tab /\ ctx[d].waits = None
=============================================================================
