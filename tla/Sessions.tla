------------------------------ MODULE Sessions ------------------------------
(***************************************************************************)
(* The server's side of a session: loginUser, renewToken with              *)
(* RotateSessionTx, logoutUser with BlockSession, and the middleware that   *)
(* accepts an access token.                                                *)
(*                                                                         *)
(* The client is left open: any call may arrive at any time with any       *)
(* refresh token ever issued, so what holds here holds for every client.   *)
(* BrowserAuth closes it with the single-page application.                 *)
(*                                                                         *)
(* A refresh token is the number of its issue.  All tokens of a session    *)
(* carry the session's id, which is the number of the token its login      *)
(* issued; a token's nonce keeps two tokens of one session apart, and the   *)
(* digests in the sessions table are equal exactly when the tokens are.    *)
(***************************************************************************)
EXTENDS Integers

CONSTANTS
  Calls,      \* HTTP calls in flight
  Users,      \* registered users
  Verified,   \* those whose e-mail address is verified: it never reverts
  MaxTokens,  \* bound on the refresh tokens issued
  None

ASSUME UsersAssumption == Verified \subseteq Users /\ None \notin Users
ASSUME CallsAssumption == None \notin Calls
ASSUME TokensAssumption == MaxTokens \in Nat

Tokens == 1 .. MaxTokens

VARIABLES
  count,      \* the refresh tokens issued so far
  sessionOf,  \* the session id in each token
  from,       \* the token it replaced, NoCookie for a login's
  rows,       \* the sessions table, by id
  lock,       \* the transaction that holds each row's lock
  expired,    \* the tokens 1 .. expired are past their expiry
  call        \* the calls and how far the server is with each

sessionVars == <<count, sessionOf, from, rows, lock, expired, call>>

-----------------------------------------------------------------------------
NoCookie == 0   \* no refresh cookie; in a response: the cookie is cleared
Keep == -1      \* a response without Set-Cookie

Kinds == {"login", "renew", "logout", "data"}
Codes == {"ok", "no_session", "denied", "forbidden", "error"}
Stages == {"idle", "sent", "verified", "locked", "answered"}

\* The digest of the token a row accepts, and is_blocked.
Row == [user : Users \union {None}, token : Tokens \union {NoCookie}, blocked : BOOLEAN]

Call == [kind : Kinds \union {None}, cookie : Tokens \union {NoCookie},
         user : Users \union {None}, stage : Stages, asOf : Tokens \union {0},
         code : Codes \union {None}, setCookie : Tokens \union {NoCookie, Keep}]

IdleCall == [kind |-> None, cookie |-> NoCookie, user |-> None, stage |-> "idle",
             asOf |-> 0, code |-> None, setCookie |-> Keep]

Expired(token) == token <= expired
SessionIn(c) == sessionOf[call[c].cookie]

Advance(c, stage) == call' = [call EXCEPT ![c].stage = stage]

\* The response: its status, the user in its body, and its Set-Cookie.
RespondTo(c, user, code, setCookie) ==
  call' = [call EXCEPT ![c] = [IdleCall EXCEPT !.kind = call[c].kind, !.user = user,
                                 !.stage = "answered", !.code = code, !.setCookie = setCookie]]
Respond(c, code, setCookie) == RespondTo(c, call[c].user, code, setCookie)

\* issueTokenPair: the refresh token, for session s in place of token old.
Issue(s, old) ==
  /\ count < MaxTokens
  /\ count' = count + 1
  /\ sessionOf' = [sessionOf EXCEPT ![count + 1] = s]
  /\ from' = [from EXCEPT ![count + 1] = old]

IssueNothing == UNCHANGED <<count, sessionOf, from>>

-----------------------------------------------------------------------------
(* The client's side of a call, as far as the server can tell.             *)

\* A call is sent; its slot is free, or its last response has been dealt with.
Arrive(c, kind, cookie, user) ==
  /\ call[c].stage \in {"idle", "answered"}
  /\ call' = [call EXCEPT ![c] = [IdleCall EXCEPT !.kind = kind, !.cookie = cookie,
                                                  !.user = user, !.stage = "sent"]]
  /\ UNCHANGED <<count, sessionOf, from, rows, lock, expired>>

Finish(c) ==
  /\ call[c].stage = "answered"
  /\ call' = [call EXCEPT ![c] = IdleCall]
  /\ UNCHANGED <<count, sessionOf, from, rows, lock, expired>>

\* The response is lost on its way: the client sees a network error and no
\* Set-Cookie.
Lose(c) ==
  /\ call[c].stage = "answered"
  /\ Respond(c, "error", Keep)
  /\ UNCHANGED <<count, sessionOf, from, rows, lock, expired>>

-----------------------------------------------------------------------------
(* loginUser.                                                              *)

RefuseLogin(c) ==
  /\ call[c].kind = "login" /\ call[c].stage = "sent"
  /\ \/ Respond(c, "denied", Keep)      \* unknown user or wrong password
     \/ call[c].user \notin Verified /\ Respond(c, "forbidden", Keep)
  /\ UNCHANGED <<rows, lock, expired>> /\ IssueNothing

\* CreateSession is one INSERT.
Login(c) ==
  /\ call[c].kind = "login" /\ call[c].stage = "sent"
  /\ call[c].user \in Verified
  /\ Issue(count + 1, NoCookie)
  /\ rows' = [rows EXCEPT ![count + 1] =
                [user |-> call[c].user, token |-> count + 1, blocked |-> FALSE]]
  /\ Respond(c, "ok", count + 1)
  /\ UNCHANGED <<lock, expired>>

-----------------------------------------------------------------------------
(* renewToken.                                                             *)

\* The cookie, its signature and expiry, and the time RotateSessionTx is
\* given, all taken before the transaction.
VerifyRenewal(c) ==
  /\ call[c].kind = "renew" /\ call[c].stage = "sent"
  /\ \/ call[c].cookie = NoCookie /\ Respond(c, "no_session", Keep)
     \/ /\ call[c].cookie # NoCookie /\ Expired(call[c].cookie)
        /\ Respond(c, "denied", Keep)
     \/ /\ call[c].cookie # NoCookie /\ ~Expired(call[c].cookie)
        /\ call' = [call EXCEPT ![c] = [@ EXCEPT !.stage = "verified", !.asOf = expired]]
  /\ UNCHANGED <<rows, lock, expired>> /\ IssueNothing

\* What RotateSessionTx checks; the user is the one of the token by signature.
Redeemable(c) ==
  LET row == rows[SessionIn(c)] IN
  /\ ~row.blocked
  /\ row.token = call[c].cookie
  /\ row.token > call[c].asOf

\* Defect: GetSession instead of GetSessionForUpdate.
ReadUnlocked(c) ==
  /\ call[c].kind = "renew" /\ call[c].stage = "verified"
  /\ \/ ~Redeemable(c) /\ Respond(c, "denied", Keep)
     \/ Redeemable(c) /\ Advance(c, "locked")
  /\ UNCHANGED <<rows, lock, expired>> /\ IssueNothing

\* GetSessionForUpdate waits for the row's lock and reads the committed row.
\* An invalid session rolls the transaction back and so frees the lock.
LockSession(c) ==
  /\ call[c].kind = "renew" /\ call[c].stage = "verified"
  /\ lock[SessionIn(c)] = None
  /\ \/ ~Redeemable(c) /\ Respond(c, "denied", Keep) /\ UNCHANGED lock
     \/ /\ Redeemable(c)
        /\ lock' = [lock EXCEPT ![SessionIn(c)] = c]
        /\ Advance(c, "locked")
  /\ UNCHANGED <<rows, expired>> /\ IssueNothing

\* Defect: the response does not carry the new cookie.
RotateWithoutCookie(c) ==
  /\ call[c].kind = "renew" /\ call[c].stage = "locked"
  /\ Issue(SessionIn(c), call[c].cookie)
  /\ rows' = [rows EXCEPT ![SessionIn(c)].token = count + 1]
  /\ lock' = [lock EXCEPT ![SessionIn(c)] = None]
  /\ RespondTo(c, rows[SessionIn(c)].user, "ok", Keep)
  /\ UNCHANGED expired

\* RotateSession: UPDATE, COMMIT, and the new token in the response's cookie.
Rotate(c) ==
  /\ call[c].kind = "renew" /\ call[c].stage = "locked"
  /\ Issue(SessionIn(c), call[c].cookie)
  /\ rows' = [rows EXCEPT ![SessionIn(c)].token = count + 1]
  /\ lock' = [lock EXCEPT ![SessionIn(c)] = None]
  /\ RespondTo(c, rows[SessionIn(c)].user, "ok", count + 1)
  /\ UNCHANGED expired

-----------------------------------------------------------------------------
(* logoutUser.                                                             *)

\* A missing or invalid cookie names no session.
LogoutNothing(c) ==
  /\ call[c].kind = "logout" /\ call[c].stage = "sent"
  /\ call[c].cookie = NoCookie \/ Expired(call[c].cookie)
  /\ Respond(c, "ok", NoCookie)
  /\ UNCHANGED <<rows, lock, expired>> /\ IssueNothing

\* Defect: only the digest the client holds is blocked, not the session.
BlockToken(c) ==
  /\ call[c].kind = "logout" /\ call[c].stage = "sent"
  /\ call[c].cookie # NoCookie /\ ~Expired(call[c].cookie)
  /\ lock[SessionIn(c)] = None
  /\ rows' = [rows EXCEPT ![SessionIn(c)].blocked = @ \/ rows[SessionIn(c)].token = call[c].cookie]
  /\ Respond(c, "ok", NoCookie)
  /\ UNCHANGED <<lock, expired>> /\ IssueNothing

\* BlockSession: an UPDATE by id, whatever token the session is at; it waits
\* for a rotation that holds the row.
BlockSession(c) ==
  /\ call[c].kind = "logout" /\ call[c].stage = "sent"
  /\ call[c].cookie # NoCookie /\ ~Expired(call[c].cookie)
  /\ lock[SessionIn(c)] = None
  /\ rows' = [rows EXCEPT ![SessionIn(c)].blocked = TRUE]
  /\ Respond(c, "ok", NoCookie)
  /\ UNCHANGED <<lock, expired>> /\ IssueNothing

-----------------------------------------------------------------------------
\* A handler of the resource API: the middleware checks the signature and the
\* expiry of the access token, and never the session.
Access(c) ==
  /\ call[c].kind = "data" /\ call[c].stage = "sent"
  /\ \/ Respond(c, "ok", Keep)
     \/ Respond(c, "denied", Keep)      \* the access token has expired
  /\ UNCHANGED <<rows, lock, expired>> /\ IssueNothing

\* A database error or the request's timeout: the transaction is rolled back.
\* A logout that got as far as BlockSession clears the cookie all the same.
Fail(c) ==
  /\ call[c].stage \in {"sent", "verified", "locked"}
  /\ Respond(c, "error",
       IF call[c].kind = "logout" /\ call[c].cookie # NoCookie /\ ~Expired(call[c].cookie)
         THEN NoCookie ELSE Keep)
  /\ lock' = [s \in Tokens |-> IF lock[s] = c THEN None ELSE lock[s]]
  /\ UNCHANGED <<rows, expired>> /\ IssueNothing

\* The oldest live token passes its expiry.
Expire ==
  /\ expired < count
  /\ expired' = expired + 1
  /\ UNCHANGED <<rows, lock, call>> /\ IssueNothing

Serve(c) ==
  \/ RefuseLogin(c) \/ Login(c) \/ VerifyRenewal(c) \/ LockSession(c)
  \/ Rotate(c) \/ LogoutNothing(c) \/ BlockSession(c) \/ Access(c)

SessionsInit ==
  /\ count = 0
  /\ sessionOf = [n \in Tokens |-> 0]
  /\ from = [n \in Tokens |-> NoCookie]
  /\ rows = [s \in Tokens |-> [user |-> None, token |-> NoCookie, blocked |-> FALSE]]
  /\ lock = [s \in Tokens |-> None]
  /\ expired = 0
  /\ call = [c \in Calls |-> IdleCall]

SessionsNext ==
  \/ \E c \in Calls, user \in Users : Arrive(c, "login", NoCookie, user)
  \/ \E c \in Calls, user \in Verified : Arrive(c, "data", NoCookie, user)
  \/ \E c \in Calls, kind \in {"renew", "logout"}, cookie \in 0 .. count :
       Arrive(c, kind, cookie, None)
  \/ \E c \in Calls : Serve(c) \/ Fail(c) \/ Lose(c) \/ Finish(c)
  \/ Expire

SessionsSpec == SessionsInit /\ [][SessionsNext]_sessionVars
-----------------------------------------------------------------------------
(* Properties.                                                             *)

SessionsTypeOK ==
  /\ count \in 0 .. MaxTokens
  /\ sessionOf \in [Tokens -> Tokens \union {0}]
  /\ from \in [Tokens -> Tokens \union {NoCookie}]
  /\ rows \in [Tokens -> Row]
  /\ lock \in [Tokens -> Calls \union {None}]
  /\ expired \in 0 .. count
  /\ call \in [Calls -> Call]
  /\ \A c \in Calls : call[c].cookie <= count

\* A refresh token is redeemed at most once, however many calls present it at
\* the same time and whatever is lost or retried.
RedeemedOnce ==
  \A m, n \in Tokens : from[m] # NoCookie /\ from[m] = from[n] => m = n

\* A session has one usable token, the last of an unbroken chain of rotations
\* that starts at its login: every token of it but that one has been redeemed.
OneTokenPerSession ==
  \A n \in 1 .. count :
    rows[sessionOf[n]].token = n \/ \E m \in 1 .. count : from[m] = n /\ sessionOf[m] = sessionOf[n]

\* Rotation makes of each session one chain that never forks and never breaks.
TokensChain == RedeemedOnce /\ OneTokenPerSession

\* Once a session is blocked nothing is ever issued for it again: neither a
\* rotation that was under way nor one that starts later.
BlockedIsFinal ==
  [][\A s \in Tokens : rows[s].blocked => rows'[s] = rows[s]]_sessionVars

\* A logout that was answered, and whose cookie named a session, has blocked
\* the session even if the token was rotated while the logout was under way.
LogoutBlocks ==
  [][\A c \in Calls :
       /\ call[c].kind = "logout" /\ call[c].stage = "sent"
       /\ call'[c].stage = "answered" /\ call'[c].code = "ok"
       /\ call[c].cookie # NoCookie /\ ~Expired(call[c].cookie)
       => rows'[SessionIn(c)].blocked]_sessionVars

\* Both: a sign-out that was answered ends the session for good.
SignOutIsFinal == BlockedIsFinal /\ LogoutBlocks

\* The tokens of a session form a chain that ends in the token its row
\* accepts: a token in a row was never redeemed.
ChainInv ==
  /\ \A n \in 1 .. count : sessionOf[n] \in 1 .. n
  /\ \A n \in Tokens : from[n] <= count /\ (n > count => from[n] = NoCookie)
  /\ \A s \in Tokens : rows[s].token <= count /\ (s > count => ~rows[s].blocked)
  /\ \A s \in Tokens : rows[s].token # NoCookie =>
       sessionOf[rows[s].token] = s /\ \A n \in Tokens : from[n] # rows[s].token
  /\ RedeemedOnce

\* Whoever holds a row's lock has checked the row, and it has not changed since.
HoldersInv ==
  \A c \in Calls :
    /\ call[c].stage \in {"verified", "locked"} =>
         call[c].kind = "renew" /\ call[c].cookie # NoCookie
    /\ call[c].stage = "locked" =>
         /\ lock[SessionIn(c)] = c
         /\ rows[SessionIn(c)].token = call[c].cookie
         /\ ~rows[SessionIn(c)].blocked

SessionsInv == SessionsTypeOK /\ ChainInv /\ HoldersInv
=============================================================================
