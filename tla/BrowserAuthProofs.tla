-------------------------- MODULE BrowserAuthProofs --------------------------
(***************************************************************************)
(* Proofs about BrowserAuth and about Sessions, which it extends.          *)
(*                                                                         *)
(* The server comes first, with an arbitrary client: SessionsInv is        *)
(* preserved by every action, and from it follow that a token is redeemed  *)
(* once, that a session has one usable token, and that a blocked session   *)
(* is never renewed.                                                       *)
(*                                                                         *)
(* Then the browser: BrowserInv is preserved by every step of the tabs,    *)
(* the network and the server.  Its parts build on each other:             *)
(*                                                                         *)
(*   IdentityInv  the calls a tab still listens to are about its user, and *)
(*                at most one of them is a renewal, the tab's attempt;     *)
(*   CookieInv    a token that a response carries is the last of its       *)
(*                session and in nobody else's hands;                      *)
(*   RenewalInv   a renewal that a tab gave up does not hold its cookie,   *)
(*                and the one under way does not hold a token the page     *)
(*                has redeemed.                                            *)
(*                                                                         *)
(* The lemmas named ...Effect say of each action what it does to the calls *)
(* and the tabs; the lemmas named ...Step carry one part of the invariant  *)
(* over [Next]_vars.                                                       *)
(***************************************************************************)
EXTENDS BrowserAuth, TLAPS

USE DEF NoCookie, Keep, Tokens, Kinds, Codes, Stages
USE UsersAssumption, CallsAssumption, TokensAssumption, TabsAssumption

-----------------------------------------------------------------------------
(* The server, for any client: its calls.                                  *)

LEMMA IdleCallType == IdleCall \in Call
BY DEF IdleCall, Call

\* Answering a call changes that call only, and forgets its cookie.
LEMMA Responding ==
  ASSUME SessionsTypeOK, NEW c \in Calls, NEW user \in Users \union {None},
         NEW code \in Codes, NEW setCookie \in Tokens \union {NoCookie, Keep},
         RespondTo(c, user, code, setCookie)
  PROVE  /\ call' \in [Calls -> Call]
         /\ call'[c].stage = "answered" /\ call'[c].cookie = NoCookie
         /\ call'[c].code = code
         /\ \A d \in Calls \ {c} : call'[d] = call[d]
<1> DEFINE k == call[c].kind
           r == [IdleCall EXCEPT !.kind = k, !.user = user, !.stage = "answered",
                                 !.code = code, !.setCookie = setCookie]
<1>1. k \in Kinds \union {None} /\ call \in [Calls -> Call] /\ call' = [call EXCEPT ![c] = r]
  BY DEF SessionsTypeOK, RespondTo, Call
<1> HIDE DEF k
<1>2. r \in Call
  BY <1>1 DEF Call, IdleCall
<1>3. r.stage = "answered" /\ r.cookie = NoCookie /\ r.code = code
  BY DEF IdleCall
<1> HIDE DEF r
<1> QED
  BY <1>1, <1>2, <1>3

\* The session of a token that was issued.
LEMMA SessionOfCall ==
  ASSUME SessionsTypeOK, ChainInv, NEW c \in Calls, call[c].cookie # NoCookie
  PROVE  /\ call[c].cookie \in 1 .. count
         /\ SessionIn(c) \in Tokens /\ SessionIn(c) \in 1 .. count
BY DEF SessionsTypeOK, ChainInv, SessionIn, Call

-----------------------------------------------------------------------------
(* The invariant of the server.                                            *)

LEMMA SessionsInitInv == SessionsInit => SessionsInv
BY IdleCallType DEF SessionsInit, SessionsInv, SessionsTypeOK, ChainInv, HoldersInv,
   RedeemedOnce, Row, IdleCall

\* Steps that answer or forward one call and leave the tables alone.
LEMMA TablesUnchanged ==
  ASSUME SessionsInv, NEW c \in Calls,
         UNCHANGED <<count, sessionOf, from, rows>>,
         expired' \in 0 .. count,
         lock' \in [Tokens -> Calls \union {None}],
         \A s \in Tokens : lock[s] # c => lock'[s] = lock[s],
         call' \in [Calls -> Call],
         call'[c].cookie <= count,
         \A d \in Calls \ {c} : call'[d] = call[d],
         call'[c].stage # "locked",
         call'[c].stage = "verified" => call'[c].kind = "renew" /\ call'[c].cookie # NoCookie
  PROVE  SessionsInv'
<1>1. SessionsTypeOK'
  BY DEF SessionsInv, SessionsTypeOK
<1>2. ChainInv'
  BY DEF SessionsInv, ChainInv, RedeemedOnce
<1>3. HoldersInv'
  <2> SUFFICES ASSUME NEW d \in Calls, d # c
               PROVE  /\ call'[d].stage \in {"verified", "locked"} =>
                           call'[d].kind = "renew" /\ call'[d].cookie # NoCookie
                      /\ call'[d].stage = "locked" =>
                           /\ lock'[sessionOf'[call'[d].cookie]] = d
                           /\ rows'[sessionOf'[call'[d].cookie]].token = call'[d].cookie
                           /\ ~rows'[sessionOf'[call'[d].cookie]].blocked
    BY DEF HoldersInv, SessionIn
  <2>1. call[d].cookie # NoCookie => SessionIn(d) \in Tokens
    BY SessionOfCall DEF SessionsInv
  <2> QED
    BY <2>1 DEF SessionsInv, HoldersInv, SessionIn
<1> QED
  BY <1>1, <1>2, <1>3 DEF SessionsInv

\* What is sent and what is dropped by the client.
LEMMA ClientInv ==
  ASSUME SessionsInv, NEW c \in Calls,
         \/ \E kind \in Kinds, cookie \in 0 .. count, user \in Users \union {None} :
              Arrive(c, kind, cookie, user)
         \/ Finish(c) \/ Lose(c)
  PROVE  SessionsInv'
<1>0. SessionsTypeOK /\ call \in [Calls -> Call] /\ count \in Nat /\ expired \in 0 .. count
      /\ lock \in [Tokens -> Calls \union {None}]
  BY DEF SessionsInv, SessionsTypeOK
<1>1. ASSUME NEW kind \in Kinds, NEW cookie \in 0 .. count, NEW user \in Users \union {None},
             Arrive(c, kind, cookie, user)
      PROVE  SessionsInv'
  <2>1. cookie \in Tokens \union {NoCookie}
    BY DEF SessionsInv, SessionsTypeOK
  <2>2. [IdleCall EXCEPT !.kind = kind, !.cookie = cookie, !.user = user, !.stage = "sent"] \in Call
    BY <2>1 DEF Call, IdleCall
  <2>3. /\ call' \in [Calls -> Call] /\ call'[c].stage = "sent" /\ call'[c].cookie = cookie
        /\ \A d \in Calls \ {c} : call'[d] = call[d]
    BY <1>0, <1>1, <2>2 DEF Arrive, IdleCall
  <2>4. UNCHANGED <<count, sessionOf, from, rows, lock, expired>>
    BY <1>1 DEF Arrive
  <2> QED
    BY <1>0, <2>3, <2>4, TablesUnchanged
<1>2. CASE Finish(c)
  <2>1. /\ call' \in [Calls -> Call] /\ call'[c].stage = "idle" /\ call'[c].cookie = NoCookie
        /\ \A d \in Calls \ {c} : call'[d] = call[d]
    BY <1>0, <1>2, IdleCallType DEF Finish, IdleCall
  <2> QED
    BY <1>0, <1>2, <2>1, TablesUnchanged DEF Finish
<1>3. CASE Lose(c)
  <2>1. RespondTo(c, call[c].user, "error", Keep) /\ call[c].user \in Users \union {None}
    BY <1>0, <1>3 DEF Lose, Respond, Call
  <2>2. /\ call' \in [Calls -> Call]
        /\ call'[c].stage = "answered" /\ call'[c].cookie = NoCookie
        /\ \A d \in Calls \ {c} : call'[d] = call[d]
    BY <1>0, <2>1, Responding
  <2> QED
    BY <1>0, <1>3, <2>2, TablesUnchanged DEF Lose
<1> QED
  BY <1>1, <1>2, <1>3

\* An answer that changes no table, with or without the end of a transaction.
LEMMA AnswerInv ==
  ASSUME SessionsInv, NEW c \in Calls, NEW code \in Codes,
         NEW setCookie \in {NoCookie, Keep},
         Respond(c, code, setCookie),
         UNCHANGED <<count, sessionOf, from, rows, expired>>,
         lock' \in [Tokens -> Calls \union {None}],
         \A s \in Tokens : lock[s] # c => lock'[s] = lock[s]
  PROVE  SessionsInv'
<1>1. RespondTo(c, call[c].user, code, setCookie) /\ call[c].user \in Users \union {None}
  BY DEF Respond, SessionsInv, SessionsTypeOK, Call
<1>2. SessionsTypeOK /\ count \in Nat /\ expired' \in 0 .. count
  BY DEF SessionsInv, SessionsTypeOK
<1>3. /\ call' \in [Calls -> Call]
      /\ call'[c].stage = "answered" /\ call'[c].cookie = NoCookie
      /\ \A d \in Calls \ {c} : call'[d] = call[d]
  BY <1>1, <1>2, Responding
<1>4. call'[c].cookie <= count
  BY <1>2, <1>3
<1> QED
  BY <1>2, <1>3, <1>4, TablesUnchanged

LEMMA RefuseLoginInv ==
  ASSUME SessionsInv, NEW c \in Calls, RefuseLogin(c)
  PROVE  SessionsInv'
BY AnswerInv DEF RefuseLogin, IssueNothing, SessionsInv, SessionsTypeOK

LEMMA VerifyRenewalInv ==
  ASSUME SessionsInv, NEW c \in Calls, VerifyRenewal(c)
  PROVE  SessionsInv'
<1>1. CASE call[c].cookie # NoCookie /\ ~Expired(call[c].cookie)
           /\ call' = [call EXCEPT ![c] = [@ EXCEPT !.stage = "verified", !.asOf = expired]]
  <2>0. call[c] \in Call /\ call \in [Calls -> Call] /\ expired \in Tokens \union {0}
    BY DEF SessionsInv, SessionsTypeOK
  <2>1. /\ call' \in [Calls -> Call] /\ call'[c].stage = "verified"
        /\ call'[c].kind = call[c].kind /\ call'[c].cookie = call[c].cookie
        /\ \A d \in Calls \ {c} : call'[d] = call[d]
    BY <1>1, <2>0 DEF Call
  <2> QED
    BY <1>1, <2>1, TablesUnchanged DEF VerifyRenewal, IssueNothing, SessionsInv, SessionsTypeOK
<1> QED
  BY <1>1, AnswerInv DEF VerifyRenewal, IssueNothing, SessionsInv, SessionsTypeOK

LEMMA LogoutNothingInv ==
  ASSUME SessionsInv, NEW c \in Calls, LogoutNothing(c)
  PROVE  SessionsInv'
BY AnswerInv DEF LogoutNothing, IssueNothing, SessionsInv, SessionsTypeOK

LEMMA AccessInv ==
  ASSUME SessionsInv, NEW c \in Calls, Access(c)
  PROVE  SessionsInv'
BY AnswerInv DEF Access, IssueNothing, SessionsInv, SessionsTypeOK

LEMMA FailInv ==
  ASSUME SessionsInv, NEW c \in Calls, Fail(c)
  PROVE  SessionsInv'
<1>1. /\ lock' \in [Tokens -> Calls \union {None}]
      /\ \A s \in Tokens : lock[s] # c => lock'[s] = lock[s]
  BY DEF Fail, SessionsInv, SessionsTypeOK
<1> QED
  BY <1>1, AnswerInv DEF Fail, IssueNothing

LEMMA ExpireInv ==
  ASSUME SessionsInv, Expire
  PROVE  SessionsInv'
BY DEF Expire, IssueNothing, SessionsInv, SessionsTypeOK, ChainInv, HoldersInv, RedeemedOnce,
   SessionIn

-----------------------------------------------------------------------------
(* The steps that write the tables.                                        *)

\* A lock holder keeps what HoldersInv says of it when another call's step
\* leaves its row and its lock alone.
LEMMA OthersHold ==
  ASSUME SessionsInv, NEW d \in Calls, call'[d] = call[d],
         call[d].stage = "locked" =>
           /\ sessionOf'[call[d].cookie] = sessionOf[call[d].cookie]
           /\ rows'[SessionIn(d)] = rows[SessionIn(d)]
           /\ lock'[SessionIn(d)] = lock[SessionIn(d)]
  PROVE  /\ call'[d].stage \in {"verified", "locked"} =>
              call'[d].kind = "renew" /\ call'[d].cookie # NoCookie
         /\ call'[d].stage = "locked" =>
              /\ lock'[sessionOf'[call'[d].cookie]] = d
              /\ rows'[sessionOf'[call'[d].cookie]].token = call'[d].cookie
              /\ ~rows'[sessionOf'[call'[d].cookie]].blocked
BY DEF SessionsInv, HoldersInv, SessionIn

\* Issuing token count + 1 leaves the sessions of the tokens issued before.
LEMMA Issuing ==
  ASSUME SessionsInv, NEW s \in Tokens, NEW old \in Tokens \union {NoCookie}, Issue(s, old)
  PROVE  /\ count' = count + 1 /\ count' \in Tokens
         /\ sessionOf' \in [Tokens -> Tokens \union {0}] /\ sessionOf'[count + 1] = s
         /\ from' \in [Tokens -> Tokens \union {NoCookie}] /\ from'[count + 1] = old
         /\ \A n \in Tokens \ {count + 1} : sessionOf'[n] = sessionOf[n] /\ from'[n] = from[n]
BY DEF SessionsInv, SessionsTypeOK, Issue

LEMMA LoginInv ==
  ASSUME SessionsInv, NEW c \in Calls, Login(c)
  PROVE  SessionsInv'
<1> DEFINE s == count + 1
<1>0. SessionsTypeOK /\ ChainInv /\ HoldersInv
  BY DEF SessionsInv
<1>1. s \in Tokens /\ Issue(s, NoCookie)
  BY <1>0 DEF Login, Issue, SessionsTypeOK
<1>2. /\ count' = s /\ sessionOf' \in [Tokens -> Tokens \union {0}] /\ sessionOf'[s] = s
      /\ from' \in [Tokens -> Tokens \union {NoCookie}] /\ from'[s] = NoCookie
      /\ \A n \in Tokens \ {s} : sessionOf'[n] = sessionOf[n] /\ from'[n] = from[n]
  BY <1>1, Issuing
<1>3. /\ call' \in [Calls -> Call]
      /\ call'[c].stage = "answered" /\ call'[c].cookie = NoCookie
      /\ \A d \in Calls \ {c} : call'[d] = call[d]
  <2>1. RespondTo(c, call[c].user, "ok", s) /\ call[c].user \in Users \union {None}
    BY <1>0 DEF Login, Respond, SessionsTypeOK, Call
  <2> QED
    BY <1>0, <1>1, <2>1, Responding
<1>4. /\ rows' \in [Tokens -> Row] /\ rows'[s].token = s /\ ~rows'[s].blocked
      /\ \A u \in Tokens \ {s} : rows'[u] = rows[u]
  BY <1>0, <1>1 DEF Login, SessionsTypeOK, Row
<1>5. lock' = lock /\ expired' = expired
  BY DEF Login
<1>6. SessionsTypeOK'
  <2>1. count' \in 0 .. MaxTokens /\ expired' \in 0 .. count'
    BY <1>0, <1>1, <1>2, <1>5 DEF SessionsTypeOK
  <2>2. \A d \in Calls : call'[d].cookie <= count'
    <3> SUFFICES ASSUME NEW d \in Calls \ {c} PROVE call[d].cookie <= count + 1
      BY <1>1, <1>2, <1>3
    <3>1. call[d] \in Call /\ call[d].cookie <= count
      BY <1>0 DEF SessionsTypeOK
    <3> QED
      BY <1>0, <3>1 DEF SessionsTypeOK, Call
  <2> QED
    BY <1>0, <1>2, <1>3, <1>4, <1>5, <2>1, <2>2 DEF SessionsTypeOK
<1>7. ChainInv'
  <2>1. \A n \in 1 .. count' : sessionOf'[n] \in 1 .. n
    BY <1>0, <1>1, <1>2 DEF ChainInv, SessionsTypeOK
  <2>2. \A n \in Tokens : from'[n] <= count' /\ (n > count' => from'[n] = NoCookie)
    BY <1>0, <1>1, <1>2 DEF ChainInv, SessionsTypeOK
  <2>3. \A u \in Tokens : rows'[u].token <= count' /\ (u > count' => ~rows'[u].blocked)
    <3> SUFFICES ASSUME NEW u \in Tokens \ {s}
                 PROVE  rows[u].token <= count + 1 /\ (u > count + 1 => ~rows[u].blocked)
      BY <1>1, <1>2, <1>4
    <3>1. rows[u] \in Row /\ rows[u].token <= count /\ (u > count => ~rows[u].blocked)
      BY <1>0 DEF ChainInv, SessionsTypeOK
    <3> QED
      BY <1>0, <3>1 DEF SessionsTypeOK, Row
  <2>4. \A u \in Tokens : rows'[u].token # NoCookie =>
          sessionOf'[rows'[u].token] = u /\ \A n \in Tokens : from'[n] # rows'[u].token
    <3>1. \A n \in Tokens : from'[n] <= count /\ from'[n] \in Nat
      BY <1>0, <1>1, <1>2 DEF ChainInv, SessionsTypeOK
    <3>2. ASSUME NEW u \in Tokens \ {s}, rows[u].token # NoCookie
          PROVE  /\ rows[u].token \in Tokens \ {s} /\ sessionOf[rows[u].token] = u
                 /\ \A n \in Tokens : from[n] # rows[u].token
      BY <1>0, <3>2 DEF ChainInv, SessionsTypeOK, Row
    <3>3. ASSUME NEW u \in Tokens \ {s}, rows[u].token # NoCookie, NEW n \in Tokens
          PROVE  from'[n] # rows[u].token
      BY <1>1, <1>2, <3>2, <3>3
    <3>4. \A n \in Tokens : from'[n] # s
      BY <1>0, <3>1 DEF SessionsTypeOK
    <3>5. ASSUME NEW u \in Tokens \ {s}, rows'[u].token # NoCookie
          PROVE  sessionOf'[rows'[u].token] = u /\ \A n \in Tokens : from'[n] # rows'[u].token
      BY <1>2, <1>4, <3>2, <3>3, <3>5
    <3>6. sessionOf'[rows'[s].token] = s /\ \A n \in Tokens : from'[n] # rows'[s].token
      BY <1>2, <1>4, <3>4
    <3> QED
      BY <3>5, <3>6
  <2>5. RedeemedOnce'
    BY <1>0, <1>2 DEF ChainInv, RedeemedOnce
  <2> QED
    BY <2>1, <2>2, <2>3, <2>4, <2>5 DEF ChainInv
<1>8. HoldersInv'
  <2> SUFFICES ASSUME NEW d \in Calls \ {c}, call[d].stage = "locked"
               PROVE  /\ sessionOf'[call[d].cookie] = sessionOf[call[d].cookie]
                      /\ rows'[SessionIn(d)] = rows[SessionIn(d)]
                      /\ lock'[SessionIn(d)] = lock[SessionIn(d)]
    BY <1>3, OthersHold DEF HoldersInv, SessionIn
  <2>1. call[d].cookie \in 1 .. count /\ SessionIn(d) \in 1 .. count /\ SessionIn(d) \in Tokens
    BY <1>0, SessionOfCall DEF HoldersInv
  <2> QED
    BY <1>0, <1>2, <1>4, <1>5, <2>1 DEF SessionsTypeOK
<1> QED
  BY <1>6, <1>7, <1>8 DEF SessionsInv

LEMMA LockSessionInv ==
  ASSUME SessionsInv, NEW c \in Calls, LockSession(c)
  PROVE  SessionsInv'
<1>0. SessionsTypeOK /\ ChainInv /\ HoldersInv
  BY DEF SessionsInv
<1>1. CASE Respond(c, "denied", Keep) /\ UNCHANGED lock
  BY <1>0, <1>1, AnswerInv DEF LockSession, IssueNothing, SessionsTypeOK
<1>2. CASE /\ Redeemable(c)
           /\ lock' = [lock EXCEPT ![SessionIn(c)] = c]
           /\ Advance(c, "locked")
  <2>1. call[c].kind = "renew" /\ call[c].cookie # NoCookie /\ lock[SessionIn(c)] = None
    BY <1>0 DEF LockSession, HoldersInv
  <2>2. SessionIn(c) \in Tokens
    BY <1>0, <2>1, SessionOfCall
  <2>3. /\ call' \in [Calls -> Call] /\ call'[c].stage = "locked"
        /\ call'[c].cookie = call[c].cookie /\ call'[c].kind = "renew"
        /\ \A d \in Calls \ {c} : call'[d] = call[d]
    <3>1. call[c] \in Call /\ [call[c] EXCEPT !.stage = "locked"] \in Call
          /\ call \in [Calls -> Call]
      <4>1. call[c] \in Call /\ call \in [Calls -> Call]
        BY <1>0 DEF SessionsTypeOK
      <4>2. \A r \in Call : [r EXCEPT !.stage = "locked"] \in Call
        BY DEF Call
      <4> QED
        BY <4>1, <4>2
    <3> QED
      BY <1>2, <2>1, <3>1 DEF Advance, Call
  <2>4. /\ lock' \in [Tokens -> Calls \union {None}] /\ lock'[SessionIn(c)] = c
        /\ \A u \in Tokens \ {SessionIn(c)} : lock'[u] = lock[u]
    BY <1>0, <1>2, <2>2 DEF SessionsTypeOK
  <2>5. UNCHANGED <<count, sessionOf, from, rows, expired>>
    BY DEF LockSession, IssueNothing
  <2>6. SessionsTypeOK' /\ ChainInv'
    BY <1>0, <2>3, <2>4, <2>5 DEF SessionsTypeOK, ChainInv, RedeemedOnce
  <2>7. HoldersInv'
    <3>1. ASSUME NEW d \in Calls \ {c}, call[d].stage = "locked"
          PROVE  /\ sessionOf'[call[d].cookie] = sessionOf[call[d].cookie]
                 /\ rows'[SessionIn(d)] = rows[SessionIn(d)]
                 /\ lock'[SessionIn(d)] = lock[SessionIn(d)]
      <4>1. SessionIn(d) \in Tokens /\ lock[SessionIn(d)] = d
        BY <1>0, <3>1, SessionOfCall DEF HoldersInv
      <4> QED
        BY <2>1, <2>4, <2>5, <4>1
    <3>2. /\ lock'[sessionOf'[call'[c].cookie]] = c
          /\ rows'[sessionOf'[call'[c].cookie]].token = call'[c].cookie
          /\ ~rows'[sessionOf'[call'[c].cookie]].blocked
      BY <1>2, <2>3, <2>4, <2>5 DEF Redeemable, SessionIn
    <3> QED
      <4>1. ASSUME NEW d \in Calls \ {c}
            PROVE  /\ call'[d].stage \in {"verified", "locked"} =>
                        call'[d].kind = "renew" /\ call'[d].cookie # NoCookie
                   /\ call'[d].stage = "locked" =>
                        /\ lock'[sessionOf'[call'[d].cookie]] = d
                        /\ rows'[sessionOf'[call'[d].cookie]].token = call'[d].cookie
                        /\ ~rows'[sessionOf'[call'[d].cookie]].blocked
        <5>1. call'[d] = call[d]
          BY <2>3
        <5> QED
          BY <3>1, <5>1, OthersHold
      <4>2. call'[c].kind = "renew" /\ call'[c].cookie # NoCookie
        BY <2>1, <2>3
      <4> QED
        BY <3>2, <4>1, <4>2 DEF HoldersInv, SessionIn
  <2> QED
    BY <2>6, <2>7 DEF SessionsInv
<1> QED
  BY <1>1, <1>2 DEF LockSession

\* What a rotation does, in one place for the proofs below.
LEMMA Rotating ==
  ASSUME SessionsInv, NEW c \in Calls, Rotate(c)
  PROVE  /\ SessionIn(c) \in Tokens /\ SessionIn(c) \in 1 .. count
         /\ call[c].cookie \in 1 .. count /\ count + 1 \in Tokens
         /\ rows[SessionIn(c)].token = call[c].cookie /\ ~rows[SessionIn(c)].blocked
         /\ lock[SessionIn(c)] = c /\ sessionOf[call[c].cookie] = SessionIn(c)
         /\ count' = count + 1
         /\ sessionOf' \in [Tokens -> Tokens \union {0}]
         /\ sessionOf'[count + 1] = SessionIn(c)
         /\ from' \in [Tokens -> Tokens \union {NoCookie}]
         /\ from'[count + 1] = call[c].cookie
         /\ \A n \in Tokens \ {count + 1} : sessionOf'[n] = sessionOf[n] /\ from'[n] = from[n]
         /\ rows' \in [Tokens -> Row]
         /\ rows'[SessionIn(c)].token = count + 1 /\ ~rows'[SessionIn(c)].blocked
         /\ \A u \in Tokens \ {SessionIn(c)} : rows'[u] = rows[u]
         /\ lock' \in [Tokens -> Calls \union {None}]
         /\ \A u \in Tokens \ {SessionIn(c)} : lock'[u] = lock[u]
         /\ expired' = expired
         /\ call' \in [Calls -> Call]
         /\ call'[c].stage = "answered" /\ call'[c].cookie = NoCookie
         /\ \A d \in Calls \ {c} : call'[d] = call[d]
<1>0. SessionsTypeOK /\ ChainInv /\ HoldersInv
  BY DEF SessionsInv
<1>1. /\ call[c].stage = "locked" /\ call[c].cookie # NoCookie
      /\ rows[SessionIn(c)].token = call[c].cookie /\ ~rows[SessionIn(c)].blocked
      /\ lock[SessionIn(c)] = c
  BY <1>0 DEF Rotate, HoldersInv
<1>2. /\ SessionIn(c) \in Tokens /\ SessionIn(c) \in 1 .. count
      /\ call[c].cookie \in 1 .. count /\ sessionOf[call[c].cookie] = SessionIn(c)
  BY <1>0, <1>1, SessionOfCall DEF SessionIn
<1>3. /\ Issue(SessionIn(c), call[c].cookie) /\ call[c].cookie \in Tokens /\ count + 1 \in Tokens
  BY <1>0, <1>2 DEF Rotate, Issue, SessionsTypeOK
<1>4. /\ count' = count + 1
      /\ sessionOf' \in [Tokens -> Tokens \union {0}] /\ sessionOf'[count + 1] = SessionIn(c)
      /\ from' \in [Tokens -> Tokens \union {NoCookie}] /\ from'[count + 1] = call[c].cookie
      /\ \A n \in Tokens \ {count + 1} : sessionOf'[n] = sessionOf[n] /\ from'[n] = from[n]
  BY <1>2, <1>3, Issuing
<1>5. /\ rows' \in [Tokens -> Row]
      /\ rows'[SessionIn(c)].token = count + 1 /\ ~rows'[SessionIn(c)].blocked
      /\ \A u \in Tokens \ {SessionIn(c)} : rows'[u] = rows[u]
  <2> DEFINE n == count + 1
             s == SessionIn(c)
  <2>1. rows \in [Tokens -> Row] /\ rows[s] \in Row /\ s \in Tokens
        /\ rows' = [rows EXCEPT ![s].token = n] /\ n \in Tokens /\ ~rows[s].blocked
    BY <1>0, <1>1, <1>2, <1>3 DEF Rotate, SessionsTypeOK
  <2> HIDE DEF n, s
  <2>2. [rows[s] EXCEPT !.token = n] \in Row
    BY <2>1 DEF Row
  <2>3. [rows[s] EXCEPT !.token = n].token = n /\ ~[rows[s] EXCEPT !.token = n].blocked
    BY <2>1 DEF Row
  <2>4. /\ rows' \in [Tokens -> Row] /\ rows'[s] = [rows[s] EXCEPT !.token = n]
        /\ \A u \in Tokens \ {s} : rows'[u] = rows[u]
    BY <2>1, <2>2
  <2> QED
    BY <2>3, <2>4 DEF n, s
<1>6. /\ lock' \in [Tokens -> Calls \union {None}] /\ expired' = expired
      /\ \A u \in Tokens \ {SessionIn(c)} : lock'[u] = lock[u]
  BY <1>0, <1>2 DEF Rotate, SessionsTypeOK
<1>7. /\ call' \in [Calls -> Call]
      /\ call'[c].stage = "answered" /\ call'[c].cookie = NoCookie
      /\ \A d \in Calls \ {c} : call'[d] = call[d]
  <2>1. RespondTo(c, rows[SessionIn(c)].user, "ok", count + 1)
        /\ rows[SessionIn(c)].user \in Users \union {None}
    BY <1>0, <1>2 DEF Rotate, SessionsTypeOK, Row
  <2> QED
    BY <1>0, <1>3, <2>1, Responding
<1> QED
  BY <1>1, <1>2, <1>3, <1>4, <1>5, <1>6, <1>7

LEMMA RotateInv ==
  ASSUME SessionsInv, NEW c \in Calls, Rotate(c)
  PROVE  SessionsInv'
<1> DEFINE s == SessionIn(c)
           k == count + 1
<1>0. SessionsTypeOK /\ ChainInv /\ HoldersInv
  BY DEF SessionsInv
<1>1. /\ s \in Tokens /\ s \in 1 .. count /\ call[c].cookie \in 1 .. count /\ k \in Tokens
      /\ rows[s].token = call[c].cookie /\ ~rows[s].blocked
      /\ lock[s] = c /\ sessionOf[call[c].cookie] = s
  BY Rotating
<1>2. /\ count' = k /\ sessionOf' \in [Tokens -> Tokens \union {0}] /\ sessionOf'[k] = s
      /\ from' \in [Tokens -> Tokens \union {NoCookie}] /\ from'[k] = call[c].cookie
      /\ \A n \in Tokens \ {k} : sessionOf'[n] = sessionOf[n] /\ from'[n] = from[n]
  BY Rotating
<1>3. /\ rows' \in [Tokens -> Row] /\ rows'[s].token = k /\ ~rows'[s].blocked
      /\ \A u \in Tokens \ {s} : rows'[u] = rows[u]
  BY Rotating
<1>4. /\ lock' \in [Tokens -> Calls \union {None}] /\ expired' = expired
      /\ \A u \in Tokens \ {s} : lock'[u] = lock[u]
  BY Rotating
<1>5. /\ call' \in [Calls -> Call]
      /\ call'[c].stage = "answered" /\ call'[c].cookie = NoCookie
      /\ \A d \in Calls \ {c} : call'[d] = call[d]
  BY Rotating
<1>6. SessionsTypeOK'
  <2>1. count' \in 0 .. MaxTokens /\ expired' \in 0 .. count'
    BY <1>0, <1>1, <1>2, <1>4 DEF SessionsTypeOK
  <2>2. \A d \in Calls : call'[d].cookie <= count'
    <3> SUFFICES ASSUME NEW d \in Calls \ {c} PROVE call[d].cookie <= count + 1
      BY <1>1, <1>2, <1>5
    <3>1. call[d] \in Call /\ call[d].cookie <= count
      BY <1>0 DEF SessionsTypeOK
    <3> QED
      BY <1>0, <3>1 DEF SessionsTypeOK, Call
  <2> QED
    BY <1>2, <1>3, <1>4, <1>5, <2>1, <2>2 DEF SessionsTypeOK
<1>7. \A n \in Tokens : from[n] # call[c].cookie
  BY <1>0, <1>1 DEF ChainInv
<1>8. ChainInv'
  <2>1. \A n \in 1 .. count' : sessionOf'[n] \in 1 .. n
    <3> SUFFICES ASSUME NEW n \in 1 .. count, n \in Tokens \ {k}
                 PROVE  sessionOf[n] \in 1 .. n
      BY <1>0, <1>1, <1>2 DEF SessionsTypeOK
    <3> QED
      BY <1>0 DEF ChainInv
  <2>2. \A n \in Tokens : from'[n] <= count' /\ (n > count' => from'[n] = NoCookie)
    <3> SUFFICES ASSUME NEW n \in Tokens \ {k}
                 PROVE  from[n] <= count + 1 /\ (n > count + 1 => from[n] = NoCookie)
      BY <1>0, <1>1, <1>2 DEF SessionsTypeOK
    <3>1. from[n] \in Int /\ from[n] <= count /\ (n > count => from[n] = NoCookie)
      BY <1>0 DEF ChainInv, SessionsTypeOK
    <3> QED
      BY <1>0, <3>1 DEF SessionsTypeOK
  <2>3. \A u \in Tokens : rows'[u].token <= count' /\ (u > count' => ~rows'[u].blocked)
    <3>1. ASSUME NEW u \in Tokens \ {s}
          PROVE  rows'[u].token <= count' /\ (u > count' => ~rows'[u].blocked)
      <4>1. rows[u] \in Row /\ rows[u].token <= count /\ (u > count => ~rows[u].blocked)
        BY <1>0 DEF ChainInv, SessionsTypeOK
      <4>2. rows[u].token \in Int /\ count \in Nat /\ u \in Int
        BY <1>0, <4>1 DEF SessionsTypeOK, Row
      <4>3. rows[u].token <= count + 1 /\ (u > count + 1 => ~rows[u].blocked)
        BY <4>1, <4>2
      <4> QED
        BY <1>2, <1>3, <4>3
    <3>2. rows'[s].token <= count' /\ ~rows'[s].blocked
      BY <1>0, <1>2, <1>3 DEF SessionsTypeOK
    <3> QED
      BY <3>1, <3>2
  <2>4. \A u \in Tokens : rows'[u].token # NoCookie =>
          sessionOf'[rows'[u].token] = u /\ \A n \in Tokens : from'[n] # rows'[u].token
    <3>1. \A n \in Tokens : from'[n] # k
      <4>1. ASSUME NEW n \in Tokens PROVE from[n] # k
        BY <1>0 DEF ChainInv, SessionsTypeOK
      <4>2. call[c].cookie # k
        BY <1>0, <1>1 DEF SessionsTypeOK
      <4> QED
        BY <1>2, <4>1, <4>2
    <3>2. ASSUME NEW u \in Tokens \ {s}, rows'[u].token # NoCookie
          PROVE  sessionOf'[rows'[u].token] = u /\ \A n \in Tokens : from'[n] # rows'[u].token
      <4>1. rows'[u] = rows[u]
        BY <1>3
      <4>2. /\ rows[u].token \in Tokens \ {k} /\ sessionOf[rows[u].token] = u
            /\ \A n \in Tokens : from[n] # rows[u].token
        BY <1>0, <3>2, <4>1 DEF ChainInv, SessionsTypeOK, Row
      <4>3. call[c].cookie # rows[u].token
        BY <1>1, <4>2
      <4>4. \A n \in Tokens : from'[n] # rows[u].token
        BY <1>2, <4>2, <4>3
      <4> QED
        BY <1>2, <4>1, <4>2, <4>4
    <3>3. sessionOf'[rows'[s].token] = s /\ \A n \in Tokens : from'[n] # rows'[s].token
      BY <1>2, <1>3, <3>1
    <3> QED
      BY <3>2, <3>3
  <2>5. RedeemedOnce'
    BY <1>0, <1>2, <1>7 DEF ChainInv, RedeemedOnce
  <2> QED
    BY <2>1, <2>2, <2>3, <2>4, <2>5 DEF ChainInv
<1>9. HoldersInv'
  <2> SUFFICES ASSUME NEW d \in Calls \ {c}, call[d].stage = "locked"
               PROVE  /\ sessionOf'[call[d].cookie] = sessionOf[call[d].cookie]
                      /\ rows'[SessionIn(d)] = rows[SessionIn(d)]
                      /\ lock'[SessionIn(d)] = lock[SessionIn(d)]
    BY <1>5, OthersHold DEF HoldersInv, SessionIn
  <2>1. call[d].cookie \in 1 .. count /\ SessionIn(d) \in Tokens /\ lock[SessionIn(d)] = d
    BY <1>0, SessionOfCall DEF HoldersInv
  <2> QED
    BY <1>0, <1>1, <1>2, <1>3, <1>4, <2>1 DEF SessionsTypeOK
<1> QED
  BY <1>6, <1>8, <1>9 DEF SessionsInv

LEMMA BlockSessionInv ==
  ASSUME SessionsInv, NEW c \in Calls, BlockSession(c)
  PROVE  SessionsInv'
<1> DEFINE s == SessionIn(c)
<1>0. SessionsTypeOK /\ ChainInv /\ HoldersInv
  BY DEF SessionsInv
<1>1. s \in Tokens /\ s \in 1 .. count /\ lock[s] = None
  BY <1>0, SessionOfCall DEF BlockSession
<1>2. /\ rows' \in [Tokens -> Row] /\ rows'[s].token = rows[s].token
      /\ \A u \in Tokens \ {s} : rows'[u] = rows[u]
  <2>1. rows \in [Tokens -> Row] /\ rows' = [rows EXCEPT ![s].blocked = TRUE]
    BY <1>0 DEF BlockSession, SessionsTypeOK
  <2> HIDE DEF s
  <2>2. rows[s] \in Row /\ [rows[s] EXCEPT !.blocked = TRUE] \in Row
    BY <1>1, <2>1 DEF Row
  <2>3. [rows[s] EXCEPT !.blocked = TRUE].token = rows[s].token
    BY <2>2 DEF Row
  <2> QED
    BY <1>1, <2>1, <2>2, <2>3
<1>3. UNCHANGED <<count, sessionOf, from, lock, expired>>
  BY DEF BlockSession, IssueNothing
<1>4. /\ call' \in [Calls -> Call]
      /\ call'[c].stage = "answered" /\ call'[c].cookie = NoCookie
      /\ \A d \in Calls \ {c} : call'[d] = call[d]
  <2>1. RespondTo(c, call[c].user, "ok", NoCookie) /\ call[c].user \in Users \union {None}
    BY <1>0 DEF BlockSession, Respond, SessionsTypeOK, Call
  <2> QED
    BY <1>0, <2>1, Responding
<1>5. SessionsTypeOK'
  <2>1. \A d \in Calls : call'[d].cookie <= count
    BY <1>0, <1>4 DEF SessionsTypeOK
  <2> QED
    BY <1>0, <1>2, <1>3, <1>4, <2>1 DEF SessionsTypeOK
<1>6. ChainInv'
  <2>1. \A u \in Tokens : rows'[u].token = rows[u].token
    BY <1>1, <1>2
  <2>2. \A u \in Tokens : u > count => ~rows'[u].blocked
    <3> SUFFICES ASSUME NEW u \in Tokens, u > count PROVE ~rows'[u].blocked
      OBVIOUS
    <3>1. u # s
      BY <1>0, <1>1 DEF SessionsTypeOK
    <3> QED
      BY <1>0, <1>2, <3>1 DEF ChainInv
  <2>3. RedeemedOnce'
    BY <1>0, <1>3 DEF ChainInv, RedeemedOnce
  <2> QED
    BY <1>0, <1>3, <2>1, <2>2, <2>3 DEF ChainInv
<1>7. HoldersInv'
  <2> SUFFICES ASSUME NEW d \in Calls \ {c}, call[d].stage = "locked"
               PROVE  /\ sessionOf'[call[d].cookie] = sessionOf[call[d].cookie]
                      /\ rows'[SessionIn(d)] = rows[SessionIn(d)]
                      /\ lock'[SessionIn(d)] = lock[SessionIn(d)]
    BY <1>4, OthersHold DEF HoldersInv, SessionIn
  <2>1. SessionIn(d) \in Tokens /\ lock[SessionIn(d)] = d
    BY <1>0, SessionOfCall DEF HoldersInv
  <2> QED
    BY <1>1, <1>2, <1>3, <2>1
<1> QED
  BY <1>5, <1>6, <1>7 DEF SessionsInv

-----------------------------------------------------------------------------
(* What the server promises any client.                                    *)

LEMMA SessionsNextInv ==
  ASSUME SessionsInv, [SessionsNext]_sessionVars
  PROVE  SessionsInv'
<1>1. CASE UNCHANGED sessionVars
  BY <1>1 DEF sessionVars, SessionsInv, SessionsTypeOK, ChainInv, RedeemedOnce, HoldersInv, SessionIn
<1>2. ASSUME NEW c \in Calls, NEW user \in Users, Arrive(c, "login", NoCookie, user)
      PROVE  SessionsInv'
  <2>1. NoCookie \in 0 .. count /\ "login" \in Kinds
    BY DEF SessionsInv, SessionsTypeOK
  <2> QED
    BY <1>2, <2>1, ClientInv
<1>3. ASSUME NEW c \in Calls, NEW user \in Verified, Arrive(c, "data", NoCookie, user)
      PROVE  SessionsInv'
  <2>1. NoCookie \in 0 .. count /\ "data" \in Kinds /\ user \in Users \union {None}
    BY DEF SessionsInv, SessionsTypeOK
  <2> QED
    BY <1>3, <2>1, ClientInv
<1>4. ASSUME NEW c \in Calls, NEW kind \in {"renew", "logout"}, NEW cookie \in 0 .. count,
             Arrive(c, kind, cookie, None)
      PROVE  SessionsInv'
  <2>1. kind \in Kinds /\ None \in Users \union {None}
    OBVIOUS
  <2> QED
    BY <1>4, <2>1, ClientInv
<1>5. ASSUME NEW c \in Calls, Serve(c) \/ Fail(c) \/ Lose(c) \/ Finish(c)
      PROVE  SessionsInv'
  BY <1>5, RefuseLoginInv, LoginInv, VerifyRenewalInv, LockSessionInv, RotateInv,
     LogoutNothingInv, BlockSessionInv, AccessInv, FailInv, ClientInv DEF Serve
<1>6. CASE Expire
  BY <1>6, ExpireInv
<1> QED
  BY <1>1, <1>2, <1>3, <1>4, <1>5, <1>6 DEF SessionsNext

\* The tables, the locks and the transactions in progress stay consistent,
\* whatever calls arrive and in whatever order the server serves them.
THEOREM SessionsInvariant == SessionsSpec => []SessionsInv
<1>1. SessionsInit => SessionsInv
  BY SessionsInitInv
<1>2. SessionsInv /\ [SessionsNext]_sessionVars => SessionsInv'
  BY SessionsNextInv
<1> QED
  BY <1>1, <1>2, PTL DEF SessionsSpec

\* renewToken under the row lock never redeems one refresh token twice.
THEOREM TokensRedeemedOnce == SessionsSpec => []RedeemedOnce
<1>1. SessionsInv => RedeemedOnce
  BY DEF SessionsInv, ChainInv
<1> QED
  BY <1>1, SessionsInvariant, PTL

\* The three steps that write the sessions table; every other step leaves it
\* and the tokens as they are.
LEMMA Writers ==
  ASSUME [SessionsNext]_sessionVars
  PROVE  \/ UNCHANGED <<count, sessionOf, from, rows>>
         \/ \E c \in Calls : Login(c) \/ Rotate(c)
         \/ \E c \in Calls : BlockSession(c)
<1>1. ASSUME NEW c \in Calls, Serve(c), ~Login(c), ~Rotate(c), ~BlockSession(c)
      PROVE  UNCHANGED <<count, sessionOf, from, rows>>
  BY <1>1 DEF Serve, RefuseLogin, VerifyRenewal, LockSession, LogoutNothing, Access, IssueNothing
<1> QED
  BY <1>1 DEF SessionsNext, sessionVars, Arrive, Fail, Lose, Finish, Expire, IssueNothing

\* A session that logoutUser blocked is never rotated or issued again, and
\* nothing unblocks it.
THEOREM BlockedStaysBlocked == SessionsSpec => BlockedIsFinal
<1>1. ASSUME SessionsInv, [SessionsNext]_sessionVars, NEW s \in Tokens, rows[s].blocked
      PROVE  rows'[s] = rows[s]
  <2>0. SessionsTypeOK /\ ChainInv /\ rows[s] \in Row
    BY <1>1 DEF SessionsInv, SessionsTypeOK
  <2>1. CASE UNCHANGED <<count, sessionOf, from, rows>>
    BY <2>1
  <2>2. ASSUME NEW c \in Calls, Login(c)
        PROVE  rows'[s] = rows[s]
    <3>1. s # count + 1
      BY <1>1, <2>0 DEF ChainInv, SessionsTypeOK
    <3> QED
      BY <2>0, <2>2, <3>1 DEF Login, SessionsTypeOK
  <2>3. ASSUME NEW c \in Calls, Rotate(c)
        PROVE  rows'[s] = rows[s]
    BY <1>1, <2>3, Rotating
  <2>4. ASSUME NEW c \in Calls, BlockSession(c)
        PROVE  rows'[s] = rows[s]
    BY <1>1, <2>0, <2>4 DEF BlockSession, SessionsTypeOK, Row
  <2> QED
    BY <1>1, <2>1, <2>2, <2>3, <2>4, Writers
<1>2. SessionsInv /\ [SessionsNext]_sessionVars
      => [\A s \in Tokens : rows[s].blocked => rows'[s] = rows[s]]_sessionVars
  BY <1>1
<1> QED
  BY <1>2, SessionsInvariant, PTL DEF SessionsSpec, BlockedIsFinal

\* Only BlockSession answers with success a logout whose cookie names a session.
THEOREM LogoutBlocksSession == SessionsSpec => LogoutBlocks
<1>1. ASSUME SessionsInv, SessionsNext, NEW c \in Calls,
             call[c].kind = "logout", call[c].stage = "sent",
             call'[c].stage = "answered", call'[c].code = "ok",
             call[c].cookie # NoCookie, ~Expired(call[c].cookie)
      PROVE  rows'[SessionIn(c)].blocked
  <2>0. SessionsTypeOK /\ ChainInv /\ call \in [Calls -> Call]
    BY <1>1 DEF SessionsInv, SessionsTypeOK
  <2>1. ASSUME NEW d \in Calls \ {c}, NEW user, NEW code, NEW cookie, RespondTo(d, user, code, cookie)
        PROVE  call'[c] = call[c]
    BY <2>0, <2>1 DEF RespondTo
  <2>2. ASSUME NEW d \in Calls, Serve(d)
        PROVE  d = c
    <3> SUFFICES ASSUME d # c PROVE call'[c] = call[c]
      BY <1>1
    <3> QED
      BY <2>0, <2>1, <2>2 DEF Serve, RefuseLogin, Login, VerifyRenewal, LockSession, Rotate,
         LogoutNothing, BlockSession, Access, Respond, Advance
  <2>3. ASSUME NEW d \in Calls, Fail(d)
        PROVE  FALSE
    <3>1. d = c
      BY <1>1, <2>0, <2>1, <2>3 DEF Fail, Respond
    <3> QED
      BY <1>1, <2>0, <2>3, <3>1 DEF Fail, Respond, RespondTo, IdleCall
  <2>4. ASSUME NEW d \in Calls, NEW kind, NEW cookie, NEW user, Arrive(d, kind, cookie, user)
        PROVE  FALSE
    BY <1>1, <2>0, <2>4 DEF Arrive
  <2>5. ASSUME NEW d \in Calls, Lose(d) \/ Finish(d)
        PROVE  FALSE
    <3>1. CASE d = c
      BY <1>1, <2>5, <3>1 DEF Lose, Finish
    <3>2. CASE d # c
      BY <1>1, <2>0, <2>1, <2>5, <3>2 DEF Lose, Finish, Respond
    <3> QED
      BY <3>1, <3>2
  <2>6. ~Expire
    BY <1>1 DEF Expire
  <2>7. Serve(c)
    BY <1>1, <2>2, <2>3, <2>4, <2>5, <2>6 DEF SessionsNext
  <2>8. BlockSession(c)
    BY <1>1, <2>7 DEF Serve, RefuseLogin, Login, VerifyRenewal, LockSession, Rotate,
       LogoutNothing, Access
  <2>9. SessionIn(c) \in Tokens
    BY <1>1, <2>0, SessionOfCall
  <2> QED
    BY <2>0, <2>8, <2>9 DEF BlockSession, SessionsTypeOK, Row
<1>2. SessionsInv /\ [SessionsNext]_sessionVars
      => [\A c \in Calls :
            /\ call[c].kind = "logout" /\ call[c].stage = "sent"
            /\ call'[c].stage = "answered" /\ call'[c].code = "ok"
            /\ call[c].cookie # NoCookie /\ ~Expired(call[c].cookie)
            => rows'[SessionIn(c)].blocked]_sessionVars
  BY <1>1
<1> QED
  BY <1>2, SessionsInvariant, PTL DEF SessionsSpec, LogoutBlocks

\* A sign-out that was answered ends the session for good, also one whose token
\* was being rotated.
THEOREM SignOutEndsSession == SessionsSpec => SignOutIsFinal
<1> QED
  BY BlockedStaysBlocked, LogoutBlocksSession DEF SignOutIsFinal

\* A session's row accepts the last token of its chain, and every earlier one
\* has a successor in the same session.
THEOREM SessionHasOneToken == SessionsSpec => []OneTokenPerSession
<1>1. SessionsInit => OneTokenPerSession
  BY DEF SessionsInit, OneTokenPerSession
<1>2. ASSUME SessionsInv, OneTokenPerSession, [SessionsNext]_sessionVars
      PROVE  OneTokenPerSession'
  <2>0. SessionsTypeOK /\ ChainInv
    BY <1>2 DEF SessionsInv
  <2>1. CASE UNCHANGED <<count, sessionOf, from, rows>>
    BY <1>2, <2>1 DEF OneTokenPerSession
  <2>2. ASSUME NEW c \in Calls, Login(c) PROVE OneTokenPerSession'
    <3>1. /\ count + 1 \in Tokens /\ count' = count + 1
          /\ sessionOf'[count + 1] = count + 1
          /\ \A n \in Tokens \ {count + 1} : sessionOf'[n] = sessionOf[n] /\ from'[n] = from[n]
      BY <1>2, <2>0, <2>2, Issuing DEF Login, Issue, SessionsTypeOK
    <3>2. /\ rows'[count + 1].token = count + 1
          /\ \A u \in Tokens \ {count + 1} : rows'[u] = rows[u]
      BY <2>0, <2>2, <3>1 DEF Login, SessionsTypeOK
    <3>3. ASSUME NEW n \in 1 .. count
          PROVE  \/ rows'[sessionOf'[n]].token = n
                 \/ \E m \in 1 .. count' : from'[m] = n /\ sessionOf'[m] = sessionOf'[n]
      <4>1. n \in Tokens \ {count + 1} /\ sessionOf[n] \in Tokens \ {count + 1}
        BY <2>0, <3>3 DEF ChainInv, SessionsTypeOK
      <4>2. CASE rows[sessionOf[n]].token = n
        BY <3>1, <3>2, <4>1, <4>2
      <4>3. ASSUME NEW m \in 1 .. count, from[m] = n, sessionOf[m] = sessionOf[n]
            PROVE  \E i \in 1 .. count' : from'[i] = n /\ sessionOf'[i] = sessionOf'[n]
        <5>1. m \in Tokens \ {count + 1} /\ m \in 1 .. count'
          BY <2>0, <3>1, <4>3 DEF SessionsTypeOK
        <5> QED
          BY <3>1, <4>1, <4>3, <5>1
      <4> QED
        BY <1>2, <4>2, <4>3 DEF OneTokenPerSession
    <3>4. \A n \in 1 .. count' : n \in 1 .. count \/ n = count + 1
      BY <2>0, <3>1 DEF SessionsTypeOK
    <3> QED
      BY <3>1, <3>2, <3>3, <3>4 DEF OneTokenPerSession
  <2>3. ASSUME NEW c \in Calls, Rotate(c) PROVE OneTokenPerSession'
    <3> DEFINE s == SessionIn(c)
    <3>1. /\ s \in Tokens /\ rows[s].token = call[c].cookie /\ count + 1 \in Tokens
          /\ count' = count + 1 /\ sessionOf'[count + 1] = s /\ from'[count + 1] = call[c].cookie
          /\ \A n \in Tokens \ {count + 1} : sessionOf'[n] = sessionOf[n] /\ from'[n] = from[n]
          /\ rows'[s].token = count + 1 /\ \A u \in Tokens \ {s} : rows'[u] = rows[u]
      BY <1>2, <2>3, Rotating
    <3>2. count + 1 \in 1 .. count'
      BY <2>0, <3>1 DEF SessionsTypeOK
    <3> HIDE DEF s
    <3>3. ASSUME NEW n \in 1 .. count
          PROVE  \/ rows'[sessionOf'[n]].token = n
                 \/ \E m \in 1 .. count' : from'[m] = n /\ sessionOf'[m] = sessionOf'[n]
      <4>1. n \in Tokens \ {count + 1} /\ sessionOf[n] \in Tokens
        BY <2>0, <3>3 DEF ChainInv, SessionsTypeOK
      <4>2. CASE rows[sessionOf[n]].token = n /\ sessionOf[n] # s
        BY <3>1, <4>1, <4>2
      <4>3. CASE rows[sessionOf[n]].token = n /\ sessionOf[n] = s
        BY <3>1, <3>2, <4>1, <4>3
      <4>4. ASSUME NEW m \in 1 .. count, from[m] = n, sessionOf[m] = sessionOf[n]
            PROVE  \E i \in 1 .. count' : from'[i] = n /\ sessionOf'[i] = sessionOf'[n]
        <5>1. m \in Tokens \ {count + 1} /\ m \in 1 .. count'
          BY <2>0, <3>1, <4>4 DEF SessionsTypeOK
        <5> QED
          BY <3>1, <4>1, <4>4, <5>1
      <4> QED
        BY <1>2, <4>2, <4>3, <4>4 DEF OneTokenPerSession
    <3>4. \A n \in 1 .. count' : n \in 1 .. count \/ n = count + 1
      BY <2>0, <3>1 DEF SessionsTypeOK
    <3> QED
      BY <3>1, <3>3, <3>4 DEF OneTokenPerSession
  <2>4. ASSUME NEW c \in Calls, BlockSession(c) PROVE OneTokenPerSession'
    <3>1. \A u \in Tokens : rows'[u].token = rows[u].token
      BY <2>0, <2>4 DEF BlockSession, SessionsTypeOK, Row
    <3>2. \A n \in 1 .. count : sessionOf[n] \in Tokens
      BY <2>0 DEF ChainInv, SessionsTypeOK
    <3> QED
      BY <1>2, <2>4, <3>1, <3>2 DEF BlockSession, IssueNothing, OneTokenPerSession
  <2> QED
    BY <1>2, <2>1, <2>2, <2>3, <2>4, Writers
<1> QED
  BY <1>1, <1>2, SessionsInvariant, PTL DEF SessionsSpec

\* The tokens of a session form one chain, without a fork and without a gap.
THEOREM TokensFormChains == SessionsSpec => []TokensChain
<1>1. RedeemedOnce /\ OneTokenPerSession => TokensChain
  BY DEF TokensChain
<1> QED
  BY <1>1, TokensRedeemedOnce, SessionHasOneToken, PTL

-----------------------------------------------------------------------------
(* What is true of the calls in flight and of the tabs they belong to.     *)

\* The call was started under the generation its tab still has.
Current(c) == ctx[c].tab # None /\ ~Stale(c)
Renewal(c) == ctx[c].tab # None /\ call[c].kind = "renew"

\* Only verified users have sessions, and only they get access tokens.
UsersInv ==
  /\ \A t \in Tabs : tab[t].user \in Verified \union {None}
  /\ \A s \in Tokens : rows[s].token # NoCookie => rows[s].user \in Verified
  /\ \A c \in Calls :
       call[c].stage = "answered" /\ call[c].kind \in {"login", "renew"} /\ call[c].code = "ok"
       => call[c].user \in Verified

\* What a tab is like as long as the answer to c will not come too late.
CurrentInv(c) ==
  LET n == tab[ctx[c].tab] IN
  Current(c) =>
    /\ call[c].kind = "data" => n.user # None /\ call[c].user = n.user
    /\ call[c].kind = "login" => n.user = None /\ ~n.unavailable
    /\ call[c].kind = "renew" => n.attempt = c
    /\ call[c].kind \in {"login", "renew"} => ~ctx[c].old
    /\ call[c].kind = "login" =>
         \A d \in Calls : Current(d) /\ ctx[d].tab = ctx[c].tab /\ call[d].kind \in {"login", "renew"}
                        => d = c

\* Who waits for what, and whose results are known.
WaitInv(c) ==
  /\ ctx[c].tab # None => ctx[c].gen <= tab[ctx[c].tab].gen
  /\ ctx[c].stored => call[c].stage = "answered"
  /\ ctx[c].waits # None \/ ctx[c].outcome # "none" =>
       ctx[c].tab # None /\ ctx[c].stored /\ call[c].kind = "data"
  /\ ctx[c].waits # None =>
       LET d == ctx[c].waits IN
       /\ ctx[c].outcome = "none"
       /\ call[d].kind = "renew" /\ ctx[d].tab = ctx[c].tab /\ ctx[d].gen = ctx[c].gen

\* The stores of a tab hold nothing but its user's data.
IdentityInv ==
  /\ UsersInv /\ ShownIsOwn
  /\ \A c \in Calls : CurrentInv(c) /\ WaitInv(c)

\* What is in a response, and where the cookie of a call comes from.
ResponseInv(c) ==
  /\ call[c].setCookie <= count /\ ctx[c].cookie <= count
  /\ call[c].stage # "answered" => call[c].setCookie = Keep
  /\ call[c].stage = "answered" /\ call[c].kind = "login" /\ call[c].code = "ok" =>
       call[c].setCookie \in Tokens
  /\ Renewal(c) /\ call[c].stage # "answered" => call[c].cookie = ctx[c].cookie
  /\ Renewal(c) /\ call[c].stage = "answered" /\ call[c].code = "denied" =>
       ctx[c].cookie # NoCookie

\* The token in a response the browser has not seen is the one its session is
\* at, and nobody else has it.
InFlight(c) == call[c].setCookie \in Tokens /\ ~ctx[c].stored
FlightInv(c) ==
  InFlight(c) =>
    LET n == call[c].setCookie IN
    /\ rows[sessionOf[n]].token = n /\ jar # n
    /\ \A d \in Calls : /\ call[d].cookie # n /\ ctx[d].cookie # n
                        /\ d # c => call[d].setCookie # n

\* The cookie's session is at the cookie's token unless it is on its way.
JarInv ==
  jar # NoCookie =>
    LET row == rows[sessionOf[jar]] IN
    \/ row.blocked \/ row.token = jar \/ sessionOf[jar] \in dropped
    \/ \E c \in Calls : InFlight(c) /\ call[c].setCookie = row.token

CookieInv == JarInv /\ \A c \in Calls : ResponseInv(c) /\ FlightInv(c)

\* The renewals a tab has given up do not hold its cookie.
GivenUp(t, cookie) ==
  \A d \in Calls :
    Renewal(d) /\ ctx[d].tab = t /\ Stale(d) /\ cookie # NoCookie => ctx[d].cookie # cookie

Renews(t) ==
  \/ tab[t].user # None \/ tab[t].unavailable
  \/ \E c \in Calls : ctx[c].tab = t /\ ~Stale(c)
       /\ \/ call[c].kind = "renew"
          \/ call[c].kind = "login" /\ ctx[c].stored /\ call[c].code = "ok"

\* A token that a page has redeemed.
SpentInv(n) ==
  spentBy[n] # None =>
    /\ n <= count /\ rows[sessionOf[n]].token # n
    /\ \/ sessionOf[n] \in dropped \/ jar # n
       \/ \E d \in Calls :
            /\ Renewal(d) /\ ctx[d].tab = spentBy[n] /\ ctx[d].cookie = n
            /\ InFlight(d) /\ sessionOf[call[d].setCookie] = sessionOf[n]

\* A renewal under way has the tab's cookie for itself.
OwnInv(c) ==
  Renewal(c) /\ ~Stale(c) /\ ctx[c].cookie # NoCookie =>
    /\ GivenUp(ctx[c].tab, ctx[c].cookie)
    /\ spentBy[ctx[c].cookie] = ctx[c].tab =>
         \/ sessionOf[ctx[c].cookie] \in dropped
         \/ call[c].stage = "answered" /\ call[c].code # "denied"

RenewalInv ==
  /\ \A t \in Tabs : Renews(t) => GivenUp(t, jar)
  /\ \A n \in Tokens : SpentInv(n)
  /\ \A c \in Calls : OwnInv(c)

BrowserInv == TypeOK /\ SessionsInv /\ IdentityInv /\ CookieInv /\ RenewalInv
-----------------------------------------------------------------------------
(* What a step does to the tabs and to the calls.                          *)

\* Equal as far as the invariant can tell.
Alike(x, y) == /\ x.tab = y.tab /\ x.gen = y.gen /\ x.cookie = y.cookie
               /\ x.stored = y.stored /\ x.waits = y.waits /\ x.outcome = y.outcome

LEMMA FreshTypes == FreshTab \in Tab /\ NoCtx \in Ctx
BY DEF FreshTab, NoCtx, Tab, Ctx

\* The tab after a step that is followed by the effect of App.svelte.
LEMMA Becoming ==
  ASSUME tab \in [Tabs -> Tab], NEW t \in Tabs, NEW n \in Tab, Becomes(t, n)
  PROVE  /\ tab' \in [Tabs -> Tab]
         /\ \A u \in Tabs \ {t} : tab'[u] = tab[u]
         /\ tab'[t].gen = n.gen /\ tab'[t].user = n.user /\ tab'[t].attempt = n.attempt
         /\ tab'[t].unavailable = n.unavailable /\ tab'[t].status = n.status
         /\ tab'[t].loggingOut = n.loggingOut
         /\ tab'[t].shown = IF n.user = None \/ n.gen # tab[t].gen THEN None ELSE n.shown
<1>1. Redraw(t, n) \in Tab
  BY DEF Redraw, Tab
<1>2. tab' = [tab EXCEPT ![t] = Redraw(t, n)]
  BY DEF Becomes
<1>3. tab' \in [Tabs -> Tab] /\ tab'[t] = Redraw(t, n) /\ \A u \in Tabs \ {t} : tab'[u] = tab[u]
  BY <1>1, <1>2
<1> QED
  BY <1>3 DEF Redraw, Tab

LEMMA Ageing ==
  ASSUME NEW t, NEW n, NEW f \in [Calls -> Ctx]
  PROVE  /\ Aged(t, n, f) \in [Calls -> Ctx]
         /\ \A d \in Calls :
              /\ Alike(Aged(t, n, f)[d], f[d])
              /\ Aged(t, n, f)[d].old <=> f[d].old \/ (f[d].tab = t /\ SignedIn(t) /\ n.user = None)
<1>1. ASSUME NEW d \in Calls
      PROVE  /\ Aged(t, n, f)[d] \in Ctx /\ Alike(Aged(t, n, f)[d], f[d])
             /\ Aged(t, n, f)[d].old <=> f[d].old \/ (f[d].tab = t /\ SignedIn(t) /\ n.user = None)
  <2>1. f[d] \in Ctx
    OBVIOUS
  <2>2. CASE f[d].tab = t /\ SignedIn(t) /\ n.user = None
    BY <2>1, <2>2 DEF Aged, Alike, Ctx
  <2>3. CASE ~(f[d].tab = t /\ SignedIn(t) /\ n.user = None)
    BY <2>1, <2>3 DEF Aged, Alike, Ctx
  <2> QED
    BY <2>2, <2>3
<1>2. Aged(t, n, f) = [d \in Calls |-> Aged(t, n, f)[d]]
  BY DEF Aged
<1> QED
  BY <1>1, <1>2

LEMMA SentByType ==
  ASSUME jar \in Tokens \union {NoCookie}, NEW t \in Tabs, NEW gen \in Nat
  PROVE  /\ SentBy(t, gen) \in Ctx
         /\ SentBy(t, gen).tab = t /\ SentBy(t, gen).gen = gen /\ SentBy(t, gen).cookie = jar
         /\ ~SentBy(t, gen).stored /\ SentBy(t, gen).waits = None
         /\ SentBy(t, gen).outcome = "none" /\ ~SentBy(t, gen).old
BY DEF SentBy, NoCtx, Ctx

\* A call is sent.
LEMMA Sending ==
  ASSUME TypeOK, NEW c \in Calls, NEW kind \in Kinds, NEW user \in Users \union {None},
         Send(c, kind, user)
  PROVE  /\ call' \in [Calls -> Call]
         /\ \A d \in Calls \ {c} : call'[d] = call[d]
         /\ call'[c].kind = kind /\ call'[c].user = user /\ call'[c].stage = "sent"
         /\ call'[c].code = None /\ call'[c].setCookie = Keep
         /\ call'[c].cookie = IF kind \in {"renew", "logout"} THEN jar ELSE NoCookie
         /\ UNCHANGED <<count, sessionOf, from, rows, lock, expired>>
<1> DEFINE cookie == IF kind \in {"renew", "logout"} THEN jar ELSE NoCookie
           new == [IdleCall EXCEPT !.kind = kind, !.cookie = cookie, !.user = user, !.stage = "sent"]
<1>1. cookie \in Tokens \union {NoCookie} /\ call \in [Calls -> Call]
  BY DEF TypeOK, SessionsTypeOK
<1>2. call' = [call EXCEPT ![c] = new] /\ UNCHANGED <<count, sessionOf, from, rows, lock, expired>>
  BY DEF Send, Arrive
<1> HIDE DEF cookie
<1>3. /\ new \in Call /\ new.kind = kind /\ new.user = user /\ new.stage = "sent"
      /\ new.code = None /\ new.setCookie = Keep /\ new.cookie = cookie
  BY <1>1 DEF Call, IdleCall
<1> HIDE DEF new
<1> QED
  BY <1>1, <1>2, <1>3 DEF cookie

\* A call is over.
LEMMA Finishing ==
  ASSUME TypeOK, NEW c \in Calls, Finish(c)
  PROVE  /\ call' \in [Calls -> Call]
         /\ \A d \in Calls \ {c} : call'[d] = call[d]
         /\ call'[c] = IdleCall
         /\ UNCHANGED <<count, sessionOf, from, rows, lock, expired>>
BY IdleCallType DEF Finish, TypeOK, SessionsTypeOK

\* A call starts in tab t, or ends; another one is left as it is, or its page
\* is gone.
Starts(c, kind, t) ==
  /\ call'[c].kind = kind /\ call'[c].stage = "sent" /\ call'[c].code = None
  /\ call'[c].setCookie = Keep
  /\ call'[c].cookie = IF kind \in {"renew", "logout"} THEN jar ELSE NoCookie
  /\ ctx'[c].tab = t /\ ctx'[c].gen = tab'[t].gen /\ ctx'[c].cookie = jar
  /\ ~ctx'[c].stored /\ ctx'[c].waits = None /\ ctx'[c].outcome = "none"
Ends(c) == call'[c] = IdleCall /\ ctx'[c] = NoCtx
Kept(d) ==
  /\ call'[d] = call[d] /\ ctx'[d].tab = ctx[d].tab /\ ctx'[d].gen = ctx[d].gen
  /\ ctx'[d].cookie = ctx[d].cookie /\ ctx'[d].stored = ctx[d].stored
Abandoned(d) ==
  /\ call'[d] = call[d] /\ ctx'[d].tab = None /\ ctx'[d].cookie = NoCookie
  /\ ctx'[d].stored = ctx[d].stored /\ ctx'[d].waits = None /\ ctx'[d].outcome = "none"
SameWait(d) == ctx'[d].waits = ctx[d].waits /\ ctx'[d].outcome = ctx[d].outcome
SameOld(d) == ctx'[d].old = ctx[d].old

\* What a client's step leaves to the server.
ServerIdle == UNCHANGED <<count, sessionOf, from, rows, lock, expired>>
Typed ==
  /\ call' \in [Calls -> Call] /\ tab' \in [Tabs -> Tab] /\ ctx' \in [Calls -> Ctx]

LEMMA LoadEffect ==
  ASSUME TypeOK, NEW t \in Tabs, NEW c \in Calls, Load(t, c)
  PROVE  /\ Typed /\ ServerIdle /\ UNCHANGED <<jar, dropped>>
         /\ spentBy' = [n \in Tokens |-> IF spentBy[n] = t THEN None ELSE spentBy[n]]
         /\ call[c].stage = "idle" /\ Starts(c, "renew", t) /\ ~ctx'[c].old
         /\ \A u \in Tabs \ {t} : tab'[u] = tab[u]
         /\ tab'[t].gen = 0 /\ tab'[t].user = None /\ tab'[t].attempt = c
         /\ ~tab'[t].unavailable /\ tab'[t].shown = None
         /\ \A d \in Calls \ {c} : IF ctx[d].tab = t THEN Abandoned(d)
                                   ELSE Kept(d) /\ SameWait(d) /\ SameOld(d)
<1>0. tab \in [Tabs -> Tab] /\ ctx \in [Calls -> Ctx] /\ jar \in Tokens \union {NoCookie}
  BY DEF TypeOK, SessionsTypeOK
<1> DEFINE n == [FreshTab EXCEPT !.status = "starting", !.attempt = c]
<1>1. /\ n \in Tab /\ n.gen = 0 /\ n.user = None /\ n.attempt = c /\ ~n.unavailable
      /\ n.shown = None
  BY DEF Tab, FreshTab
<1>2. tab' = [tab EXCEPT ![t] = n]
  BY DEF Load
<1> HIDE DEF n
<1>3. tab' \in [Tabs -> Tab] /\ tab'[t] = n /\ \A u \in Tabs \ {t} : tab'[u] = tab[u]
  BY <1>0, <1>1, <1>2
<1>4. /\ call' \in [Calls -> Call] /\ ServerIdle
      /\ \A d \in Calls \ {c} : call'[d] = call[d]
      /\ call'[c].kind = "renew" /\ call'[c].stage = "sent" /\ call'[c].code = None
      /\ call'[c].setCookie = Keep /\ call'[c].cookie = jar
  <2>1. Send(c, "renew", None)
    BY DEF Load
  <2> QED
    BY <2>1, Sending DEF ServerIdle
<1>5. /\ SentBy(t, 0) \in Ctx /\ SentBy(t, 0).tab = t /\ SentBy(t, 0).gen = 0
      /\ SentBy(t, 0).cookie = jar /\ ~SentBy(t, 0).stored /\ SentBy(t, 0).waits = None
      /\ SentBy(t, 0).outcome = "none" /\ ~SentBy(t, 0).old
  <2>1. 0 \in Nat
    OBVIOUS
  <2> QED
    BY <1>0, <2>1, SentByType
<1>6. ASSUME NEW d \in Calls
      PROVE  /\ [NoCtx EXCEPT !.stored = ctx[d].stored] \in Ctx
             /\ [NoCtx EXCEPT !.stored = ctx[d].stored].tab = None
             /\ [NoCtx EXCEPT !.stored = ctx[d].stored].cookie = NoCookie
             /\ [NoCtx EXCEPT !.stored = ctx[d].stored].stored = ctx[d].stored
             /\ [NoCtx EXCEPT !.stored = ctx[d].stored].waits = None
             /\ [NoCtx EXCEPT !.stored = ctx[d].stored].outcome = "none"
  <2>1. ctx[d].stored \in BOOLEAN
    BY <1>0 DEF Ctx
  <2> QED
    BY <2>1 DEF Ctx, NoCtx
<1>7. ctx' = [d \in Calls |-> IF d = c THEN SentBy(t, 0)
                              ELSE IF ctx[d].tab = t THEN [NoCtx EXCEPT !.stored = ctx[d].stored]
                              ELSE ctx[d]]
  BY DEF Load
<1>8. ctx' \in [Calls -> Ctx] /\ ctx'[c] = SentBy(t, 0)
  BY <1>0, <1>5, <1>6, <1>7
<1>9. ASSUME NEW d \in Calls \ {c}
      PROVE  IF ctx[d].tab = t THEN Abandoned(d) ELSE Kept(d) /\ SameWait(d) /\ SameOld(d)
  <2>1. ctx'[d] = IF ctx[d].tab = t THEN [NoCtx EXCEPT !.stored = ctx[d].stored] ELSE ctx[d]
    BY <1>7
  <2> QED
    BY <1>4, <1>6, <2>1 DEF Abandoned, Kept, SameWait, SameOld
<1>10. /\ call[c].stage = "idle" /\ UNCHANGED <<jar, dropped>>
       /\ spentBy' = [k \in Tokens |-> IF spentBy[k] = t THEN None ELSE spentBy[k]]
  BY DEF Load
<1> QED
  BY <1>1, <1>3, <1>4, <1>5, <1>8, <1>9, <1>10 DEF Typed, Starts

LEMMA SubmitLoginEffect ==
  ASSUME TypeOK, NEW t \in Tabs, NEW c \in Calls, NEW user \in Users, SubmitLogin(t, c, user)
  PROVE  /\ Typed /\ ServerIdle /\ UNCHANGED <<jar, dropped, spentBy>>
         /\ call[c].stage = "idle" /\ Starts(c, "login", t) /\ ~ctx'[c].old
         /\ \A u \in Tabs \ {t} : tab'[u] = tab[u]
         /\ tab'[t].gen = tab[t].gen + 1 /\ tab'[t].user = None /\ tab'[t].attempt = tab[t].attempt
         /\ tab[t].user = None /\ ~tab[t].unavailable /\ ~tab'[t].unavailable
         /\ tab'[t].shown = None
         /\ \A d \in Calls \ {c} : Kept(d) /\ SameWait(d) /\ SameOld(d)
<1> DEFINE g == tab[t].gen + 1
           n == [tab[t] EXCEPT !.gen = g]
<1>0. tab \in [Tabs -> Tab] /\ ctx \in [Calls -> Ctx] /\ jar \in Tokens \union {NoCookie}
  BY DEF TypeOK, SessionsTypeOK
<1>1. g \in Nat /\ tab[t].user = None /\ ~tab[t].unavailable
  BY <1>0 DEF SubmitLogin, SignedIn, Tab
<1>2. /\ n \in Tab /\ n.gen = g /\ n.user = tab[t].user /\ n.attempt = tab[t].attempt
      /\ n.unavailable = tab[t].unavailable
  BY <1>0, <1>1 DEF Tab
<1>3. Becomes(t, n) /\ Send(c, "login", user) /\ ctx' = [ctx EXCEPT ![c] = SentBy(t, g)]
  BY DEF SubmitLogin
<1> HIDE DEF n, g
<1>4. /\ tab' \in [Tabs -> Tab] /\ \A u \in Tabs \ {t} : tab'[u] = tab[u]
      /\ tab'[t].gen = g /\ tab'[t].user = None /\ tab'[t].attempt = tab[t].attempt
      /\ ~tab'[t].unavailable /\ tab'[t].shown = None
  BY <1>0, <1>1, <1>2, <1>3, Becoming
<1>5. /\ SentBy(t, g) \in Ctx /\ SentBy(t, g).tab = t /\ SentBy(t, g).gen = g
      /\ SentBy(t, g).cookie = jar /\ ~SentBy(t, g).stored /\ SentBy(t, g).waits = None
      /\ SentBy(t, g).outcome = "none" /\ ~SentBy(t, g).old
  BY <1>0, <1>1, SentByType
<1>6. /\ call' \in [Calls -> Call] /\ ServerIdle
      /\ \A d \in Calls \ {c} : call'[d] = call[d]
      /\ call'[c].kind = "login" /\ call'[c].stage = "sent" /\ call'[c].code = None
      /\ call'[c].setCookie = Keep /\ call'[c].cookie = NoCookie
  BY <1>3, Sending DEF ServerIdle
<1>7. /\ ctx' \in [Calls -> Ctx] /\ ctx'[c] = SentBy(t, g)
      /\ \A d \in Calls \ {c} : ctx'[d] = ctx[d]
  BY <1>0, <1>3, <1>5
<1>8. call[c].stage = "idle" /\ UNCHANGED <<jar, dropped, spentBy>>
  BY DEF SubmitLogin
<1> QED
  BY <1>1, <1>4, <1>5, <1>6, <1>7, <1>8 DEF Typed, Starts, Kept, SameWait, SameOld, g

LEMMA ClickLogoutEffect ==
  ASSUME TypeOK, NEW t \in Tabs, NEW c \in Calls, ClickLogout(t, c)
  PROVE  /\ Typed /\ ServerIdle /\ UNCHANGED <<jar, dropped, spentBy>>
         /\ call[c].stage = "idle" /\ Starts(c, "logout", t)
         /\ \A u \in Tabs \ {t} : tab'[u] = tab[u]
         /\ tab'[t].gen = tab[t].gen + 1 /\ tab'[t].user = None /\ tab'[t].attempt = tab[t].attempt
         /\ ~tab'[t].unavailable /\ tab'[t].shown = None
         /\ \A d \in Calls \ {c} : /\ Kept(d) /\ SameWait(d)
                                   /\ ctx'[d].old => ctx[d].old \/ ctx[d].tab = t
<1> DEFINE n == LoggedOut(tab[t])
           f == [ctx EXCEPT ![c] = SentBy(t, n.gen)]
<1>0. tab \in [Tabs -> Tab] /\ ctx \in [Calls -> Ctx] /\ jar \in Tokens \union {NoCookie}
  BY DEF TypeOK, SessionsTypeOK
<1>1. /\ n \in Tab /\ n.gen = tab[t].gen + 1 /\ n.user = None /\ n.attempt = tab[t].attempt
      /\ ~n.unavailable
  <2>1. tab[t] \in Tab /\ tab[t].gen + 1 \in Nat
    BY <1>0 DEF Tab
  <2>2. n \in Tab
    BY <2>1 DEF Tab, LoggedOut
  <2> QED
    BY <2>1, <2>2 DEF Tab, LoggedOut
<1>2. Becomes(t, n) /\ Send(c, "logout", None) /\ ctx' = Aged(t, n, f)
  BY DEF ClickLogout
<1> HIDE DEF n
<1>3. /\ tab' \in [Tabs -> Tab] /\ \A u \in Tabs \ {t} : tab'[u] = tab[u]
      /\ tab'[t].gen = n.gen /\ tab'[t].user = None /\ tab'[t].attempt = tab[t].attempt
      /\ ~tab'[t].unavailable /\ tab'[t].shown = None
  BY <1>0, <1>1, <1>2, Becoming
<1>4. /\ SentBy(t, n.gen) \in Ctx /\ SentBy(t, n.gen).tab = t /\ SentBy(t, n.gen).gen = n.gen
      /\ SentBy(t, n.gen).cookie = jar /\ ~SentBy(t, n.gen).stored
      /\ SentBy(t, n.gen).waits = None /\ SentBy(t, n.gen).outcome = "none"
  <2>1. n.gen \in Nat
    BY <1>1 DEF Tab
  <2> QED
    BY <1>0, <2>1, SentByType
<1>5. /\ f \in [Calls -> Ctx] /\ f[c] = SentBy(t, n.gen)
      /\ \A d \in Calls \ {c} : f[d] = ctx[d]
  BY <1>0, <1>4
<1> HIDE DEF f
<1>6. /\ ctx' \in [Calls -> Ctx]
      /\ \A d \in Calls : /\ Alike(ctx'[d], f[d])
                          /\ ctx'[d].old => f[d].old \/ f[d].tab = t
  BY <1>2, <1>5, Ageing
<1>7. /\ call' \in [Calls -> Call] /\ ServerIdle
      /\ \A d \in Calls \ {c} : call'[d] = call[d]
      /\ call'[c].kind = "logout" /\ call'[c].stage = "sent" /\ call'[c].code = None
      /\ call'[c].setCookie = Keep /\ call'[c].cookie = jar
  BY <1>2, Sending DEF ServerIdle
<1>8. call[c].stage = "idle" /\ UNCHANGED <<jar, dropped, spentBy>>
  BY DEF ClickLogout
<1>9. Starts(c, "logout", t)
  BY <1>3, <1>4, <1>5, <1>6, <1>7 DEF Starts, Alike
<1>10. ASSUME NEW d \in Calls \ {c}
       PROVE  Kept(d) /\ SameWait(d) /\ (ctx'[d].old => ctx[d].old \/ ctx[d].tab = t)
  BY <1>5, <1>6, <1>7 DEF Alike, Kept, SameWait
<1> QED
  BY <1>1, <1>3, <1>6, <1>7, <1>8, <1>9, <1>10 DEF Typed

LEMMA LoadDataEffect ==
  ASSUME TypeOK, NEW t \in Tabs, NEW c \in Calls, LoadData(t, c)
  PROVE  /\ Typed /\ ServerIdle /\ UNCHANGED <<jar, tab, dropped, spentBy>>
         /\ call[c].stage = "idle" /\ Starts(c, "data", t)
         /\ tab[t].user # None /\ call'[c].user = tab[t].user
         /\ \A d \in Calls \ {c} : Kept(d) /\ SameWait(d) /\ SameOld(d)
<1> DEFINE s == SentBy(t, tab[t].gen)
<1>0. /\ tab \in [Tabs -> Tab] /\ ctx \in [Calls -> Ctx] /\ jar \in Tokens \union {NoCookie}
      /\ tab[t].gen \in Nat /\ tab[t].user \in Users \union {None}
  BY DEF TypeOK, SessionsTypeOK, Tab
<1>1. /\ call[c].stage = "idle" /\ UNCHANGED <<jar, tab, dropped, spentBy>> /\ tab[t].user # None
      /\ Send(c, "data", tab[t].user) /\ ctx' = [ctx EXCEPT ![c] = s]
  BY DEF LoadData, SignedIn
<1>2. /\ s \in Ctx /\ s.tab = t /\ s.gen = tab[t].gen /\ s.cookie = jar /\ ~s.stored
      /\ s.waits = None /\ s.outcome = "none"
  BY <1>0, SentByType
<1> HIDE DEF s
<1>3. ctx' \in [Calls -> Ctx] /\ ctx'[c] = s /\ \A d \in Calls \ {c} : ctx'[d] = ctx[d]
  BY <1>0, <1>1, <1>2
<1>4. /\ call' \in [Calls -> Call] /\ ServerIdle
      /\ \A d \in Calls \ {c} : call'[d] = call[d]
      /\ call'[c].kind = "data" /\ call'[c].stage = "sent" /\ call'[c].code = None
      /\ call'[c].user = tab[t].user /\ call'[c].setCookie = Keep /\ call'[c].cookie = NoCookie
  BY <1>0, <1>1, Sending DEF ServerIdle
<1> QED
  BY <1>0, <1>1, <1>2, <1>3, <1>4 DEF Typed, Starts, Kept, SameWait, SameOld

\* A refresh attempt of tab t starts; f is what becomes of the other calls.
LEMMA StartRefreshEffect ==
  ASSUME TypeOK, NEW t \in Tabs, NEW c \in Calls, NEW f \in [Calls -> Ctx], StartRefresh(t, c, f)
  PROVE  /\ Typed /\ ServerIdle
         /\ call[c].stage = "idle" /\ Starts(c, "renew", t) /\ ~ctx'[c].old
         /\ \A u \in Tabs \ {t} : tab'[u] = tab[u]
         /\ tab'[t].gen = tab[t].gen /\ tab'[t].user = tab[t].user
         /\ tab'[t].unavailable = tab[t].unavailable /\ tab'[t].shown = tab[t].shown
         /\ tab'[t].attempt = c
         /\ \A d \in Calls \ {c} : call'[d] = call[d] /\ ctx'[d] = f[d]
<1> DEFINE s == SentBy(t, tab[t].gen)
<1>0. /\ tab \in [Tabs -> Tab] /\ jar \in Tokens \union {NoCookie} /\ tab[t].gen \in Nat
  BY DEF TypeOK, SessionsTypeOK, Tab
<1>1. /\ call[c].stage = "idle" /\ Send(c, "renew", None) /\ ctx' = [f EXCEPT ![c] = s]
      /\ tab' = [tab EXCEPT ![t].attempt = c]
  BY DEF StartRefresh
<1>2. /\ s \in Ctx /\ s.tab = t /\ s.gen = tab[t].gen /\ s.cookie = jar /\ ~s.stored
      /\ s.waits = None /\ s.outcome = "none" /\ ~s.old
  BY <1>0, SentByType
<1> HIDE DEF s
<1>3. ctx' \in [Calls -> Ctx] /\ ctx'[c] = s /\ \A d \in Calls \ {c} : ctx'[d] = f[d]
  BY <1>1, <1>2
<1>4. /\ call' \in [Calls -> Call] /\ ServerIdle
      /\ \A d \in Calls \ {c} : call'[d] = call[d]
      /\ call'[c].kind = "renew" /\ call'[c].stage = "sent" /\ call'[c].code = None
      /\ call'[c].setCookie = Keep /\ call'[c].cookie = jar
  BY <1>1, Sending DEF ServerIdle
<1>5. /\ tab' \in [Tabs -> Tab] /\ \A u \in Tabs \ {t} : tab'[u] = tab[u]
      /\ tab'[t].gen = tab[t].gen /\ tab'[t].user = tab[t].user
      /\ tab'[t].unavailable = tab[t].unavailable /\ tab'[t].shown = tab[t].shown
      /\ tab'[t].attempt = c
  BY <1>0, <1>1 DEF Tab
<1> QED
  BY <1>1, <1>2, <1>3, <1>4, <1>5 DEF Typed, Starts

LEMMA RetryRefreshEffect ==
  ASSUME TypeOK, NEW t \in Tabs, NEW c \in Calls, RetryRefresh(t, c)
  PROVE  /\ Typed /\ ServerIdle /\ UNCHANGED <<jar, dropped, spentBy>>
         /\ ~UnderWay(t) /\ tab[t].unavailable
         /\ call[c].stage = "idle" /\ Starts(c, "renew", t) /\ ~ctx'[c].old
         /\ \A u \in Tabs \ {t} : tab'[u] = tab[u]
         /\ tab'[t].gen = tab[t].gen /\ tab'[t].user = tab[t].user
         /\ tab'[t].unavailable = tab[t].unavailable /\ tab'[t].shown = tab[t].shown
         /\ tab'[t].attempt = c
         /\ \A d \in Calls \ {c} : Kept(d) /\ SameWait(d) /\ SameOld(d)
<1>1. ctx \in [Calls -> Ctx] /\ StartRefresh(t, c, ctx)
  BY DEF RetryRefresh, TypeOK
<1>2. /\ Typed /\ ServerIdle
      /\ call[c].stage = "idle" /\ Starts(c, "renew", t) /\ ~ctx'[c].old
      /\ \A u \in Tabs \ {t} : tab'[u] = tab[u]
      /\ tab'[t].gen = tab[t].gen /\ tab'[t].user = tab[t].user
      /\ tab'[t].unavailable = tab[t].unavailable /\ tab'[t].shown = tab[t].shown
      /\ tab'[t].attempt = c
      /\ \A d \in Calls \ {c} : call'[d] = call[d] /\ ctx'[d] = ctx[d]
  BY <1>1, StartRefreshEffect
<1> QED
  BY <1>2 DEF RetryRefresh, Kept, SameWait, SameOld

\* The request joins the attempt that is under way, or starts one.
LEMMA AwaitEffect ==
  ASSUME TypeOK, NEW c \in Calls, NEW d \in Calls, AwaitRefresh(c, d)
  PROVE  /\ Typed /\ ServerIdle /\ UNCHANGED <<jar, dropped, spentBy>>
         /\ call[c].kind = "data" /\ call[c].stage = "answered" /\ Current(c) /\ ctx[c].stored
         /\ ctx[c].waits = None /\ ctx[c].outcome = "none"
         /\ ctx'[c].waits = d /\ ctx'[c].outcome = "none" /\ Kept(c) /\ SameOld(c) /\ d # c
         /\ \A e \in Calls \ {c, d} : Kept(e) /\ SameWait(e) /\ SameOld(e)
         /\ \/ /\ UnderWay(ctx[c].tab) /\ d = tab[ctx[c].tab].attempt
               /\ Kept(d) /\ SameWait(d) /\ SameOld(d) /\ UNCHANGED tab
            \/ /\ ~UnderWay(ctx[c].tab) /\ call[d].stage = "idle"
               /\ Starts(d, "renew", ctx[c].tab) /\ ~ctx'[d].old
               /\ \A u \in Tabs \ {ctx[c].tab} : tab'[u] = tab[u]
               /\ LET m == tab[ctx[c].tab] n == tab'[ctx[c].tab] IN
                  /\ n.gen = m.gen /\ n.user = m.user /\ n.unavailable = m.unavailable
                  /\ n.shown = m.shown /\ n.attempt = d
<1> DEFINE t == ctx[c].tab
           f == [ctx EXCEPT ![c].waits = d]
<1>0. ctx \in [Calls -> Ctx] /\ tab \in [Tabs -> Tab] /\ call \in [Calls -> Call]
  BY DEF TypeOK, SessionsTypeOK
<1>1. /\ call[c].kind = "data" /\ call[c].stage = "answered" /\ Current(c) /\ ctx[c].stored
      /\ ctx[c].waits = None /\ ctx[c].outcome = "none" /\ t \in Tabs
  BY <1>0 DEF AwaitRefresh, Resolved, Current, Ctx
<1>2. UNCHANGED <<jar, dropped, spentBy>>
  BY DEF AwaitRefresh
<1>3. /\ f \in [Calls -> Ctx] /\ \A e \in Calls \ {c} : f[e] = ctx[e]
      /\ f[c].waits = d /\ f[c].outcome = ctx[c].outcome /\ f[c].tab = t /\ f[c].gen = ctx[c].gen
      /\ f[c].cookie = ctx[c].cookie /\ f[c].stored = ctx[c].stored /\ f[c].old = ctx[c].old
  BY <1>0 DEF Ctx
<1>4. CASE UnderWay(t) /\ d = tab[t].attempt /\ ctx' = f /\ UNCHANGED <<sessionVars, tab>>
  <2>1. call[d].kind = "renew"
    BY <1>1, <1>4 DEF TypeOK, UnderWay
  <2> HIDE DEF f
  <2>2. Typed /\ ServerIdle /\ call' = call
    BY <1>0, <1>3, <1>4 DEF Typed, ServerIdle, sessionVars
  <2>3. \A e \in Calls \ {c} : Kept(e) /\ SameWait(e) /\ SameOld(e)
    BY <1>3, <1>4, <2>2 DEF Kept, SameWait, SameOld
  <2>4. ctx'[c].waits = d /\ ctx'[c].outcome = "none" /\ Kept(c) /\ SameOld(c) /\ d # c
    BY <1>1, <1>3, <1>4, <2>1, <2>2 DEF Kept, SameOld
  <2> QED
    BY <1>1, <1>2, <1>4, <2>2, <2>3, <2>4
<1>5. CASE ~UnderWay(t) /\ StartRefresh(t, d, f)
  <2> HIDE DEF f
  <2>1. /\ Typed /\ ServerIdle
        /\ call[d].stage = "idle" /\ Starts(d, "renew", t) /\ ~ctx'[d].old
        /\ \A u \in Tabs \ {t} : tab'[u] = tab[u]
        /\ tab'[t].gen = tab[t].gen /\ tab'[t].user = tab[t].user
        /\ tab'[t].unavailable = tab[t].unavailable /\ tab'[t].shown = tab[t].shown
        /\ tab'[t].attempt = d
        /\ \A e \in Calls \ {d} : call'[e] = call[e] /\ ctx'[e] = f[e]
    BY <1>1, <1>3, <1>5, StartRefreshEffect
  <2>2. \A e \in Calls \ {c, d} : Kept(e) /\ SameWait(e) /\ SameOld(e)
    BY <1>3, <2>1 DEF Kept, SameWait, SameOld
  <2>3. d # c
    BY <1>1, <2>1
  <2>4. ctx'[c].waits = d /\ ctx'[c].outcome = "none" /\ Kept(c) /\ SameOld(c)
    BY <1>1, <1>3, <2>1, <2>3 DEF Kept, SameOld
  <2> QED
    BY <1>1, <1>2, <1>5, <2>1, <2>2, <2>3, <2>4
<1> QED
  BY <1>4, <1>5 DEF AwaitRefresh

\* A call is over: the others are left as they are.
LEMMA EndEffect ==
  ASSUME TypeOK, NEW c \in Calls, Done(c), ctx' = [ctx EXCEPT ![c] = NoCtx]
  PROVE  /\ call' \in [Calls -> Call] /\ ctx' \in [Calls -> Ctx]
         /\ ServerIdle /\ UNCHANGED <<jar, dropped, spentBy>> /\ Ends(c)
         /\ \A d \in Calls \ {c} : Kept(d) /\ SameWait(d) /\ SameOld(d)
<1>1. Finish(c) /\ UNCHANGED <<jar, dropped, spentBy>> /\ ctx \in [Calls -> Ctx]
  BY DEF Done, TypeOK
<1>2. /\ call' \in [Calls -> Call] /\ call'[c] = IdleCall /\ ServerIdle
      /\ \A d \in Calls \ {c} : call'[d] = call[d]
  BY <1>1, Finishing DEF ServerIdle
<1>3. /\ ctx' \in [Calls -> Ctx] /\ ctx'[c] = NoCtx
      /\ \A d \in Calls \ {c} : ctx'[d] = ctx[d]
  BY <1>1, FreshTypes
<1> QED
  BY <1>1, <1>2, <1>3 DEF Ends, Kept, SameWait, SameOld

LEMMA Resolving ==
  ASSUME TypeOK, NEW c \in Calls, NEW kind, Resolved(c, kind)
  PROVE  /\ call[c].kind = kind /\ call[c].stage = "answered" /\ ctx[c].tab \in Tabs
         /\ ctx[c].stored /\ ctx[c].waits = None /\ ctx[c].outcome = "none"
         /\ tab[ctx[c].tab] \in Tab /\ call[c].user \in Users \union {None}
BY DEF Resolved, TypeOK, SessionsTypeOK, Ctx, Call

\* What becomes of the tab when its refresh attempt is answered.
LEMMA RefreshedTab ==
  ASSUME NEW t \in Tabs, NEW c \in Calls, tab[t] \in Tab, ctx[c].tab = t,
         call[c].user \in Users \union {None}
  PROVE  LET m == tab[t] n == AfterRefresh(t, c) IN
         /\ n \in Tab /\ n.attempt = m.attempt /\ n.shown = m.shown
         /\ Stale(c) => n = m
         /\ ~Stale(c) /\ call[c].code = "ok" =>
              /\ n.user = call[c].user /\ ~n.unavailable
              /\ n.gen = IF m.user # None /\ m.user # call[c].user THEN m.gen + 1 ELSE m.gen
         /\ ~Stale(c) /\ call[c].code = "error" => n.user = m.user /\ n.gen = m.gen
         /\ ~Stale(c) /\ call[c].code \notin {"ok", "error"} =>
              n.user = None /\ ~n.unavailable /\ n.gen = m.gen + 1
<1> DEFINE m == tab[t]
<1>0. m \in Tab /\ m.gen \in Nat /\ m.gen + 1 \in Nat
  BY DEF Tab
<1>1. CASE Stale(c)
  BY <1>0, <1>1 DEF AfterRefresh
<1>2. CASE ~Stale(c) /\ call[c].code = "ok"
  <2> DEFINE g == IF m.user # None /\ m.user # call[c].user THEN m.gen + 1 ELSE m.gen
  <2>1. AfterRefresh(t, c) = [m EXCEPT !.gen = g, !.user = call[c].user, !.unavailable = FALSE]
    BY <1>2 DEF AfterRefresh, Refreshed, SignedIn
  <2>2. g \in Nat
    BY <1>0
  <2> HIDE DEF m, g
  <2>3. [m EXCEPT !.gen = g, !.user = call[c].user, !.unavailable = FALSE] \in Tab
    BY <1>0, <2>2 DEF Tab
  <2> QED
    BY <1>0, <1>2, <2>1, <2>3 DEF Tab, m, g
<1>3. CASE ~Stale(c) /\ call[c].code = "error"
  <2>1. AfterRefresh(t, c) = [m EXCEPT !.unavailable = TRUE]
    BY <1>3 DEF AfterRefresh
  <2> QED
    BY <1>0, <1>3, <2>1 DEF Tab
<1>4. CASE ~Stale(c) /\ call[c].code \notin {"ok", "error"}
  <2>1. AfterRefresh(t, c) = [m EXCEPT !.gen = m.gen + 1, !.user = None, !.unavailable = FALSE]
    BY <1>4 DEF AfterRefresh, Invalidated
  <2>2. [m EXCEPT !.gen = m.gen + 1, !.user = None, !.unavailable = FALSE] \in Tab
    BY <1>0 DEF Tab
  <2> QED
    BY <1>0, <1>4, <2>1, <2>2 DEF Tab
<1> QED
  BY <1>1, <1>2, <1>3, <1>4

\* The attempt ends, and those that wait for it are told.
LEMMA ApplyRefreshEffect ==
  ASSUME TypeOK, NEW c \in Calls, ApplyRefresh(c)
  PROVE  LET t == ctx[c].tab m == tab[t] n == tab'[t] IN
         /\ Typed /\ ServerIdle /\ UNCHANGED <<jar, dropped, spentBy>> /\ Ends(c)
         /\ t \in Tabs /\ call[c].kind = "renew" /\ call[c].stage = "answered" /\ ctx[c].stored
         /\ \A u \in Tabs \ {t} : tab'[u] = tab[u]
         /\ n.attempt = IF m.attempt = c THEN None ELSE m.attempt
         /\ n.shown = IF n.user = None \/ n.gen # m.gen THEN None ELSE m.shown
         /\ Stale(c) => n.user = m.user /\ n.gen = m.gen /\ n.unavailable = m.unavailable
         /\ ~Stale(c) /\ call[c].code = "ok" =>
              /\ n.user = call[c].user /\ ~n.unavailable
              /\ n.gen = IF m.user # None /\ m.user # call[c].user THEN m.gen + 1 ELSE m.gen
         /\ ~Stale(c) /\ call[c].code = "error" => n.user = m.user /\ n.gen = m.gen
         /\ ~Stale(c) /\ call[c].code \notin {"ok", "error"} =>
              n.user = None /\ ~n.unavailable /\ n.gen = m.gen + 1
         /\ \A d \in Calls \ {c} :
              /\ Kept(d)
              /\ IF ctx[d].waits = c THEN ctx'[d].waits = None /\ ctx'[d].outcome = Outcome(c)
                                     ELSE SameWait(d)
              /\ ctx'[d].old => ctx[d].old \/ (ctx[d].tab = t /\ m.user # None /\ n.user = None)
<1> DEFINE t == ctx[c].tab
           m == tab[t]
           a == AfterRefresh(t, c)
           n == [a EXCEPT !.status = "open", !.attempt = Forget(@, c)]
           f == [Told(c) EXCEPT ![c] = NoCtx]
<1>0. tab \in [Tabs -> Tab] /\ ctx \in [Calls -> Ctx] /\ c # None
  BY DEF TypeOK
<1>1. /\ call[c].kind = "renew" /\ call[c].stage = "answered" /\ t \in Tabs /\ ctx[c].stored
      /\ m \in Tab /\ call[c].user \in Users \union {None} /\ ctx[c].waits = None
  <2>1. Resolved(c, "renew")
    BY DEF ApplyRefresh
  <2> QED
    BY <2>1, Resolving
<1>2. /\ a \in Tab /\ a.attempt = m.attempt /\ a.shown = m.shown
      /\ Stale(c) => a = m
      /\ ~Stale(c) /\ call[c].code = "ok" =>
           /\ a.user = call[c].user /\ ~a.unavailable
           /\ a.gen = IF m.user # None /\ m.user # call[c].user THEN m.gen + 1 ELSE m.gen
      /\ ~Stale(c) /\ call[c].code = "error" => a.user = m.user /\ a.gen = m.gen
      /\ ~Stale(c) /\ call[c].code \notin {"ok", "error"} =>
           a.user = None /\ ~a.unavailable /\ a.gen = m.gen + 1
  BY <1>1, RefreshedTab
<1>3. Becomes(t, n) /\ ctx' = Aged(t, n, f) /\ Done(c)
  BY DEF ApplyRefresh
<1> HIDE DEF a
<1>4. /\ n \in Tab /\ n.gen = a.gen /\ n.user = a.user /\ n.unavailable = a.unavailable
      /\ n.shown = a.shown /\ n.attempt = IF a.attempt = c THEN None ELSE a.attempt
  BY <1>2 DEF Tab, Forget
<1> HIDE DEF n
<1>5. /\ tab' \in [Tabs -> Tab] /\ \A u \in Tabs \ {t} : tab'[u] = tab[u]
      /\ tab'[t].gen = n.gen /\ tab'[t].user = n.user /\ tab'[t].attempt = n.attempt
      /\ tab'[t].unavailable = n.unavailable
      /\ tab'[t].shown = IF n.user = None \/ n.gen # m.gen THEN None ELSE n.shown
  BY <1>0, <1>1, <1>3, <1>4, Becoming
<1>6. ASSUME NEW d \in Calls
      PROVE  /\ Told(c)[d] \in Ctx /\ Told(c)[d].tab = ctx[d].tab /\ Told(c)[d].gen = ctx[d].gen
             /\ Told(c)[d].cookie = ctx[d].cookie /\ Told(c)[d].stored = ctx[d].stored
             /\ Told(c)[d].old = ctx[d].old
             /\ IF ctx[d].waits = c
                  THEN Told(c)[d].waits = None /\ Told(c)[d].outcome = Outcome(c)
                  ELSE Told(c)[d].waits = ctx[d].waits /\ Told(c)[d].outcome = ctx[d].outcome
  <2>1. ctx[d] \in Ctx /\ Outcome(c) \in {"refreshed", "unavailable", "ended"}
    BY <1>0 DEF Outcome
  <2>2. Told(c)[d] = IF ctx[d].waits = c
                       THEN [ctx[d] EXCEPT !.waits = None, !.outcome = Outcome(c)] ELSE ctx[d]
    BY DEF Told
  <2> QED
    <3>1. CASE ctx[d].waits = c
      <4>1. Told(c)[d] = [ctx[d] EXCEPT !.waits = None, !.outcome = Outcome(c)]
        BY <2>2, <3>1
      <4>2. Told(c)[d] \in Ctx
        BY <2>1, <4>1 DEF Ctx
      <4>3. /\ Told(c)[d].tab = ctx[d].tab /\ Told(c)[d].gen = ctx[d].gen
            /\ Told(c)[d].cookie = ctx[d].cookie /\ Told(c)[d].stored = ctx[d].stored
            /\ Told(c)[d].old = ctx[d].old
        BY <2>1, <4>1 DEF Ctx
      <4>4. Told(c)[d].waits = None /\ Told(c)[d].outcome = Outcome(c)
        BY <2>1, <4>1 DEF Ctx
      <4> QED
        BY <3>1, <4>2, <4>3, <4>4
    <3>2. CASE ctx[d].waits # c
      BY <2>1, <2>2, <3>2
    <3> QED
      BY <3>1, <3>2
<1>7. /\ f \in [Calls -> Ctx] /\ f[c] = NoCtx /\ \A d \in Calls \ {c} : f[d] = Told(c)[d]
  <2>1. Told(c) = [d \in Calls |-> Told(c)[d]]
    BY DEF Told
  <2> QED
    BY <1>6, <2>1, FreshTypes
<1>8. /\ ctx' \in [Calls -> Ctx]
      /\ \A d \in Calls : /\ Alike(ctx'[d], f[d])
                          /\ ctx'[d].old <=> f[d].old \/ (f[d].tab = t /\ SignedIn(t) /\ n.user = None)
  <2> HIDE DEF f
  <2> QED
    BY <1>3, <1>7, Ageing
<1>9. ctx'[c] = NoCtx
  <2>1. t # None /\ NoCtx.tab = None
    BY <1>1 DEF NoCtx
  <2> QED
    BY <1>3, <1>7, <2>1 DEF Aged
<1> HIDE DEF f
<1>10. /\ call' \in [Calls -> Call] /\ ServerIdle /\ UNCHANGED <<jar, dropped, spentBy>>
       /\ call'[c] = IdleCall /\ \A d \in Calls \ {c} : call'[d] = call[d]
  <2>1. Finish(c) /\ UNCHANGED <<jar, dropped, spentBy>>
    BY <1>3 DEF Done
  <2> QED
    BY <2>1, Finishing DEF ServerIdle
<1>11. ASSUME NEW d \in Calls \ {c}
       PROVE  /\ Kept(d)
              /\ IF ctx[d].waits = c THEN ctx'[d].waits = None /\ ctx'[d].outcome = Outcome(c)
                                     ELSE SameWait(d)
              /\ ctx'[d].old => ctx[d].old \/ (ctx[d].tab = t /\ m.user # None /\ n.user = None)
  <2>1. f[d] = Told(c)[d] /\ Alike(ctx'[d], f[d])
    BY <1>7, <1>8
  <2>2. Kept(d)
    BY <1>6, <1>10, <2>1 DEF Alike, Kept
  <2>3. IF ctx[d].waits = c THEN ctx'[d].waits = None /\ ctx'[d].outcome = Outcome(c)
                            ELSE SameWait(d)
    BY <1>6, <2>1 DEF Alike, SameWait
  <2>4. ctx'[d].old => ctx[d].old \/ (ctx[d].tab = t /\ m.user # None /\ n.user = None)
    BY <1>6, <1>7, <1>8 DEF SignedIn
  <2> QED
    BY <2>2, <2>3, <2>4
<1>12. Typed /\ Ends(c)
  BY <1>5, <1>8, <1>9, <1>10 DEF Typed, Ends
<1>13. tab'[t].gen = a.gen /\ tab'[t].user = a.user /\ tab'[t].unavailable = a.unavailable
       /\ tab'[t].attempt = (IF m.attempt = c THEN None ELSE m.attempt)
       /\ tab'[t].shown = IF tab'[t].user = None \/ tab'[t].gen # m.gen THEN None ELSE m.shown
  BY <1>2, <1>4, <1>5
<1> QED
  BY <1>1, <1>2, <1>4, <1>5, <1>10, <1>11, <1>12, <1>13

\* The answers to the other calls.
Answered(c, kind) ==
  /\ call[c].kind = kind /\ call[c].stage = "answered" /\ ctx[c].tab \in Tabs /\ ctx[c].stored
  /\ Ends(c) /\ \A u \in Tabs \ {ctx[c].tab} : tab'[u] = tab[u]
  /\ \A d \in Calls \ {c} : Kept(d) /\ SameWait(d) /\ SameOld(d)
  /\ LET m == tab[ctx[c].tab] n == tab'[ctx[c].tab] IN
     n.gen = m.gen /\ n.attempt = m.attempt /\ n.unavailable = m.unavailable

LEMMA ApplyLoginEffect ==
  ASSUME TypeOK, NEW c \in Calls, ApplyLogin(c)
  PROVE  LET m == tab[ctx[c].tab] n == tab'[ctx[c].tab] IN
         /\ Typed /\ ServerIdle /\ UNCHANGED <<jar, dropped, spentBy>> /\ Answered(c, "login")
         /\ n.user = IF call[c].code = "ok" /\ ~Stale(c) THEN call[c].user ELSE m.user
         /\ n.shown = IF n.user = None THEN None ELSE m.shown
<1> DEFINE t == ctx[c].tab
           m == tab[t]
           n == IF call[c].code = "ok" /\ ~Stale(c) THEN [m EXCEPT !.user = call[c].user] ELSE m
<1>1. /\ call[c].kind = "login" /\ call[c].stage = "answered" /\ t \in Tabs /\ ctx[c].stored
      /\ m \in Tab /\ call[c].user \in Users \union {None} /\ tab \in [Tabs -> Tab]
  <2>1. Resolved(c, "login")
    BY DEF ApplyLogin
  <2> QED
    BY <2>1, Resolving DEF TypeOK
<1>2. /\ n \in Tab /\ n.gen = m.gen /\ n.attempt = m.attempt /\ n.unavailable = m.unavailable
      /\ n.user = (IF call[c].code = "ok" /\ ~Stale(c) THEN call[c].user ELSE m.user)
      /\ n.shown = m.shown
  BY <1>1 DEF Tab
<1>3. Becomes(t, n) /\ ctx' = [ctx EXCEPT ![c] = NoCtx] /\ Done(c)
  BY DEF ApplyLogin
<1> HIDE DEF n
<1>4. /\ tab' \in [Tabs -> Tab] /\ \A u \in Tabs \ {t} : tab'[u] = tab[u]
      /\ tab'[t].gen = n.gen /\ tab'[t].user = n.user /\ tab'[t].attempt = n.attempt
      /\ tab'[t].unavailable = n.unavailable
      /\ tab'[t].shown = IF n.user = None \/ n.gen # m.gen THEN None ELSE n.shown
  BY <1>1, <1>2, <1>3, Becoming
<1>5. /\ call' \in [Calls -> Call] /\ ctx' \in [Calls -> Ctx]
      /\ ServerIdle /\ UNCHANGED <<jar, dropped, spentBy>> /\ Ends(c)
      /\ \A d \in Calls \ {c} : Kept(d) /\ SameWait(d) /\ SameOld(d)
  BY <1>3, EndEffect
<1> QED
  BY <1>1, <1>2, <1>4, <1>5 DEF Typed, Answered

LEMMA ApplyLogoutEffect ==
  ASSUME TypeOK, NEW c \in Calls, ApplyLogout(c)
  PROVE  LET m == tab[ctx[c].tab] n == tab'[ctx[c].tab] IN
         /\ Typed /\ ServerIdle /\ UNCHANGED <<jar, dropped, spentBy>> /\ Answered(c, "logout")
         /\ n.user = m.user /\ n.shown = IF n.user = None THEN None ELSE m.shown
<1> DEFINE t == ctx[c].tab
           m == tab[t]
           n == [m EXCEPT !.loggingOut = FALSE]
<1>1. /\ call[c].kind = "logout" /\ call[c].stage = "answered" /\ t \in Tabs /\ ctx[c].stored
      /\ m \in Tab /\ tab \in [Tabs -> Tab]
  <2>1. Resolved(c, "logout")
    BY DEF ApplyLogout
  <2> QED
    BY <2>1, Resolving DEF TypeOK
<1>2. /\ n \in Tab /\ n.gen = m.gen /\ n.attempt = m.attempt /\ n.unavailable = m.unavailable
      /\ n.user = m.user /\ n.shown = m.shown
  BY <1>1 DEF Tab
<1>3. Becomes(t, n) /\ ctx' = [ctx EXCEPT ![c] = NoCtx] /\ Done(c)
  BY DEF ApplyLogout
<1> HIDE DEF n
<1>4. /\ tab' \in [Tabs -> Tab] /\ \A u \in Tabs \ {t} : tab'[u] = tab[u]
      /\ tab'[t].gen = n.gen /\ tab'[t].user = n.user /\ tab'[t].attempt = n.attempt
      /\ tab'[t].unavailable = n.unavailable
      /\ tab'[t].shown = IF n.user = None \/ n.gen # m.gen THEN None ELSE n.shown
  BY <1>1, <1>2, <1>3, Becoming
<1>5. /\ call' \in [Calls -> Call] /\ ctx' \in [Calls -> Ctx]
      /\ ServerIdle /\ UNCHANGED <<jar, dropped, spentBy>> /\ Ends(c)
      /\ \A d \in Calls \ {c} : Kept(d) /\ SameWait(d) /\ SameOld(d)
  BY <1>3, EndEffect
<1> QED
  BY <1>1, <1>2, <1>4, <1>5 DEF Typed, Answered

LEMMA ApplyDataEffect ==
  ASSUME TypeOK, NEW c \in Calls, ApplyData(c)
  PROVE  LET m == tab[ctx[c].tab] n == tab'[ctx[c].tab] IN
         /\ Typed /\ ServerIdle /\ UNCHANGED <<jar, dropped, spentBy>> /\ Answered(c, "data")
         /\ n.user = m.user
         /\ n.shown = IF n.user = None THEN None
                      ELSE IF call[c].code = "ok" /\ ~Stale(c) THEN call[c].user ELSE m.shown
<1> DEFINE t == ctx[c].tab
           m == tab[t]
           n == IF call[c].code = "ok" /\ ~Stale(c) THEN [m EXCEPT !.shown = call[c].user] ELSE m
<1>1. /\ call[c].kind = "data" /\ call[c].stage = "answered" /\ t \in Tabs /\ ctx[c].stored
      /\ m \in Tab /\ call[c].user \in Users \union {None} /\ tab \in [Tabs -> Tab]
  <2>1. Resolved(c, "data")
    BY DEF ApplyData
  <2> QED
    BY <2>1, Resolving DEF TypeOK
<1>2. /\ n \in Tab /\ n.gen = m.gen /\ n.attempt = m.attempt /\ n.unavailable = m.unavailable
      /\ n.user = m.user
      /\ n.shown = (IF call[c].code = "ok" /\ ~Stale(c) THEN call[c].user ELSE m.shown)
  BY <1>1 DEF Tab
<1>3. Becomes(t, n) /\ ctx' = [ctx EXCEPT ![c] = NoCtx] /\ Done(c)
  BY DEF ApplyData
<1> HIDE DEF n
<1>4. /\ tab' \in [Tabs -> Tab] /\ \A u \in Tabs \ {t} : tab'[u] = tab[u]
      /\ tab'[t].gen = n.gen /\ tab'[t].user = n.user /\ tab'[t].attempt = n.attempt
      /\ tab'[t].unavailable = n.unavailable
      /\ tab'[t].shown = IF n.user = None \/ n.gen # m.gen THEN None ELSE n.shown
  BY <1>1, <1>2, <1>3, Becoming
<1>5. /\ call' \in [Calls -> Call] /\ ctx' \in [Calls -> Ctx]
      /\ ServerIdle /\ UNCHANGED <<jar, dropped, spentBy>> /\ Ends(c)
      /\ \A d \in Calls \ {c} : Kept(d) /\ SameWait(d) /\ SameOld(d)
  BY <1>3, EndEffect
<1> QED
  BY <1>1, <1>2, <1>4, <1>5 DEF Typed, Answered

\* A request that waited is sent again or given up.
LEMMA ResumeEffect ==
  ASSUME TypeOK, NEW c \in Calls, Resume(c)
  PROVE  LET t == ctx[c].tab IN
         /\ Typed /\ ServerIdle /\ UNCHANGED <<jar, dropped, spentBy, tab>>
         /\ t \in Tabs /\ ctx[c].outcome # "none"
         /\ \A d \in Calls \ {c} : Kept(d) /\ SameWait(d) /\ SameOld(d)
         /\ \/ Ends(c)
            \/ Starts(c, "data", t) /\ ~Stale(c) /\ call'[c].user = tab[t].user
<1> DEFINE t == ctx[c].tab
           s == [SentBy(t, ctx[c].gen) EXCEPT !.retry = TRUE]
<1>0. /\ tab \in [Tabs -> Tab] /\ ctx \in [Calls -> Ctx] /\ jar \in Tokens \union {NoCookie}
      /\ ctx[c].gen \in Nat /\ t \in Tabs /\ ctx[c].outcome # "none"
      /\ tab[t].user \in Users \union {None} /\ tab' = tab
  BY DEF TypeOK, SessionsTypeOK, Resume, Ctx, Tab
<1>1. CASE Done(c) /\ ctx' = [ctx EXCEPT ![c] = NoCtx]
  <2>1. /\ call' \in [Calls -> Call] /\ ctx' \in [Calls -> Ctx]
        /\ ServerIdle /\ UNCHANGED <<jar, dropped, spentBy>> /\ Ends(c)
        /\ \A d \in Calls \ {c} : Kept(d) /\ SameWait(d) /\ SameOld(d)
    BY <1>1, EndEffect
  <2> QED
    BY <1>0, <2>1 DEF Typed
<1>2. CASE /\ ~Stale(c) /\ Send(c, "data", tab[t].user) /\ ctx' = [ctx EXCEPT ![c] = s]
           /\ UNCHANGED <<jar, dropped, spentBy>>
  <2>1. /\ SentBy(t, ctx[c].gen) \in Ctx /\ SentBy(t, ctx[c].gen).tab = t
        /\ SentBy(t, ctx[c].gen).gen = ctx[c].gen /\ SentBy(t, ctx[c].gen).cookie = jar
        /\ ~SentBy(t, ctx[c].gen).stored /\ SentBy(t, ctx[c].gen).waits = None
        /\ SentBy(t, ctx[c].gen).outcome = "none"
    BY <1>0, SentByType
  <2>2. /\ s \in Ctx /\ s.tab = t /\ s.gen = ctx[c].gen /\ s.cookie = jar /\ ~s.stored
        /\ s.waits = None /\ s.outcome = "none"
    BY <2>1 DEF Ctx
  <2> HIDE DEF s
  <2>3. ctx' \in [Calls -> Ctx] /\ ctx'[c] = s /\ \A d \in Calls \ {c} : ctx'[d] = ctx[d]
    BY <1>0, <1>2, <2>2
  <2>4. /\ call' \in [Calls -> Call] /\ ServerIdle
        /\ \A d \in Calls \ {c} : call'[d] = call[d]
        /\ call'[c].kind = "data" /\ call'[c].stage = "sent" /\ call'[c].code = None
        /\ call'[c].user = tab[t].user /\ call'[c].setCookie = Keep /\ call'[c].cookie = NoCookie
    BY <1>0, <1>2, Sending DEF ServerIdle
  <2>5. ctx[c].gen = tab'[t].gen
    BY <1>0, <1>2 DEF Stale
  <2>6. Starts(c, "data", t) /\ \A d \in Calls \ {c} : Kept(d) /\ SameWait(d) /\ SameOld(d)
    BY <2>2, <2>3, <2>4, <2>5 DEF Starts, Kept, SameWait, SameOld
  <2> QED
    BY <1>0, <1>2, <2>3, <2>4, <2>6 DEF Typed
<1> QED
  BY <1>1, <1>2 DEF Resume

\* The browser sees the headers of a response.
LEMMA StoreCookieEffect ==
  ASSUME TypeOK, NEW c \in Calls, StoreCookie(c)
  PROVE  /\ Typed /\ ServerIdle /\ UNCHANGED <<call, tab, dropped, spentBy>>
         /\ call[c].stage = "answered" /\ ctx[c].tab # None /\ ~ctx[c].stored
         /\ jar' = CASE call[c].setCookie = Keep -> jar
                     [] call[c].setCookie # Keep /\ Expired(call[c].setCookie) -> NoCookie
                     [] OTHER -> call[c].setCookie
         /\ ctx'[c].tab = ctx[c].tab /\ ctx'[c].gen = ctx[c].gen /\ ctx'[c].cookie = ctx[c].cookie
         /\ ctx'[c].stored /\ SameWait(c) /\ SameOld(c)
         /\ \A d \in Calls \ {c} : Kept(d) /\ SameWait(d) /\ SameOld(d)
<1>1. /\ ctx' = [ctx EXCEPT ![c].stored = TRUE] /\ ctx \in [Calls -> Ctx]
      /\ UNCHANGED <<sessionVars, tab, dropped, spentBy>>
  BY DEF StoreCookie, TypeOK
<1>2. /\ ctx' \in [Calls -> Ctx] /\ \A d \in Calls \ {c} : ctx'[d] = ctx[d]
      /\ ctx'[c].tab = ctx[c].tab /\ ctx'[c].gen = ctx[c].gen /\ ctx'[c].cookie = ctx[c].cookie
      /\ ctx'[c].stored /\ SameWait(c) /\ SameOld(c)
  <2>1. ctx[c] \in Ctx /\ [ctx[c] EXCEPT !.stored = TRUE] \in Ctx
    BY <1>1 DEF Ctx
  <2>2. /\ ctx' \in [Calls -> Ctx] /\ ctx'[c] = [ctx[c] EXCEPT !.stored = TRUE]
        /\ \A d \in Calls \ {c} : ctx'[d] = ctx[d]
    BY <1>1, <2>1
  <2>3. /\ ctx'[c].tab = ctx[c].tab /\ ctx'[c].gen = ctx[c].gen /\ ctx'[c].cookie = ctx[c].cookie
        /\ ctx'[c].stored
    BY <2>1, <2>2 DEF Ctx
  <2>4. SameWait(c) /\ SameOld(c)
    BY <2>1, <2>2 DEF Ctx, SameWait, SameOld
  <2> QED
    BY <2>2, <2>3, <2>4
<1>3. Typed /\ ServerIdle /\ call' = call
  BY <1>1, <1>2 DEF Typed, ServerIdle, sessionVars, TypeOK, SessionsTypeOK
<1>4. \A d \in Calls \ {c} : Kept(d) /\ SameWait(d) /\ SameOld(d)
  BY <1>2, <1>3 DEF Kept, SameWait, SameOld
<1> QED
  BY <1>1, <1>2, <1>3, <1>4 DEF StoreCookie

LEMMA DiscardEffect ==
  ASSUME TypeOK, NEW c \in Calls, Discard(c)
  PROVE  /\ Typed /\ ServerIdle /\ UNCHANGED <<jar, tab, spentBy>> /\ Ends(c)
         /\ ctx[c].tab = None /\ call[c].stage = "answered"
         /\ \A d \in Calls \ {c} : Kept(d) /\ SameWait(d) /\ SameOld(d)
         /\ IF ctx[c].stored THEN dropped' = dropped ELSE DropCookie(c)
<1>1. Finish(c) /\ ctx \in [Calls -> Ctx] /\ tab \in [Tabs -> Tab]
  BY DEF Discard, TypeOK
<1>2. /\ call' \in [Calls -> Call] /\ call'[c] = IdleCall /\ ServerIdle
      /\ \A d \in Calls \ {c} : call'[d] = call[d]
  BY <1>1, Finishing DEF ServerIdle
<1>3. /\ ctx' \in [Calls -> Ctx] /\ ctx'[c] = NoCtx
      /\ \A d \in Calls \ {c} : ctx'[d] = ctx[d]
  BY <1>1, FreshTypes DEF Discard
<1> QED
  BY <1>1, <1>2, <1>3 DEF Discard, Finish, Typed, Ends, Kept, SameWait, SameOld

-----------------------------------------------------------------------------
(* What a step of the server does to a call.                               *)

\* It issues nothing and rewrites no token: the call goes on or is answered.
Quiet(c) ==
  /\ UNCHANGED <<count, sessionOf>>
  /\ \A s \in Tokens : /\ rows'[s].token = rows[s].token /\ rows'[s].user = rows[s].user
                       /\ rows[s].blocked => rows'[s].blocked
  /\ \A d \in Calls \ {c} : call'[d] = call[d]
  /\ call[c].stage # "idle" /\ call'[c].kind = call[c].kind /\ call'[c].user = call[c].user
  /\ \/ /\ call[c].stage \in {"sent", "verified"} /\ call'[c].stage \in {"verified", "locked"}
        /\ call'[c].cookie = call[c].cookie /\ call'[c].code = call[c].code
        /\ call'[c].setCookie = call[c].setCookie
     \/ /\ call'[c].stage = "answered" /\ call'[c].cookie = NoCookie
        /\ call'[c].setCookie \in {NoCookie, Keep}
        /\ call'[c].code = "ok" => call[c].kind \notin {"login", "renew"}
        /\ call'[c].code = "denied" /\ call[c].kind = "renew" =>
             call[c].cookie # NoCookie /\ call[c].stage # "answered"

\* It issues the next token, for a new session or in place of the token that
\* the call presents.
Issues(c) ==
  LET s == sessionOf'[count + 1] IN
  /\ count' = count + 1 /\ count + 1 \in Tokens
  /\ \A d \in Calls \ {c} : call'[d] = call[d]
  /\ call[c].stage \in {"sent", "locked"} /\ call[c].kind \in {"login", "renew"}
  /\ call'[c].kind = call[c].kind /\ call'[c].stage = "answered"
  /\ call'[c].cookie = NoCookie /\ call'[c].code = "ok" /\ call'[c].setCookie = count + 1
  /\ call'[c].user \in Verified
  /\ \A n \in Tokens \ {count + 1} : sessionOf'[n] = sessionOf[n]
  /\ s \in Tokens /\ rows'[s].token = count + 1 /\ rows'[s].user \in Verified
  /\ \A u \in Tokens \ {s} : rows'[u] = rows[u]
  /\ \/ call[c].kind = "login" /\ s = count + 1
     \/ /\ call[c].kind = "renew" /\ call[c].cookie \in 1 .. count
        /\ s = sessionOf[call[c].cookie] /\ s \in 1 .. count /\ rows[s].token = call[c].cookie

LEMMA RespondingTo ==
  ASSUME SessionsTypeOK, NEW c \in Calls, NEW user, NEW code, NEW setCookie,
         RespondTo(c, user, code, setCookie)
  PROVE  /\ \A d \in Calls \ {c} : call'[d] = call[d]
         /\ call'[c].kind = call[c].kind /\ call'[c].user = user /\ call'[c].stage = "answered"
         /\ call'[c].cookie = NoCookie /\ call'[c].code = code /\ call'[c].setCookie = setCookie
BY DEF SessionsTypeOK, RespondTo, IdleCall

LEMMA Renewing ==
  ASSUME SessionsTypeOK, NEW c \in Calls,
         \/ Advance(c, "locked")
         \/ call' = [call EXCEPT ![c] = [@ EXCEPT !.stage = "verified", !.asOf = expired]]
  PROVE  /\ \A d \in Calls \ {c} : call'[d] = call[d]
         /\ call'[c].kind = call[c].kind /\ call'[c].user = call[c].user
         /\ call'[c].stage \in {"verified", "locked"} /\ call'[c].cookie = call[c].cookie
         /\ call'[c].code = call[c].code /\ call'[c].setCookie = call[c].setCookie
<1>1. call \in [Calls -> Call] /\ call[c] \in Call
  BY DEF SessionsTypeOK
<1>2. CASE Advance(c, "locked")
  <2>1. call' = [call EXCEPT ![c] = [call[c] EXCEPT !.stage = "locked"]]
    BY <1>2 DEF Advance
  <2>2. call'[c] = [call[c] EXCEPT !.stage = "locked"] /\ \A d \in Calls \ {c} : call'[d] = call[d]
    BY <1>1, <2>1
  <2> QED
    BY <1>1, <2>2 DEF Call
<1>3. CASE call' = [call EXCEPT ![c] = [@ EXCEPT !.stage = "verified", !.asOf = expired]]
  <2>1. /\ call'[c] = [call[c] EXCEPT !.stage = "verified", !.asOf = expired]
        /\ \A d \in Calls \ {c} : call'[d] = call[d]
    BY <1>1, <1>3
  <2> QED
    BY <1>1, <2>1 DEF Call
<1> QED
  BY <1>2, <1>3

LEMMA QuietSteps ==
  ASSUME SessionsInv, NEW c \in Calls,
         Fail(c) \/ Lose(c) \/ (Serve(c) /\ ~Login(c) /\ ~Rotate(c))
  PROVE  Quiet(c)
<1>0. SessionsTypeOK /\ HoldersInv /\ call[c] \in Call /\ rows \in [Tokens -> Row]
  BY DEF SessionsInv, SessionsTypeOK
<1>1. ASSUME UNCHANGED <<count, sessionOf>>,
             \A s \in Tokens : /\ rows'[s].token = rows[s].token /\ rows'[s].user = rows[s].user
                               /\ rows[s].blocked => rows'[s].blocked,
             call[c].stage # "idle",
             NEW code, NEW setCookie \in {NoCookie, Keep}, Respond(c, code, setCookie),
             code = "ok" => call[c].kind \notin {"login", "renew"},
             code = "denied" /\ call[c].kind = "renew" =>
               call[c].cookie # NoCookie /\ call[c].stage # "answered"
      PROVE  Quiet(c)
  <2>1. RespondTo(c, call[c].user, code, setCookie)
    BY <1>1 DEF Respond
  <2>2. /\ \A d \in Calls \ {c} : call'[d] = call[d]
        /\ call'[c].kind = call[c].kind /\ call'[c].user = call[c].user
        /\ call'[c].stage = "answered" /\ call'[c].cookie = NoCookie /\ call'[c].code = code
        /\ call'[c].setCookie = setCookie
    BY <1>0, <2>1, RespondingTo
  <2> QED
    BY <1>1, <2>2 DEF Quiet
<1>2. ASSUME UNCHANGED <<count, sessionOf, rows>>, call[c].stage \in {"sent", "verified"},
             \/ Advance(c, "locked")
             \/ call' = [call EXCEPT ![c] = [@ EXCEPT !.stage = "verified", !.asOf = expired]]
      PROVE  Quiet(c)
  BY <1>0, <1>2, Renewing DEF Quiet
<1>3. CASE Fail(c)
  BY <1>1, <1>3 DEF Fail, IssueNothing
<1>4. CASE Lose(c)
  BY <1>1, <1>4 DEF Lose
<1>5. CASE RefuseLogin(c)
  BY <1>1, <1>5 DEF RefuseLogin, IssueNothing
<1>6. CASE VerifyRenewal(c)
  BY <1>1, <1>2, <1>6 DEF VerifyRenewal, IssueNothing
<1>7. CASE LockSession(c)
  <2>1. call[c].cookie # NoCookie
    BY <1>0, <1>7 DEF LockSession, HoldersInv
  <2> QED
    BY <1>1, <1>2, <1>7, <2>1 DEF LockSession, IssueNothing
<1>8. CASE LogoutNothing(c)
  BY <1>1, <1>8 DEF LogoutNothing, IssueNothing
<1>9. CASE BlockSession(c)
  <2>1. rows' = [rows EXCEPT ![SessionIn(c)].blocked = TRUE]
    BY <1>9 DEF BlockSession
  <2>2. \A s \in Tokens : /\ rows'[s].token = rows[s].token /\ rows'[s].user = rows[s].user
                          /\ rows[s].blocked => rows'[s].blocked
    BY <1>0, <2>1 DEF Row
  <2> QED
    BY <1>1, <1>9, <2>2 DEF BlockSession, IssueNothing
<1>10. CASE Access(c)
  BY <1>1, <1>10 DEF Access, IssueNothing
<1> QED
  BY <1>3, <1>4, <1>5, <1>6, <1>7, <1>8, <1>9, <1>10 DEF Serve

LEMMA IssuingSteps ==
  ASSUME SessionsInv, UsersInv, NEW c \in Calls, Login(c) \/ Rotate(c)
  PROVE  Issues(c)
<1> DEFINE k == count + 1
<1>0. SessionsTypeOK /\ ChainInv /\ HoldersInv /\ rows \in [Tokens -> Row]
  BY DEF SessionsInv, SessionsTypeOK
<1>1. CASE Login(c)
  <2>1. k \in Tokens /\ Issue(k, NoCookie) /\ RespondTo(c, call[c].user, "ok", k)
    BY <1>0, <1>1 DEF Login, Issue, SessionsTypeOK, Respond
  <2>2. /\ count' = k /\ sessionOf'[k] = k
        /\ \A n \in Tokens \ {k} : sessionOf'[n] = sessionOf[n]
    BY <2>1, Issuing
  <2>3. /\ \A d \in Calls \ {c} : call'[d] = call[d]
        /\ call'[c].kind = call[c].kind /\ call'[c].user = call[c].user
        /\ call'[c].stage = "answered" /\ call'[c].cookie = NoCookie /\ call'[c].code = "ok"
        /\ call'[c].setCookie = k
    BY <1>0, <2>1, RespondingTo
  <2>4. /\ rows'[k].token = k /\ rows'[k].user = call[c].user
        /\ \A u \in Tokens \ {k} : rows'[u] = rows[u]
    BY <1>0, <1>1, <2>1 DEF Login
  <2> QED
    BY <1>1, <2>1, <2>2, <2>3, <2>4 DEF Login, Issues
<1>2. CASE Rotate(c)
  <2> DEFINE s == SessionIn(c)
  <2>1. call[c].kind = "renew" /\ call[c].stage = "locked"
    BY <1>2 DEF Rotate
  <2>2. /\ call[c].cookie \in 1 .. count /\ s \in Tokens /\ s \in 1 .. count
        /\ rows[s].token = call[c].cookie
    <3>1. call[c].cookie # NoCookie /\ rows[s].token = call[c].cookie
      BY <1>0, <2>1 DEF HoldersInv
    <3> QED
      BY <1>0, <3>1, SessionOfCall
  <2>3. /\ k \in Tokens /\ Issue(s, call[c].cookie) /\ RespondTo(c, rows[s].user, "ok", k)
        /\ rows' = [rows EXCEPT ![s].token = k]
    BY <1>0, <1>2 DEF Rotate, Issue, SessionsTypeOK
  <2>4. rows[s].user \in Verified
    BY <2>2 DEF UsersInv
  <2>5. /\ \A d \in Calls \ {c} : call'[d] = call[d]
        /\ call'[c].kind = call[c].kind /\ call'[c].user = rows[s].user
        /\ call'[c].stage = "answered" /\ call'[c].cookie = NoCookie /\ call'[c].code = "ok"
        /\ call'[c].setCookie = k
    BY <1>0, <2>3, RespondingTo
  <2>6. /\ count' = k /\ sessionOf'[k] = s
        /\ \A n \in Tokens \ {k} : sessionOf'[n] = sessionOf[n]
    <3>1. call[c].cookie \in Tokens \union {NoCookie}
      BY <1>0 DEF SessionsTypeOK, Call
    <3> QED
      BY <2>2, <2>3, <3>1, Issuing
  <2> HIDE DEF s
  <2>7. /\ rows'[s].token = k /\ rows'[s].user = rows[s].user
        /\ \A u \in Tokens \ {s} : rows'[u] = rows[u]
    BY <1>0, <2>2, <2>3 DEF Row
  <2>8. s = sessionOf[call[c].cookie]
    BY DEF s, SessionIn
  <2> QED
    BY <2>1, <2>2, <2>3, <2>4, <2>5, <2>6, <2>7, <2>8 DEF Issues
<1> QED
  BY <1>1, <1>2

-----------------------------------------------------------------------------
(* Every step is one that Sessions allows.                                 *)

LEMMA ArrivalSteps ==
  ASSUME TypeOK, UsersInv, NEW c \in Calls, NEW kind \in Kinds, NEW user, Send(c, kind, user),
         \/ kind = "login" /\ user \in Users
         \/ kind = "data" /\ user \in Verified
         \/ kind \in {"renew", "logout"} /\ user = None
  PROVE  SessionsNext
<1>1. jar \in 0 .. count
  BY DEF TypeOK
<1> QED
  BY <1>1 DEF Send, SessionsNext

\* An answer that is not late comes while its user is signed in.
LEMMA WaiterSignedIn ==
  ASSUME TypeOK, IdentityInv, NEW c \in Calls, ctx[c].tab # None, ~Stale(c),
         call[c].kind = "data"
  PROVE  tab[ctx[c].tab].user \in Verified /\ call[c].user = tab[ctx[c].tab].user
<1>1. ctx[c].tab \in Tabs
  BY DEF TypeOK, Ctx
<1> QED
  BY <1>1 DEF IdentityInv, UsersInv, CurrentInv, Current

LEMMA SessionsStep ==
  ASSUME TypeOK, IdentityInv, [Next]_vars
  PROVE  [SessionsNext]_sessionVars
<1>0. UsersInv
  BY DEF IdentityInv
<1>1. ASSUME NEW t \in Tabs, NEW c \in Calls, NEW f, StartRefresh(t, c, f)
      PROVE  SessionsNext
  <2>1. Send(c, "renew", None)
    BY <1>1 DEF StartRefresh
  <2> QED
    BY <1>0, <2>1, ArrivalSteps
<1>2. ASSUME NEW t \in Tabs, NEW c \in Calls, Load(t, c) PROVE SessionsNext
  <2>1. Send(c, "renew", None)
    BY <1>2 DEF Load
  <2> QED
    BY <1>0, <2>1, ArrivalSteps
<1>3. ASSUME NEW t \in Tabs, NEW c \in Calls, ClickLogout(t, c) PROVE SessionsNext
  <2>1. Send(c, "logout", None)
    BY <1>3 DEF ClickLogout
  <2> QED
    BY <1>0, <2>1, ArrivalSteps
<1>4. ASSUME NEW t \in Tabs, NEW c \in Calls, LoadData(t, c) PROVE SessionsNext
  <2>1. Send(c, "data", tab[t].user) /\ tab[t].user \in Verified
    BY <1>0, <1>4 DEF LoadData, SignedIn, UsersInv
  <2> QED
    BY <1>0, <2>1, ArrivalSteps
<1>5. ASSUME NEW t \in Tabs, NEW c \in Calls, RetryRefresh(t, c) PROVE SessionsNext
  BY <1>1, <1>5 DEF RetryRefresh
<1>6. ASSUME NEW t \in Tabs, NEW c \in Calls, NEW user \in Users, SubmitLogin(t, c, user)
      PROVE  SessionsNext
  <2>1. Send(c, "login", user)
    BY <1>6 DEF SubmitLogin
  <2> QED
    BY <1>0, <2>1, ArrivalSteps
<1>7. ASSUME NEW c \in Calls, NEW d \in Calls, AwaitRefresh(c, d) PROVE [SessionsNext]_sessionVars
  <2>1. ctx[c].tab \in Tabs
    BY <1>7 DEF AwaitRefresh, Resolved, TypeOK, Ctx
  <2> QED
    BY <1>1, <1>7, <2>1 DEF AwaitRefresh
<1>8. ASSUME NEW c \in Calls, Resume(c) PROVE SessionsNext
  <2>1. CASE ~Stale(c) /\ Send(c, "data", tab[ctx[c].tab].user)
    <3>1. call[c].kind = "data" /\ ctx[c].tab # None
      BY <1>8 DEF Resume, IdentityInv, WaitInv
    <3>2. tab[ctx[c].tab].user \in Verified
      BY <2>1, <3>1, WaiterSignedIn
    <3> QED
      BY <1>0, <2>1, <3>2, ArrivalSteps
  <2> QED
    BY <1>8, <2>1 DEF Resume, Done, SessionsNext
<1>9. ASSUME NEW c \in Calls,
             \/ ServeCall(c) \/ FailCall(c) \/ LoseResponse(c) \/ LoseBody(c) \/ Discard(c)
             \/ ApplyRefresh(c) \/ ApplyLogin(c) \/ ApplyLogout(c) \/ ApplyData(c)
      PROVE  SessionsNext
  BY <1>9 DEF ServeCall, FailCall, LoseResponse, LoseBody, Discard, ApplyRefresh, ApplyLogin,
     ApplyLogout, ApplyData, Done, SessionsNext
<1>10. ASSUME NEW c \in Calls, StoreCookie(c) PROVE UNCHANGED sessionVars
  BY <1>10 DEF StoreCookie
<1>11. CASE ExpireCookie
  BY <1>11 DEF ExpireCookie, SessionsNext
<1>12. CASE UNCHANGED vars
  BY <1>12 DEF vars
<1> QED
  BY <1>2, <1>3, <1>4, <1>5, <1>6, <1>7, <1>8, <1>9, <1>10, <1>11, <1>12 DEF Next, Progress

-----------------------------------------------------------------------------
(* The remaining kinds of step.                                            *)

\* Like Kept, for the calls a step of the server may be about.
Same(d) ==
  /\ call'[d].kind = call[d].kind /\ ctx'[d].tab = ctx[d].tab /\ ctx'[d].gen = ctx[d].gen
  /\ call[d].kind = "data" => call'[d].user = call[d].user
  /\ ctx'[d].old => ctx[d].old

\* A step of the server for call c, or the loss of its answer.
LEMMA ServerEffect ==
  ASSUME SessionsInv, IdentityInv, CookieInv, NEW c \in Calls,
         ServeCall(c) \/ FailCall(c) \/ LoseResponse(c) \/ LoseBody(c)
  PROVE  /\ UNCHANGED <<jar, tab, ctx>>
         /\ \A d \in Calls : Same(d)
         /\ \/ /\ Quiet(c) /\ spentBy' = spentBy
               /\ dropped' = dropped \/ DropCookie(c)
               /\ InFlight(c) => DropCookie(c)
            \/ /\ Issues(c) /\ dropped' = dropped /\ ~ctx[c].stored
               /\ spentBy' = IF call[c].kind = "renew"
                               THEN [spentBy EXCEPT ![call[c].cookie] = ctx[c].tab] ELSE spentBy
<1>0. count \in Nat /\ UsersInv /\ (ctx[c].stored => call[c].stage = "answered")
      /\ (call[c].stage # "answered" => call[c].setCookie = Keep)
  BY DEF SessionsInv, SessionsTypeOK, IdentityInv, WaitInv, CookieInv, ResponseInv
<1>1. ASSUME Quiet(c) PROVE \A d \in Calls : call'[d].kind = call[d].kind /\ call'[d].user = call[d].user
  BY <1>1 DEF Quiet
<1>2. ASSUME Issues(c)
      PROVE  \A d \in Calls : /\ call'[d].kind = call[d].kind
                              /\ call[d].kind = "data" => call'[d].user = call[d].user
  BY <1>2 DEF Issues
<1>3. CASE LoseResponse(c)
  <2>1. Quiet(c) /\ UNCHANGED <<jar, tab, ctx, spentBy>> /\ DropCookie(c)
    BY <1>3, QuietSteps DEF LoseResponse
  <2> QED
    BY <1>1, <2>1 DEF Same
<1>4. CASE LoseBody(c)
  <2>1. Quiet(c) /\ UNCHANGED <<jar, tab, ctx, spentBy, dropped>> /\ ctx[c].stored
    BY <1>4, QuietSteps DEF LoseBody, Resolved, clientVars
  <2> QED
    BY <1>1, <2>1 DEF Same, InFlight
<1>5. CASE FailCall(c)
  <2>1. Quiet(c) /\ UNCHANGED <<jar, tab, ctx, spentBy, dropped>> /\ call[c].stage # "answered"
    BY <1>5, QuietSteps DEF FailCall, Fail, clientVars
  <2> QED
    BY <1>0, <1>1, <2>1 DEF Same, InFlight
<1>6. CASE ServeCall(c) /\ ~Login(c) /\ ~Rotate(c)
  <2>1. Quiet(c) /\ UNCHANGED <<jar, tab, ctx, dropped>> /\ call[c].stage # "answered"
    BY <1>6, QuietSteps DEF ServeCall, Serve, RefuseLogin, VerifyRenewal, LockSession,
       LogoutNothing, BlockSession, Access
  <2>2. spentBy' = spentBy
    BY <1>0, <1>6, <2>1 DEF ServeCall, Quiet
  <2> QED
    BY <1>0, <1>1, <2>1, <2>2 DEF Same, InFlight
<1>7. CASE ServeCall(c) /\ (Login(c) \/ Rotate(c))
  <2>1. Issues(c) /\ UNCHANGED <<jar, tab, ctx, dropped>>
    BY <1>0, <1>7, IssuingSteps DEF ServeCall
  <2>2. count' > count /\ ~ctx[c].stored
    BY <1>0, <2>1 DEF Issues
  <2> QED
    BY <1>2, <1>7, <2>1, <2>2 DEF Same, ServeCall
<1> QED
  BY <1>3, <1>4, <1>5, <1>6, <1>7

\* The answers to everything but a renewal.
LEMMA AnswerEffect ==
  ASSUME TypeOK, NEW c \in Calls, ApplyLogin(c) \/ ApplyLogout(c) \/ ApplyData(c)
  PROVE  LET m == tab[ctx[c].tab] n == tab'[ctx[c].tab] IN
         /\ Typed /\ ServerIdle /\ UNCHANGED <<jar, dropped, spentBy>>
         /\ Answered(c, call[c].kind) /\ call[c].kind \in {"login", "logout", "data"}
         /\ \/ n.user = m.user
            \/ call[c].kind = "login" /\ call[c].code = "ok" /\ ~Stale(c) /\ n.user = call[c].user
         /\ n.shown = IF n.user = None THEN None
                      ELSE IF call[c].kind = "data" /\ call[c].code = "ok" /\ ~Stale(c)
                             THEN call[c].user ELSE m.shown
<1>1. CASE ApplyLogin(c)
  BY <1>1, ApplyLoginEffect DEF Answered
<1>2. CASE ApplyLogout(c)
  BY <1>2, ApplyLogoutEffect DEF Answered
<1>3. CASE ApplyData(c)
  BY <1>3, ApplyDataEffect DEF Answered
<1> QED
  BY <1>1, <1>2, <1>3

\* A token expires: of the calls and the tabs nothing changes.
LEMMA ExpireEffect ==
  ASSUME TypeOK, ExpireCookie
  PROVE  /\ UNCHANGED <<count, sessionOf, rows, call, tab, ctx, dropped, spentBy>>
         /\ jar' \in {jar, NoCookie}
         /\ \A d \in Calls : Same(d) /\ Kept(d) /\ SameWait(d) /\ SameOld(d)
BY DEF ExpireCookie, Expire, IssueNothing, Same, Kept, SameWait, SameOld

-----------------------------------------------------------------------------
(* Types.                                                                  *)

\* A slot that is free has no context.
LEMMA IdleStep ==
  ASSUME TypeOK, SessionsTypeOK', [Next]_vars, NEW d \in Calls, call'[d].stage = "idle"
  PROVE  ctx'[d] = NoCtx
<1>0. /\ ctx \in [Calls -> Ctx] /\ call \in [Calls -> Call] /\ (call[d].stage = "idle" => ctx[d] = NoCtx)
      /\ NoCtx.tab = None /\ NoCtx.waits = None /\ ~NoCtx.stored /\ NoCtx.outcome = "none"
  BY DEF TypeOK, SessionsTypeOK, NoCtx
<1>1. ASSUME NEW c \in Calls, NEW kind \in Kinds, NEW user \in Users \union {None}, Send(c, kind, user)
      PROVE  d # c /\ ctx[d] = NoCtx
  <2>1. call'[c].stage = "sent" /\ \A e \in Calls \ {c} : call'[e] = call[e]
    BY <1>1, Sending
  <2> QED
    BY <1>0, <2>1
<1>2. ASSUME NEW c \in Calls, Finish(c)
      PROVE  d # c => ctx[d] = NoCtx
  <2>1. \A e \in Calls \ {c} : call'[e] = call[e]
    BY <1>2, Finishing
  <2> QED
    BY <1>0, <2>1
<1>3. ASSUME NEW t \in Tabs, NEW c \in Calls, Load(t, c) PROVE ctx'[d] = NoCtx
  <2>1. d # c /\ ctx[d] = NoCtx /\ t # None
    BY <1>1, <1>3 DEF Load
  <2> QED
    BY <1>0, <1>3, <2>1 DEF Load
<1>4. ASSUME NEW t \in Tabs, NEW c \in Calls, ClickLogout(t, c) PROVE ctx'[d] = NoCtx
  <2>1. d # c /\ ctx[d] = NoCtx /\ t # None
    BY <1>1, <1>4 DEF ClickLogout
  <2>2. [ctx EXCEPT ![c] = SentBy(t, LoggedOut(tab[t]).gen)][d] = NoCtx
    BY <1>0, <2>1
  <2> QED
    BY <1>0, <1>4, <2>1, <2>2 DEF ClickLogout, Aged
<1>5. ASSUME NEW t \in Tabs, NEW c \in Calls, LoadData(t, c) PROVE ctx'[d] = NoCtx
  <2>1. Send(c, "data", tab[t].user) /\ tab[t].user \in Users \union {None}
    BY <1>5 DEF LoadData, TypeOK, Tab
  <2>2. d # c /\ ctx[d] = NoCtx
    BY <1>1, <2>1
  <2> QED
    BY <1>0, <1>5, <2>2 DEF LoadData
<1>6. ASSUME NEW t \in Tabs, NEW c \in Calls, NEW user \in Users, SubmitLogin(t, c, user)
      PROVE  ctx'[d] = NoCtx
  <2>1. d # c /\ ctx[d] = NoCtx
    BY <1>1, <1>6 DEF SubmitLogin
  <2> QED
    BY <1>0, <1>6, <2>1 DEF SubmitLogin
<1>7. ASSUME NEW t \in Tabs, NEW c \in Calls, NEW f \in [Calls -> Ctx], StartRefresh(t, c, f),
             call[d].stage = "idle" => f[d] = NoCtx
      PROVE  ctx'[d] = NoCtx
  <2>1. d # c /\ call'[d] = call[d]
    <3>1. call'[c].stage = "sent" /\ \A e \in Calls \ {c} : call'[e] = call[e]
      BY <1>7, Sending DEF StartRefresh
    <3> QED
      BY <3>1
  <2> QED
    BY <1>7, <2>1 DEF StartRefresh
<1>8. ASSUME NEW t \in Tabs, NEW c \in Calls, RetryRefresh(t, c) PROVE ctx'[d] = NoCtx
  BY <1>0, <1>7, <1>8 DEF RetryRefresh
<1>9. ASSUME NEW c \in Calls, NEW e \in Calls, AwaitRefresh(c, e) PROVE ctx'[d] = NoCtx
  <2> DEFINE f == [ctx EXCEPT ![c].waits = e]
  <2>1. f \in [Calls -> Ctx] /\ (call[d].stage = "idle" => f[d] = NoCtx) /\ ctx[c].tab \in Tabs
    BY <1>0, <1>9 DEF AwaitRefresh, Resolved, Ctx
  <2>2. CASE ctx' = f /\ UNCHANGED sessionVars
    BY <2>1, <2>2 DEF sessionVars
  <2>3. CASE StartRefresh(ctx[c].tab, e, f)
    <3> HIDE DEF f
    <3> QED
      BY <1>7, <2>1, <2>3
  <2> QED
    BY <1>9, <2>2, <2>3 DEF AwaitRefresh
<1>10. ASSUME NEW c \in Calls, ApplyRefresh(c) PROVE ctx'[d] = NoCtx
  <2> DEFINE f == [Told(c) EXCEPT ![c] = NoCtx]
  <2>1. Finish(c) /\ ctx[c].tab # None
    BY <1>10 DEF ApplyRefresh, Done, Resolved
  <2>2. f[d] = NoCtx
    <3>1. CASE d = c
      BY <3>1 DEF Told
    <3>2. CASE d # c
      BY <1>0, <1>2, <2>1, <3>2 DEF Told
    <3> QED
      BY <3>1, <3>2
  <2>3. \E n : ctx' = Aged(ctx[c].tab, n, f)
    BY <1>10 DEF ApplyRefresh
  <2> QED
    BY <1>0, <2>1, <2>2, <2>3 DEF Aged
<1>11. ASSUME NEW c \in Calls, Finish(c), ctx' = [ctx EXCEPT ![c] = NoCtx] PROVE ctx'[d] = NoCtx
  BY <1>0, <1>2, <1>11
<1>12. ASSUME NEW c \in Calls, Resume(c) PROVE ctx'[d] = NoCtx
  <2>1. CASE Send(c, "data", tab[ctx[c].tab].user)
             /\ ctx' = [ctx EXCEPT ![c] = [SentBy(ctx[c].tab, ctx[c].gen) EXCEPT !.retry = TRUE]]
    <3>1. tab[ctx[c].tab].user \in Users \union {None}
      BY <1>12 DEF Resume, TypeOK, Ctx, Tab
    <3>2. d # c /\ ctx[d] = NoCtx
      BY <1>1, <2>1, <3>1
    <3> QED
      BY <1>0, <2>1, <3>2
  <2> QED
    BY <1>11, <1>12, <2>1 DEF Resume, Done
<1>13. ASSUME NEW c \in Calls, StoreCookie(c) PROVE ctx'[d] = NoCtx
  BY <1>0, <1>13 DEF StoreCookie, sessionVars
<1>14. ASSUME NEW c \in Calls, Discard(c) \/ ApplyLogin(c) \/ ApplyLogout(c) \/ ApplyData(c)
       PROVE  ctx'[d] = NoCtx
  BY <1>11, <1>14 DEF Discard, ApplyLogin, ApplyLogout, ApplyData, Done
<1>15. ASSUME UNCHANGED ctx, NEW c \in Calls,
              \/ Serve(c) \/ Fail(c) \/ Lose(c)
       PROVE  ctx'[d] = NoCtx
  <2>0. SessionsTypeOK
    BY DEF TypeOK
  <2>1. \/ \E user, code, setCookie : RespondTo(c, user, code, setCookie)
        \/ Advance(c, "locked")
        \/ call' = [call EXCEPT ![c] = [@ EXCEPT !.stage = "verified", !.asOf = expired]]
    BY <1>15 DEF Serve, RefuseLogin, Login, VerifyRenewal, LockSession, Rotate,
       LogoutNothing, BlockSession, Access, Fail, Lose, Respond
  <2>2. (\A e \in Calls \ {c} : call'[e] = call[e]) /\ call'[c].stage # "idle"
    BY <2>0, <2>1, RespondingTo, Renewing
  <2> QED
    BY <1>0, <1>15, <2>2
<1>16. CASE ExpireCookie \/ UNCHANGED vars
  BY <1>0, <1>16 DEF ExpireCookie, Expire, vars, clientVars, sessionVars
<1> QED
  BY <1>3, <1>4, <1>5, <1>6, <1>8, <1>9, <1>10, <1>12, <1>13, <1>14, <1>15, <1>16
  DEF Next, Progress, ServeCall, FailCall, LoseResponse, LoseBody, clientVars

\* The attempt of tab u is the call that it was, and c is another one.
LEMMA AttemptKept ==
  ASSUME TypeOK, NEW u \in Tabs, NEW c \in Calls, ctx[c].tab # u \/ call[c].kind # "renew",
         \A d \in Calls \ {c} : ctx[d].tab = u => Kept(d),
         tab'[u].attempt = tab[u].attempt, tab'[u].attempt # None
  PROVE  LET a == tab'[u].attempt IN call'[a].kind = "renew" /\ ctx'[a].tab = u
<1> DEFINE a == tab[u].attempt
<1>1. a \in Calls /\ call[a].kind = "renew" /\ ctx[a].tab = u
  BY DEF TypeOK, Tab
<1>2. Kept(a)
  BY <1>1
<1> QED
  BY <1>1, <1>2 DEF Kept

\* A call that is free belongs to no tab.
LEMMA FreeSlot ==
  ASSUME TypeOK, NEW c \in Calls, call[c].stage = "idle"
  PROVE  /\ ctx[c].tab = None /\ ctx[c].waits = None /\ ~ctx[c].stored /\ ctx[c].outcome = "none"
         /\ ctx[c].cookie = NoCookie
BY DEF TypeOK, NoCtx

\* Whom a request waits for.
LEMMA Awaited ==
  ASSUME TypeOK, IdentityInv, NEW c \in Calls, ctx[c].waits # None
  PROVE  LET d == ctx[c].waits IN
         /\ d \in Calls /\ call[d].kind = "renew" /\ call[d].stage # "idle"
         /\ ctx[d].tab = ctx[c].tab /\ ctx[d].gen = ctx[c].gen /\ ctx[d].waits = None
         /\ ctx[c].tab \in Tabs /\ ctx[c].stored /\ call[c].kind = "data" /\ ctx[c].outcome = "none"
<1> DEFINE d == ctx[c].waits
<1>1. d \in Calls /\ ctx[c].tab \in Tabs \union {None}
  BY DEF TypeOK, Ctx
<1>2. /\ call[d].kind = "renew" /\ ctx[d].tab = ctx[c].tab /\ ctx[d].gen = ctx[c].gen
      /\ ctx[c].tab # None /\ ctx[c].stored /\ call[c].kind = "data" /\ ctx[c].outcome = "none"
  BY DEF IdentityInv, WaitInv
<1>3. call[d].stage # "idle" /\ ctx[d].waits = None
  BY <1>1, <1>2, FreeSlot DEF IdentityInv, WaitInv
<1> QED
  BY <1>1, <1>2, <1>3

LEMMA TypeStep ==
  ASSUME BrowserInv, [Next]_vars
  PROVE  TypeOK' /\ SessionsInv'
<1>0. TypeOK /\ SessionsInv /\ IdentityInv /\ CookieInv
  BY DEF BrowserInv
<1>1. SessionsInv'
  BY <1>0, SessionsStep, SessionsNextInv
<1>2. SessionsTypeOK'
  BY <1>1 DEF SessionsInv
<1>3. ASSUME tab' \in [Tabs -> Tab], ctx' \in [Calls -> Ctx], jar' \in 0 .. count',
             dropped' \subseteq Tokens, spentBy' \in [Tokens -> Tabs \union {None}],
             \A u \in Tabs : tab'[u].attempt # None =>
               call'[tab'[u].attempt].kind = "renew" /\ ctx'[tab'[u].attempt].tab = u
      PROVE  TypeOK'
  <2>1. \A d \in Calls : call'[d].stage = "idle" => ctx'[d] = NoCtx
    BY <1>0, <1>2, IdleStep
  <2> QED
    BY <1>2, <1>3, <2>1 DEF TypeOK
<1> DEFINE Fits(u) == LET a == tab'[u].attempt IN
                      a # None => call'[a].kind = "renew" /\ ctx'[a].tab = u
<1>4. /\ jar \in 0 .. count /\ dropped \subseteq Tokens /\ spentBy \in [Tokens -> Tabs \union {None}]
      /\ ctx \in [Calls -> Ctx] /\ tab \in [Tabs -> Tab] /\ None \notin Tabs
  BY <1>0 DEF TypeOK
<1>5. ASSUME Typed, ServerIdle, UNCHANGED <<jar, dropped, spentBy>>, \A u \in Tabs : Fits(u)
      PROVE  TypeOK'
  BY <1>3, <1>4, <1>5 DEF Typed, ServerIdle
<1>6. ASSUME NEW t \in Tabs, NEW c \in Calls, Load(t, c) PROVE TypeOK'
  <2>1. /\ Typed /\ ServerIdle /\ UNCHANGED <<jar, dropped>>
        /\ spentBy' = [n \in Tokens |-> IF spentBy[n] = t THEN None ELSE spentBy[n]]
        /\ call[c].stage = "idle" /\ Starts(c, "renew", t)
        /\ \A u \in Tabs \ {t} : tab'[u] = tab[u]
        /\ tab'[t].attempt = c
        /\ \A d \in Calls \ {c} : IF ctx[d].tab = t THEN Abandoned(d)
                                  ELSE Kept(d) /\ SameWait(d) /\ SameOld(d)
    BY <1>0, <1>6, LoadEffect
  <2>2. Fits(t)
    BY <2>1 DEF Starts
  <2>3. ASSUME NEW u \in Tabs \ {t} PROVE Fits(u)
    <3>1. ctx[c].tab # u
      BY <1>0, <2>1, <1>4, FreeSlot
    <3>2. \A d \in Calls \ {c} : ctx[d].tab = u => Kept(d)
      BY <2>1
    <3> QED
      BY <1>0, <2>1, <3>1, <3>2, AttemptKept
  <2>4. spentBy' \in [Tokens -> Tabs \union {None}]
    BY <1>4, <2>1
  <2> QED
    BY <1>3, <1>4, <2>1, <2>2, <2>3, <2>4 DEF Typed, ServerIdle
<1>7. ASSUME NEW t \in Tabs, NEW c \in Calls,
             \/ ClickLogout(t, c) \/ LoadData(t, c)
             \/ \E user \in Users : SubmitLogin(t, c, user)
      PROVE  TypeOK'
  <2>1. /\ Typed /\ ServerIdle /\ UNCHANGED <<jar, dropped, spentBy>>
        /\ call[c].stage = "idle"
        /\ \A u \in Tabs \ {t} : tab'[u] = tab[u]
        /\ tab'[t].attempt = tab[t].attempt
        /\ \A d \in Calls \ {c} : Kept(d)
    BY <1>0, <1>7, ClickLogoutEffect, LoadDataEffect, SubmitLoginEffect
  <2>2. ctx[c].tab = None
    BY <1>0, <2>1, FreeSlot
  <2>3. ASSUME NEW u \in Tabs PROVE Fits(u)
    <3>1. tab'[u].attempt = tab[u].attempt /\ ctx[c].tab # u
      BY <1>4, <2>1, <2>2
    <3> QED
      BY <1>0, <2>1, <3>1, AttemptKept
  <2> QED
    BY <1>5, <2>1, <2>3
<1>8. ASSUME NEW t \in Tabs, NEW c \in Calls, RetryRefresh(t, c) PROVE TypeOK'
  <2>1. /\ Typed /\ ServerIdle /\ UNCHANGED <<jar, dropped, spentBy>>
        /\ call[c].stage = "idle" /\ Starts(c, "renew", t)
        /\ \A u \in Tabs \ {t} : tab'[u] = tab[u]
        /\ tab'[t].attempt = c
        /\ \A d \in Calls \ {c} : Kept(d)
    BY <1>0, <1>8, RetryRefreshEffect
  <2>2. ctx[c].tab = None
    BY <1>0, <2>1, FreeSlot
  <2>3. ASSUME NEW u \in Tabs \ {t} PROVE Fits(u)
    BY <1>0, <1>4, <2>1, <2>2, AttemptKept
  <2>4. Fits(t)
    BY <2>1 DEF Starts
  <2> QED
    BY <1>5, <2>1, <2>3, <2>4
<1>9. ASSUME NEW c \in Calls, NEW d \in Calls, AwaitRefresh(c, d) PROVE TypeOK'
  <2> DEFINE t == ctx[c].tab
  <2>1. /\ Typed /\ ServerIdle /\ UNCHANGED <<jar, dropped, spentBy>>
        /\ call[c].kind = "data" /\ Kept(c) /\ d # c
        /\ \A e \in Calls \ {c, d} : Kept(e)
        /\ \/ Kept(d) /\ UNCHANGED tab
           \/ /\ call[d].stage = "idle" /\ Starts(d, "renew", t)
              /\ \A u \in Tabs \ {t} : tab'[u] = tab[u]
              /\ tab'[t].attempt = d
    BY <1>0, <1>9, AwaitEffect
  <2>2. CASE Kept(d) /\ UNCHANGED tab
    <3>1. ASSUME NEW u \in Tabs PROVE Fits(u)
      <4>1. \A e \in Calls \ {c} : ctx[e].tab = u => Kept(e)
        BY <2>1, <2>2
      <4> QED
        BY <1>0, <2>1, <2>2, <4>1, AttemptKept
    <3> QED
      BY <1>5, <2>1, <3>1
  <2>3. CASE /\ call[d].stage = "idle" /\ Starts(d, "renew", t)
             /\ \A u \in Tabs \ {t} : tab'[u] = tab[u]
             /\ tab'[t].attempt = d
    <3>1. ctx[d].tab = None
      BY <1>0, <2>3, FreeSlot
    <3>2. ASSUME NEW u \in Tabs \ {t} PROVE Fits(u)
      <4>1. \A e \in Calls \ {d} : ctx[e].tab = u => Kept(e)
        BY <2>1
      <4> QED
        BY <1>0, <1>4, <2>3, <3>1, <4>1, AttemptKept
    <3>3. Fits(t)
      BY <2>3 DEF Starts
    <3> QED
      BY <1>5, <2>1, <3>2, <3>3
  <2> QED
    BY <2>1, <2>2, <2>3
<1>10. ASSUME NEW c \in Calls, ApplyRefresh(c) PROVE TypeOK'
  <2> DEFINE t == ctx[c].tab
  <2>1. /\ Typed /\ ServerIdle /\ UNCHANGED <<jar, dropped, spentBy>> /\ t \in Tabs
        /\ \A u \in Tabs \ {t} : tab'[u] = tab[u]
        /\ tab'[t].attempt = IF tab[t].attempt = c THEN None ELSE tab[t].attempt
        /\ \A d \in Calls \ {c} : Kept(d)
    BY <1>0, <1>10, ApplyRefreshEffect
  <2>2. ASSUME NEW u \in Tabs PROVE Fits(u)
    <3>1. ASSUME tab'[u].attempt # None
          PROVE  /\ tab'[u].attempt = tab[u].attempt /\ tab[u].attempt \in Calls
                 /\ tab[u].attempt # c
                 /\ call[tab[u].attempt].kind = "renew" /\ ctx[tab[u].attempt].tab = u
      BY <1>0, <2>1, <3>1 DEF TypeOK, Tab
    <3> QED
      BY <2>1, <3>1 DEF Kept
  <2> QED
    BY <1>5, <2>1, <2>2
<1>11. ASSUME NEW c \in Calls, ApplyLogin(c) \/ ApplyLogout(c) \/ ApplyData(c) PROVE TypeOK'
  <2> DEFINE t == ctx[c].tab
  <2>1. /\ Typed /\ ServerIdle /\ UNCHANGED <<jar, dropped, spentBy>>
        /\ Answered(c, call[c].kind) /\ call[c].kind # "renew"
    BY <1>0, <1>11, AnswerEffect
  <2>2. ASSUME NEW u \in Tabs PROVE Fits(u)
    <3>1. tab'[u].attempt = tab[u].attempt /\ \A d \in Calls \ {c} : ctx[d].tab = u => Kept(d)
      BY <2>1 DEF Answered
    <3> QED
      BY <1>0, <2>1, <3>1, AttemptKept
  <2> QED
    BY <1>5, <2>1, <2>2
<1>12. ASSUME NEW c \in Calls, Resume(c) PROVE TypeOK'
  <2>1. /\ Typed /\ ServerIdle /\ UNCHANGED <<jar, dropped, spentBy, tab>>
        /\ ctx[c].outcome # "none" /\ \A d \in Calls \ {c} : Kept(d)
    BY <1>0, <1>12, ResumeEffect
  <2>2. call[c].kind # "renew"
    BY <1>0, <2>1 DEF IdentityInv, WaitInv
  <2>3. ASSUME NEW u \in Tabs PROVE Fits(u)
    BY <1>0, <2>1, <2>2, AttemptKept
  <2> QED
    BY <1>5, <2>1, <2>3
<1>13. ASSUME NEW c \in Calls, StoreCookie(c) PROVE TypeOK'
  <2>1. /\ Typed /\ ServerIdle /\ UNCHANGED <<call, tab, dropped, spentBy>>
        /\ jar' \in {jar, NoCookie, call[c].setCookie}
        /\ jar' # Keep
        /\ \A d \in Calls : ctx'[d].tab = ctx[d].tab
    <3>1. jar # Keep
      BY <1>0, <1>4 DEF SessionsInv, SessionsTypeOK
    <3> QED
      BY <1>0, <1>13, <3>1, StoreCookieEffect DEF Kept
  <2>2. jar' \in 0 .. count'
    <3>1. call[c].setCookie \in Tokens \union {NoCookie, Keep} /\ call[c].setCookie <= count
      BY <1>0 DEF SessionsInv, SessionsTypeOK, Call, CookieInv, ResponseInv
    <3>2. count' = count /\ count \in Nat
      BY <1>0, <2>1 DEF ServerIdle, SessionsInv, SessionsTypeOK
    <3> QED
      BY <1>4, <2>1, <3>1, <3>2
  <2>3. ASSUME NEW u \in Tabs PROVE Fits(u)
    BY <1>0, <2>1 DEF TypeOK, Tab
  <2> QED
    BY <1>3, <1>4, <2>1, <2>2, <2>3 DEF Typed
<1>14. ASSUME NEW c \in Calls, Discard(c) PROVE TypeOK'
  <2>1. /\ Typed /\ ServerIdle /\ UNCHANGED <<jar, tab, spentBy>>
        /\ ctx[c].tab = None /\ \A d \in Calls \ {c} : Kept(d)
        /\ dropped' = dropped \/ DropCookie(c)
    BY <1>0, <1>14, DiscardEffect
  <2>2. ASSUME NEW u \in Tabs PROVE Fits(u)
    BY <1>0, <1>4, <2>1, AttemptKept
  <2>3. dropped' \subseteq Tokens
    BY <1>4, <2>1 DEF DropCookie
  <2> QED
    BY <1>3, <1>4, <2>1, <2>2, <2>3 DEF Typed, ServerIdle
<1>15. ASSUME NEW c \in Calls, ServeCall(c) \/ FailCall(c) \/ LoseResponse(c) \/ LoseBody(c)
       PROVE  TypeOK'
  <2>1. /\ UNCHANGED <<jar, tab, ctx>> /\ \A d \in Calls : Same(d)
        /\ \/ Quiet(c) /\ spentBy' = spentBy /\ (dropped' = dropped \/ DropCookie(c))
           \/ /\ Issues(c) /\ dropped' = dropped
              /\ spentBy' = IF call[c].kind = "renew"
                              THEN [spentBy EXCEPT ![call[c].cookie] = ctx[c].tab] ELSE spentBy
    BY <1>0, <1>15, ServerEffect
  <2>2. dropped' \subseteq Tokens
    BY <1>4, <2>1 DEF DropCookie
  <2>3. spentBy' \in [Tokens -> Tabs \union {None}]
    BY <1>4, <2>1 DEF Ctx
  <2>4. jar' \in 0 .. count'
    <3>1. count \in Nat /\ (count' = count \/ count' = count + 1)
      BY <1>0, <2>1 DEF Quiet, Issues, SessionsInv, SessionsTypeOK
    <3> QED
      BY <1>4, <2>1, <3>1
  <2>5. ASSUME NEW u \in Tabs PROVE Fits(u)
    BY <1>0, <2>1 DEF TypeOK, Tab, Same
  <2> QED
    BY <1>3, <1>4, <2>1, <2>2, <2>3, <2>4, <2>5
<1>16. CASE ExpireCookie
  <2>1. /\ UNCHANGED <<count, call, tab, ctx, dropped, spentBy>> /\ jar' \in {jar, NoCookie}
    BY <1>0, <1>16, ExpireEffect
  <2>2. jar' \in 0 .. count'
    <3>1. count \in Nat
      BY <1>0 DEF SessionsInv, SessionsTypeOK
    <3> QED
      BY <1>4, <2>1, <3>1
  <2>3. ASSUME NEW u \in Tabs PROVE Fits(u)
    BY <1>0, <2>1 DEF TypeOK
  <2>4. /\ tab' \in [Tabs -> Tab] /\ ctx' \in [Calls -> Ctx] /\ dropped' \subseteq Tokens
        /\ spentBy' \in [Tokens -> Tabs \union {None}]
    BY <1>4, <2>1
  <2> QED
    BY <1>1, <1>3, <2>2, <2>3, <2>4
<1>17. CASE UNCHANGED vars
  <2>1. UNCHANGED <<count, call, jar, tab, ctx, dropped, spentBy>>
    BY <1>17 DEF vars, clientVars, sessionVars
  <2>2. ASSUME NEW u \in Tabs PROVE Fits(u)
    BY <1>0, <2>1 DEF TypeOK
  <2>3. /\ tab' \in [Tabs -> Tab] /\ ctx' \in [Calls -> Ctx] /\ dropped' \subseteq Tokens
        /\ spentBy' \in [Tokens -> Tabs \union {None}] /\ jar' \in 0 .. count'
    BY <1>4, <2>1
  <2> QED
    BY <1>1, <1>3, <2>2, <2>3
<1> QED
  BY <1>1, <1>6, <1>7, <1>8, <1>9, <1>10, <1>11, <1>12, <1>13, <1>14, <1>15, <1>16, <1>17
  DEF Next, Progress

-----------------------------------------------------------------------------
(* Who is signed in, and whose data is shown.                              *)

\* A step of the client that starts or ends call c, or neither.
Others(c) ==
  /\ \A d \in Calls \ {c} : call'[d] = call[d]
  /\ call'[c].stage # "answered" \/ call'[c] = call[c]

\* A tab's user is unchanged or gone, and so is what it shows.
Fades(t) ==
  \/ tab'[t].user = tab[t].user /\ tab'[t].shown = tab[t].shown
  \/ tab'[t].user \in {tab[t].user, None} /\ tab'[t].shown = None

LEMMA ClientUsers ==
  ASSUME IdentityInv, NEW c \in Calls, ServerIdle, Others(c),
         \A t \in Tabs : tab'[t].user \in Verified \union {None},
         \A t \in Tabs : tab'[t].shown \in {None, tab'[t].user}
  PROVE  UsersInv' /\ ShownIsOwn'
<1>1. ASSUME NEW s \in Tokens, rows'[s].token # NoCookie PROVE rows'[s].user \in Verified
  BY <1>1 DEF IdentityInv, UsersInv, ServerIdle
<1>2. ASSUME NEW d \in Calls, call'[d].stage = "answered", call'[d].kind \in {"login", "renew"},
             call'[d].code = "ok"
      PROVE  call'[d].user \in Verified
  <2>1. call'[d] = call[d]
    BY <1>2 DEF Others
  <2> QED
    BY <1>2, <2>1 DEF IdentityInv, UsersInv
<1> QED
  BY <1>1, <1>2 DEF UsersInv, ShownIsOwn

LEMMA FadingTabs ==
  ASSUME IdentityInv, NEW c \in Calls, ServerIdle, Others(c), \A t \in Tabs : Fades(t)
  PROVE  UsersInv' /\ ShownIsOwn'
<1>1. ASSUME NEW t \in Tabs
      PROVE  tab'[t].user \in Verified \union {None} /\ tab'[t].shown \in {None, tab'[t].user}
  BY DEF IdentityInv, UsersInv, ShownIsOwn, Fades
<1> QED
  BY <1>1, ClientUsers

LEMMA UsersStep ==
  ASSUME BrowserInv, [Next]_vars
  PROVE  UsersInv' /\ ShownIsOwn'
<1>0. TypeOK /\ SessionsInv /\ IdentityInv /\ CookieInv /\ UsersInv /\ ShownIsOwn
  BY DEF BrowserInv, IdentityInv
<1>1. ASSUME NEW t \in Tabs, NEW c \in Calls,
             \/ Load(t, c) \/ ClickLogout(t, c) \/ LoadData(t, c) \/ RetryRefresh(t, c)
             \/ \E user \in Users : SubmitLogin(t, c, user)
      PROVE  UsersInv' /\ ShownIsOwn'
  <2>1. /\ ServerIdle /\ \A d \in Calls \ {c} : call'[d] = call[d]
        /\ call'[c].stage # "answered"
        /\ \A u \in Tabs \ {t} : tab'[u] = tab[u]
        /\ tab'[t].user \in {tab[t].user, None}
        /\ tab'[t].shown = None \/ (tab'[t].user = tab[t].user /\ tab'[t].shown = tab[t].shown)
    <3>1. CASE Load(t, c)
      BY <1>0, <3>1, LoadEffect DEF Starts, Kept, Abandoned
    <3>2. CASE ClickLogout(t, c)
      BY <1>0, <3>2, ClickLogoutEffect DEF Starts, Kept
    <3>3. CASE LoadData(t, c)
      BY <1>0, <3>3, LoadDataEffect DEF Starts, Kept
    <3>4. CASE RetryRefresh(t, c)
      BY <1>0, <3>4, RetryRefreshEffect DEF Starts, Kept
    <3>5. ASSUME NEW user \in Users, SubmitLogin(t, c, user)
          PROVE  /\ ServerIdle /\ \A d \in Calls \ {c} : call'[d] = call[d]
                 /\ call'[c].stage # "answered"
                 /\ \A u \in Tabs \ {t} : tab'[u] = tab[u]
                 /\ tab'[t].user = None /\ tab'[t].shown = None
      BY <1>0, <3>5, SubmitLoginEffect DEF Starts, Kept
    <3> QED
      BY <1>1, <3>1, <3>2, <3>3, <3>4, <3>5
  <2>2. \A u \in Tabs : Fades(u)
    BY <2>1 DEF Fades
  <2> QED
    BY <1>0, <2>1, <2>2, FadingTabs DEF Others
<1>2. ASSUME NEW c \in Calls, NEW d \in Calls, AwaitRefresh(c, d) PROVE UsersInv' /\ ShownIsOwn'
  <2>1. /\ ServerIdle /\ Kept(c) /\ \A e \in Calls \ {c, d} : Kept(e)
        /\ \/ Kept(d) /\ UNCHANGED tab
           \/ /\ Starts(d, "renew", ctx[c].tab)
              /\ \A u \in Tabs \ {ctx[c].tab} : tab'[u] = tab[u]
              /\ tab'[ctx[c].tab].user = tab[ctx[c].tab].user
              /\ tab'[ctx[c].tab].shown = tab[ctx[c].tab].shown
    BY <1>0, <1>2, AwaitEffect
  <2>2. Others(d)
    BY <2>1 DEF Others, Kept, Starts
  <2>3. \A u \in Tabs : Fades(u)
    BY <2>1 DEF Fades
  <2> QED
    BY <1>0, <2>1, <2>2, <2>3, FadingTabs
<1>3. ASSUME NEW c \in Calls, ApplyRefresh(c) PROVE UsersInv' /\ ShownIsOwn'
  <2> DEFINE t == ctx[c].tab
             m == tab[t]
             n == tab'[t]
  <2>1. /\ ServerIdle /\ Ends(c) /\ t \in Tabs /\ call[c].kind = "renew"
        /\ \A u \in Tabs \ {t} : tab'[u] = tab[u]
        /\ n.shown = IF n.user = None \/ n.gen # m.gen THEN None ELSE m.shown
        /\ call[c].stage = "answered"
        /\ Stale(c) => n.user = m.user /\ n.gen = m.gen
        /\ ~Stale(c) /\ call[c].code = "ok" =>
             /\ n.user = call[c].user
             /\ n.gen = IF m.user # None /\ m.user # call[c].user THEN m.gen + 1 ELSE m.gen
        /\ ~Stale(c) /\ call[c].code = "error" => n.user = m.user /\ n.gen = m.gen
        /\ ~Stale(c) /\ call[c].code \notin {"ok", "error"} => n.user = None
        /\ \A d \in Calls \ {c} : Kept(d)
    BY <1>0, <1>3, ApplyRefreshEffect
  <2>2. Others(c)
    BY <2>1 DEF Others, Kept, Ends, IdleCall
  <2>3. m.user \in Verified \union {None} /\ m.shown \in {None, m.user} /\ m.gen # m.gen + 1
    BY <1>0, <2>1 DEF UsersInv, ShownIsOwn, TypeOK, Tab
  <2>4. call[c].code = "ok" => call[c].user \in Verified
    BY <1>0, <2>1 DEF UsersInv
  <2>5. n.user \in Verified \union {None} /\ n.shown \in {None, n.user}
    BY <2>1, <2>3, <2>4
  <2>6. ASSUME NEW u \in Tabs
        PROVE  tab'[u].user \in Verified \union {None} /\ tab'[u].shown \in {None, tab'[u].user}
    BY <1>0, <2>1, <2>5 DEF UsersInv, ShownIsOwn
  <2> QED
    BY <1>0, <2>1, <2>2, <2>6, ClientUsers
<1>4. ASSUME NEW c \in Calls, ApplyLogin(c) \/ ApplyLogout(c) \/ ApplyData(c)
      PROVE  UsersInv' /\ ShownIsOwn'
  <2> DEFINE t == ctx[c].tab
             m == tab[t]
             n == tab'[t]
  <2>1. /\ ServerIdle /\ Ends(c) /\ t \in Tabs /\ call[c].stage = "answered"
        /\ \A u \in Tabs \ {t} : tab'[u] = tab[u]
        /\ \A d \in Calls \ {c} : Kept(d)
        /\ \/ n.user = m.user
           \/ call[c].kind = "login" /\ call[c].code = "ok" /\ ~Stale(c) /\ n.user = call[c].user
        /\ n.shown = IF n.user = None THEN None
                     ELSE IF call[c].kind = "data" /\ call[c].code = "ok" /\ ~Stale(c)
                            THEN call[c].user ELSE m.shown
    BY <1>0, <1>4, AnswerEffect DEF Answered
  <2>2. Others(c)
    BY <2>1 DEF Others, Kept, Ends, IdleCall
  <2>3. m.user \in Verified \union {None} /\ m.shown \in {None, m.user}
    BY <1>0, <2>1 DEF UsersInv, ShownIsOwn
  <2>4. call[c].kind = "login" /\ call[c].code = "ok" => call[c].user \in Verified
    BY <1>0, <2>1 DEF UsersInv
  <2>5. call[c].kind = "data" /\ ~Stale(c) => call[c].user = m.user
    BY <1>0, <2>1, WaiterSignedIn
  <2>6. call[c].kind = "login" /\ ~Stale(c) => m.user = None
    BY <1>0, <2>1 DEF IdentityInv, CurrentInv, Current
  <2>7. n.user \in Verified \union {None} /\ n.shown \in {None, n.user}
    BY <2>1, <2>3, <2>4, <2>5, <2>6
  <2>8. ASSUME NEW u \in Tabs
        PROVE  tab'[u].user \in Verified \union {None} /\ tab'[u].shown \in {None, tab'[u].user}
    BY <1>0, <2>1, <2>7 DEF UsersInv, ShownIsOwn
  <2> QED
    BY <1>0, <2>1, <2>2, <2>8, ClientUsers
<1>5. ASSUME NEW c \in Calls, Resume(c) \/ StoreCookie(c) \/ Discard(c) PROVE UsersInv' /\ ShownIsOwn'
  <2>1. /\ ServerIdle /\ UNCHANGED tab /\ \A d \in Calls \ {c} : Kept(d)
        /\ call'[c].stage # "answered" \/ call'[c] = call[c]
    <3>1. CASE Resume(c)
      BY <1>0, <3>1, ResumeEffect DEF Ends, Starts, IdleCall
    <3>2. CASE StoreCookie(c)
      BY <1>0, <3>2, StoreCookieEffect
    <3>3. CASE Discard(c)
      BY <1>0, <3>3, DiscardEffect DEF Ends, IdleCall
    <3> QED
      BY <1>5, <3>1, <3>2, <3>3
  <2>2. Others(c) /\ \A u \in Tabs : Fades(u)
    BY <2>1 DEF Others, Kept, Fades
  <2> QED
    BY <1>0, <2>1, <2>2, FadingTabs
<1>6. ASSUME NEW c \in Calls, ServeCall(c) \/ FailCall(c) \/ LoseResponse(c) \/ LoseBody(c)
      PROVE  UsersInv' /\ ShownIsOwn'
  <2>1. UNCHANGED tab /\ (Quiet(c) \/ Issues(c))
    BY <1>0, <1>6, ServerEffect
  <2>2. CASE Quiet(c)
    <3>1. ASSUME NEW s \in Tokens, rows'[s].token # NoCookie PROVE rows'[s].user \in Verified
      BY <1>0, <2>2, <3>1 DEF UsersInv, Quiet
    <3>2. ASSUME NEW d \in Calls, call'[d].stage = "answered", call'[d].kind \in {"login", "renew"},
             call'[d].code = "ok"
          PROVE  call'[d].user \in Verified
      BY <1>0, <2>2, <3>2 DEF UsersInv, Quiet
    <3> QED
      BY <1>0, <2>1, <3>1, <3>2 DEF UsersInv, ShownIsOwn
  <2>3. CASE Issues(c)
    <3>1. ASSUME NEW s \in Tokens, rows'[s].token # NoCookie PROVE rows'[s].user \in Verified
      BY <1>0, <2>3, <3>1 DEF UsersInv, Issues
    <3>2. ASSUME NEW d \in Calls, call'[d].stage = "answered", call'[d].kind \in {"login", "renew"},
             call'[d].code = "ok"
          PROVE  call'[d].user \in Verified
      BY <1>0, <2>3, <3>2 DEF UsersInv, Issues
    <3> QED
      BY <1>0, <2>1, <3>1, <3>2 DEF UsersInv, ShownIsOwn
  <2> QED
    BY <2>1, <2>2, <2>3
<1>7. CASE ExpireCookie
  BY <1>0, <1>7, ExpireEffect DEF UsersInv, ShownIsOwn
<1>8. CASE UNCHANGED vars
  BY <1>0, <1>8 DEF UsersInv, ShownIsOwn, vars, clientVars, sessionVars
<1> QED
  BY <1>1, <1>2, <1>3, <1>4, <1>5, <1>6, <1>7, <1>8 DEF Next, Progress

-----------------------------------------------------------------------------
(* The calls whose answers will not come too late.                         *)

\* Nothing that matters to the calls of tab t changed: its state, and which
\* renewals and sign-ins it has.
Undisturbed(t) ==
  /\ tab'[t].gen = tab[t].gen /\ tab'[t].user = tab[t].user
  /\ tab'[t].unavailable = tab[t].unavailable
  /\ tab'[t].attempt # tab[t].attempt => ctx'[tab[t].attempt].tab # t
  /\ \A e \in Calls : ctx'[e].tab = t => Same(e) \/ call'[e].kind \notin {"login", "renew"}

LEMMA CurrentKept ==
  ASSUME TypeOK, IdentityInv, NEW d \in Calls, Same(d), Undisturbed(ctx[d].tab)
  PROVE  CurrentInv(d)'
<1> DEFINE t == ctx[d].tab
<1>1. SUFFICES ASSUME Current(d)' PROVE CurrentInv(d)'
  BY DEF CurrentInv
<1>2. ctx'[d].tab = t /\ t # None /\ Current(d) /\ ctx'[d].gen = ctx[d].gen
  BY <1>1 DEF Current, Stale, Same, Undisturbed
<1>3. call[d].kind = "data" => /\ tab[t].user # None /\ call[d].user = tab[t].user
                               /\ call'[d].user = call[d].user
  BY <1>2 DEF IdentityInv, CurrentInv, Same
<1>4. call[d].kind = "login" => tab[t].user = None /\ ~tab[t].unavailable
  BY <1>2 DEF IdentityInv, CurrentInv
<1>5. call[d].kind = "renew" => tab'[t].attempt = d
  BY <1>2 DEF IdentityInv, CurrentInv, Undisturbed
<1>6. call[d].kind \in {"login", "renew"} => ~ctx'[d].old
  BY <1>2 DEF IdentityInv, CurrentInv, Same
<1>7. ASSUME call[d].kind = "login", NEW e \in Calls, Current(e)', ctx'[e].tab = t,
             call'[e].kind \in {"login", "renew"}
      PROVE  e = d
  <2>1. Same(e)
    BY <1>7 DEF Undisturbed
  <2>2. Current(e) /\ ctx[e].tab = t /\ call[e].kind \in {"login", "renew"}
    BY <1>7, <2>1 DEF Same, Current, Stale, Undisturbed
  <2> QED
    BY <1>2, <1>7, <2>2 DEF IdentityInv, CurrentInv
<1> QED
  BY <1>2, <1>3, <1>4, <1>5, <1>6, <1>7 DEF CurrentInv, Same, Undisturbed

\* The generation of a tab only grows: an older call stays late.
LEMMA Outdated ==
  ASSUME TypeOK, IdentityInv, NEW d \in Calls, ctx'[d].tab = ctx[d].tab, ctx'[d].gen = ctx[d].gen,
         ctx[d].tab # None, tab'[ctx[d].tab].gen = tab[ctx[d].tab].gen + 1
  PROVE  ~Current(d)'
<1>1. ctx[d].gen \in Nat /\ tab[ctx[d].tab].gen \in Nat
  BY DEF TypeOK, Ctx, Tab
<1>2. ctx[d].gen <= tab[ctx[d].tab].gen
  BY DEF IdentityInv, WaitInv
<1> QED
  BY <1>1, <1>2 DEF Current, Stale

\* A tab has one renewal at a time that is not outdated, its attempt.
LEMMA OneAttempt ==
  ASSUME TypeOK, IdentityInv, NEW d \in Calls, Current(d), call[d].kind = "renew"
  PROVE  tab[ctx[d].tab].attempt = d /\ UnderWay(ctx[d].tab)
BY DEF TypeOK, IdentityInv, CurrentInv, Current, Stale, UnderWay

LEMMA KeptSame ==
  ASSUME NEW d \in Calls, Kept(d), ctx'[d].old => ctx[d].old
  PROVE  Same(d)
BY DEF Kept, Same

\* A call that ended, or whose page is gone, is not current.
LEMMA Bygone ==
  ASSUME NEW d \in Calls, Ends(d) \/ Abandoned(d)
  PROVE  CurrentInv(d)' /\ ctx'[d].tab = None
BY DEF CurrentInv, Current, Ends, Abandoned, NoCtx

\* A renewal that starts while none is under way and no sign-in is.
LEMMA CurrentStart ==
  ASSUME TypeOK, IdentityInv, NEW t \in Tabs, NEW c \in Calls, Starts(c, "renew", t), ~ctx'[c].old,
         call[c].stage = "idle",
         tab[t].user # None \/ tab[t].unavailable, ~UnderWay(t),
         tab'[t].gen = tab[t].gen, tab'[t].user = tab[t].user,
         tab'[t].unavailable = tab[t].unavailable, tab'[t].attempt = c,
         \A u \in Tabs \ {t} : tab'[u] = tab[u],
         \A d \in Calls \ {c} : Kept(d) /\ SameOld(d),
         NEW d \in Calls
  PROVE  CurrentInv(d)'
<1>0. ctx[c].tab = None /\ ctx'[c].tab = t
  BY FreeSlot DEF Starts
<1>1. CASE d = c
  BY <1>0, <1>1 DEF CurrentInv, Starts
<1>2. CASE d # c /\ ctx[d].tab = None
  BY <1>2 DEF CurrentInv, Current, Kept
<1>3. CASE d # c /\ ctx[d].tab \in Tabs \ {t}
  <2>1. Same(d) /\ \A e \in Calls : ctx'[e].tab = ctx[d].tab => Same(e)
    BY <1>0, <1>3 DEF Kept, SameOld, Same
  <2>2. Undisturbed(ctx[d].tab)
    BY <1>3, <2>1 DEF Undisturbed
  <2> QED
    BY <2>1, <2>2, CurrentKept
<1>4. CASE d # c /\ ctx[d].tab = t
  <2>1. SUFFICES ASSUME Current(d)' PROVE CurrentInv(d)'
    BY DEF CurrentInv
  <2>2. Kept(d) /\ Current(d)
    BY <1>4, <2>1 DEF Kept, Current, Stale
  <2>3. call[d].kind # "renew"
    BY <1>4, <2>2, OneAttempt
  <2>4. call[d].kind # "login"
    BY <1>4, <2>2 DEF IdentityInv, CurrentInv
  <2>5. call[d].kind = "data" => tab[t].user # None /\ call[d].user = tab[t].user
    BY <1>4, <2>2 DEF IdentityInv, CurrentInv
  <2> QED
    BY <1>4, <2>2, <2>3, <2>4, <2>5 DEF CurrentInv, Kept
<1> QED
  BY <1>1, <1>2, <1>3, <1>4 DEF TypeOK, Ctx

LEMMA CurrentStep ==
  ASSUME BrowserInv, [Next]_vars, NEW d \in Calls
  PROVE  CurrentInv(d)'
<1>0. TypeOK /\ SessionsInv /\ IdentityInv /\ CookieInv /\ None \notin Tabs
      /\ ctx[d].tab \in Tabs \union {None}
  BY DEF BrowserInv, TypeOK, Ctx
<1>1. ASSUME ctx'[d].tab = None PROVE CurrentInv(d)'
  BY <1>1 DEF CurrentInv, Current
<1>2. ASSUME NEW t \in Tabs, NEW c \in Calls, Load(t, c) PROVE CurrentInv(d)'
  <2>1. /\ call[c].stage = "idle" /\ Starts(c, "renew", t) /\ ~ctx'[c].old
        /\ \A u \in Tabs \ {t} : tab'[u] = tab[u]
        /\ tab'[t].attempt = c
        /\ \A e \in Calls \ {c} : IF ctx[e].tab = t THEN Abandoned(e)
                                  ELSE Kept(e) /\ SameWait(e) /\ SameOld(e)
    BY <1>0, <1>2, LoadEffect
  <2>2. CASE d = c
    BY <2>1, <2>2 DEF CurrentInv, Starts
  <2>3. CASE d # c /\ ctx[d].tab = t
    BY <2>1, <2>3, Bygone
  <2>4. CASE d # c /\ ctx[d].tab \in Tabs \ {t}
    <3>1. Same(d)
      BY <2>1, <2>4, KeptSame DEF SameOld
    <3>2. ASSUME NEW e \in Calls, ctx'[e].tab = ctx[d].tab PROVE Same(e)
      <4>1. e # c /\ ctx[e].tab # t
        BY <1>0, <2>1, <2>4, <3>2 DEF Starts, Abandoned
      <4> QED
        BY <2>1, <4>1, KeptSame DEF SameOld
    <3>3. Undisturbed(ctx[d].tab)
      BY <2>1, <2>4, <3>2 DEF Undisturbed
    <3> QED
      BY <1>0, <3>1, <3>3, CurrentKept
  <2>5. CASE d # c /\ ctx[d].tab = None
    BY <1>0, <1>1, <2>1, <2>5 DEF Kept
  <2> QED
    BY <1>0, <2>2, <2>3, <2>4, <2>5
<1>3. ASSUME NEW t \in Tabs, NEW c \in Calls, NEW kind \in {"login", "logout", "data"},
             call[c].stage = "idle", Starts(c, kind, t),
             kind = "login" => ~ctx'[c].old /\ tab'[t].user = None /\ ~tab'[t].unavailable,
             kind = "data" => UNCHANGED tab /\ tab[t].user # None /\ call'[c].user = tab[t].user,
             kind # "data" => tab'[t].gen = tab[t].gen + 1,
             \A u \in Tabs \ {t} : tab'[u] = tab[u],
             \A e \in Calls \ {c} : Kept(e) /\ (ctx'[e].old => ctx[e].old \/ ctx[e].tab = t),
             kind = "data" => \A e \in Calls \ {c} : SameOld(e)
      PROVE  CurrentInv(d)'
  <2>0. ctx[c].tab = None
    BY <1>0, <1>3, FreeSlot
  <2>1. ASSUME kind # "data", NEW e \in Calls \ {c}, ctx[e].tab = t PROVE ~Current(e)'
    BY <1>0, <1>3, <2>1, Outdated DEF Kept
  <2>2. CASE d = c
    <3>1. ASSUME kind = "login", NEW e \in Calls, Current(e)', ctx'[e].tab = t PROVE e = c
      BY <1>3, <2>1, <3>1 DEF Kept
    <3> QED
      BY <1>3, <2>2, <3>1 DEF CurrentInv, Starts
  <2>3. CASE d # c /\ ctx[d].tab = t /\ kind # "data"
    BY <2>1, <2>3 DEF CurrentInv
  <2>4. CASE d # c /\ ctx[d].tab \in Tabs /\ (ctx[d].tab = t => kind = "data")
    <3>1. ASSUME NEW e \in Calls \ {c}, ctx'[e].tab = ctx[d].tab PROVE Same(e)
      BY <1>3, <2>4, <3>1, KeptSame DEF Kept, SameOld
    <3>2. Same(d)
      BY <1>3, <2>4, <3>1 DEF Kept
    <3>3. ctx'[c].tab = ctx[d].tab => call'[c].kind \notin {"login", "renew"}
      BY <1>3, <2>4 DEF Starts
    <3>4. tab'[ctx[d].tab] = tab[ctx[d].tab]
      BY <1>3, <2>4
    <3>5. Undisturbed(ctx[d].tab)
      BY <3>1, <3>3, <3>4 DEF Undisturbed
    <3> QED
      BY <1>0, <3>2, <3>5, CurrentKept
  <2>5. CASE d # c /\ ctx[d].tab = None
    BY <1>1, <1>3, <2>5 DEF Kept
  <2> QED
    BY <1>0, <2>2, <2>3, <2>4, <2>5
<1>4. ASSUME NEW t \in Tabs, NEW c \in Calls, NEW user \in Users, SubmitLogin(t, c, user)
      PROVE  CurrentInv(d)'
  <2>1. /\ call[c].stage = "idle" /\ Starts(c, "login", t) /\ ~ctx'[c].old
        /\ \A u \in Tabs \ {t} : tab'[u] = tab[u]
        /\ tab'[t].gen = tab[t].gen + 1 /\ tab'[t].user = None /\ ~tab'[t].unavailable
        /\ \A e \in Calls \ {c} : Kept(e) /\ SameWait(e) /\ SameOld(e)
    BY <1>0, <1>4, SubmitLoginEffect
  <2> QED
    BY <1>3, <2>1 DEF SameOld
<1>5. ASSUME NEW t \in Tabs, NEW c \in Calls, ClickLogout(t, c) PROVE CurrentInv(d)'
  <2>1. /\ call[c].stage = "idle" /\ Starts(c, "logout", t)
        /\ \A u \in Tabs \ {t} : tab'[u] = tab[u]
        /\ tab'[t].gen = tab[t].gen + 1
        /\ \A e \in Calls \ {c} : Kept(e) /\ (ctx'[e].old => ctx[e].old \/ ctx[e].tab = t)
    BY <1>0, <1>5, ClickLogoutEffect
  <2> QED
    BY <1>3, <2>1
<1>6. ASSUME NEW t \in Tabs, NEW c \in Calls, LoadData(t, c) PROVE CurrentInv(d)'
  <2>1. /\ call[c].stage = "idle" /\ Starts(c, "data", t) /\ UNCHANGED tab
        /\ tab[t].user # None /\ call'[c].user = tab[t].user
        /\ \A e \in Calls \ {c} : Kept(e) /\ SameWait(e) /\ SameOld(e)
    BY <1>0, <1>6, LoadDataEffect
  <2> QED
    BY <1>3, <2>1 DEF SameOld
<1>7. ASSUME NEW t \in Tabs, NEW c \in Calls, RetryRefresh(t, c) PROVE CurrentInv(d)'
  <2>1. /\ ~UnderWay(t) /\ tab[t].unavailable
        /\ call[c].stage = "idle" /\ Starts(c, "renew", t) /\ ~ctx'[c].old
        /\ \A u \in Tabs \ {t} : tab'[u] = tab[u]
        /\ tab'[t].gen = tab[t].gen /\ tab'[t].user = tab[t].user
        /\ tab'[t].unavailable = tab[t].unavailable
        /\ tab'[t].attempt = c
        /\ \A e \in Calls \ {c} : Kept(e) /\ SameOld(e)
    BY <1>0, <1>7, RetryRefreshEffect
  <2> QED
    BY <1>0, <2>1, CurrentStart
<1>8. ASSUME \A e \in Calls : ctx'[e].tab # None => Same(e), UNCHANGED tab PROVE CurrentInv(d)'
  <2>1. CASE ctx'[d].tab # None
    <3>1. Same(d) /\ ctx[d].tab # None
      BY <1>8, <2>1 DEF Same
    <3>2. Undisturbed(ctx[d].tab)
      BY <1>8, <3>1 DEF Undisturbed
    <3> QED
      BY <1>0, <3>1, <3>2, CurrentKept
  <2> QED
    BY <1>1, <2>1
<1>9. ASSUME NEW c \in Calls, NEW e \in Calls, AwaitRefresh(c, e) PROVE CurrentInv(d)'
  <2> DEFINE t == ctx[c].tab
  <2>1. /\ call[c].kind = "data" /\ Current(c) /\ Kept(c) /\ SameOld(c)
        /\ \A x \in Calls \ {c, e} : Kept(x) /\ SameOld(x)
        /\ \/ /\ Kept(e) /\ SameOld(e) /\ UNCHANGED tab
           \/ /\ ~UnderWay(t) /\ call[e].stage = "idle"
              /\ Starts(e, "renew", t) /\ ~ctx'[e].old
              /\ \A u \in Tabs \ {t} : tab'[u] = tab[u]
              /\ tab'[t].gen = tab[t].gen /\ tab'[t].user = tab[t].user
              /\ tab'[t].unavailable = tab[t].unavailable /\ tab'[t].attempt = e
    BY <1>0, <1>9, AwaitEffect
  <2>2. CASE Kept(e) /\ SameOld(e) /\ UNCHANGED tab
    <3>1. \A x \in Calls : Kept(x) /\ SameOld(x)
      BY <2>1, <2>2
    <3>2. \A x \in Calls : Same(x)
      BY <3>1, KeptSame DEF SameOld
    <3> QED
      BY <1>8, <2>2, <3>2
  <2>3. CASE /\ ~UnderWay(t) /\ call[e].stage = "idle"
             /\ Starts(e, "renew", t) /\ ~ctx'[e].old
             /\ \A u \in Tabs \ {t} : tab'[u] = tab[u]
             /\ tab'[t].gen = tab[t].gen /\ tab'[t].user = tab[t].user
             /\ tab'[t].unavailable = tab[t].unavailable /\ tab'[t].attempt = e
    <3>1. t \in Tabs /\ tab[t].user # None
      BY <1>0, <2>1 DEF TypeOK, Ctx, IdentityInv, CurrentInv, Current
    <3>2. \A x \in Calls \ {e} : Kept(x) /\ SameOld(x)
      BY <2>1
    <3> HIDE DEF t
    <3> QED
      BY <1>0, <2>3, <3>1, <3>2, CurrentStart
  <2> QED
    BY <2>1, <2>2, <2>3
<1>10. ASSUME NEW c \in Calls, ApplyRefresh(c) PROVE CurrentInv(d)'
  <2> DEFINE t == ctx[c].tab
             m == tab[t]
             n == tab'[t]
  <2>1. /\ Ends(c) /\ t \in Tabs /\ call[c].kind = "renew"
        /\ \A u \in Tabs \ {t} : tab'[u] = tab[u]
        /\ n.attempt = IF m.attempt = c THEN None ELSE m.attempt
        /\ Stale(c) => n.user = m.user /\ n.gen = m.gen /\ n.unavailable = m.unavailable
        /\ ~Stale(c) /\ call[c].code = "ok" =>
             /\ n.user = call[c].user
             /\ n.gen = IF m.user # None /\ m.user # call[c].user THEN m.gen + 1 ELSE m.gen
        /\ ~Stale(c) /\ call[c].code = "error" => n.user = m.user /\ n.gen = m.gen
        /\ ~Stale(c) /\ call[c].code \notin {"ok", "error"} => n.gen = m.gen + 1
        /\ \A e \in Calls \ {c} :
             Kept(e) /\ (ctx'[e].old => ctx[e].old \/ (ctx[e].tab = t /\ m.user # None /\ n.user = None))
    BY <1>0, <1>10, ApplyRefreshEffect
  <2>2. CASE d = c
    BY <2>1, <2>2, Bygone
  <2>3. CASE d # c /\ ctx[d].tab = None
    BY <1>1, <2>1, <2>3 DEF Kept
  <2>4. ASSUME d # c, ctx[d].tab \in Tabs, ctx[d].tab = t => Stale(c)
        PROVE  CurrentInv(d)'
    <3>1. ASSUME NEW e \in Calls, ctx'[e].tab = ctx[d].tab PROVE Same(e)
      <4>1. e # c
        BY <1>0, <2>1, <2>4, <3>1 DEF Ends, NoCtx
      <4>2. Kept(e) /\ (ctx'[e].old => ctx[e].old)
        BY <2>1, <2>4, <3>1, <4>1 DEF Kept
      <4> QED
        BY <4>2, KeptSame
    <3>2. Same(d)
      BY <2>1, <2>4, <3>1 DEF Kept
    <3>3. Undisturbed(ctx[d].tab)
      <4>1. CASE ctx[d].tab # t
        BY <2>1, <2>4, <3>1, <4>1 DEF Undisturbed
      <4>2. CASE ctx[d].tab = t
        <5>1. ctx'[c].tab # t
          BY <1>0, <2>1 DEF Ends, NoCtx
        <5> QED
          BY <2>1, <2>4, <3>1, <4>2, <5>1 DEF Undisturbed
      <4> QED
        BY <4>1, <4>2
    <3> QED
      BY <1>0, <3>2, <3>3, CurrentKept
  <2>5. CASE d # c /\ ctx[d].tab = t /\ ~Stale(c)
    <3>1. Kept(d)
      BY <2>1, <2>5
    <3>2. SUFFICES ASSUME Current(d)' PROVE CurrentInv(d)'
      BY DEF CurrentInv
    <3>3. ASSUME n.gen = m.gen + 1 PROVE FALSE
      <4>1. ctx'[d].tab = ctx[d].tab /\ ctx'[d].gen = ctx[d].gen /\ ctx[d].tab # None
        BY <1>0, <2>1, <2>5, <3>1 DEF Kept
      <4>2. ~Current(d)'
        BY <1>0, <2>5, <3>3, <4>1, Outdated
      <4> QED
        BY <3>2, <4>2
    <3>4. n.gen = m.gen /\ Current(d) /\ Current(c)
      BY <1>0, <2>1, <2>5, <3>1, <3>2, <3>3 DEF Current, Stale, Kept
    <3>5. call[d].kind # "renew"
      BY <1>0, <2>1, <2>5, <3>4, OneAttempt
    <3>6. call[d].kind # "login"
      BY <1>0, <2>1, <2>5, <3>4 DEF IdentityInv, CurrentInv
    <3>7. call[d].kind = "data" => m.user # None /\ call[d].user = m.user
      BY <1>0, <2>5, <3>4 DEF IdentityInv, CurrentInv
    <3>8. m.user # None => n.user = m.user
      <4>1. m.gen # m.gen + 1
        BY <1>0, <2>1 DEF TypeOK, Tab
      <4> QED
        BY <2>1, <2>5, <3>4, <4>1
    <3> QED
      BY <2>5, <3>1, <3>5, <3>6, <3>7, <3>8 DEF CurrentInv, Kept
  <2> QED
    BY <1>0, <2>2, <2>3, <2>4, <2>5
<1>11. ASSUME NEW c \in Calls, ApplyLogin(c) \/ ApplyLogout(c) \/ ApplyData(c) PROVE CurrentInv(d)'
  <2> DEFINE t == ctx[c].tab
             m == tab[t]
             n == tab'[t]
  <2>1. /\ Ends(c) /\ t \in Tabs
        /\ \A u \in Tabs \ {t} : tab'[u] = tab[u]
        /\ n.attempt = m.attempt /\ n.gen = m.gen /\ n.unavailable = m.unavailable
        /\ \A e \in Calls \ {c} : Kept(e) /\ SameOld(e)
        /\ \/ n.user = m.user
           \/ call[c].kind = "login" /\ ~Stale(c)
    BY <1>0, <1>11, AnswerEffect DEF Answered
  <2>2. \A e \in Calls \ {c} : Same(e)
    BY <2>1, KeptSame DEF SameOld
  <2>3. ctx'[c].tab = None
    BY <2>1 DEF Ends, NoCtx
  <2>4. CASE d = c \/ ctx[d].tab = None
    BY <1>1, <2>1, <2>3, <2>4 DEF Kept
  <2>5. CASE d # c /\ ctx[d].tab \in Tabs /\ (ctx[d].tab = t => n.user = m.user)
    <3>1. Undisturbed(ctx[d].tab)
      BY <1>0, <2>1, <2>2, <2>3, <2>5 DEF Undisturbed
    <3> QED
      BY <1>0, <2>2, <2>5, <3>1, CurrentKept
  <2>6. CASE d # c /\ ctx[d].tab = t /\ call[c].kind = "login" /\ ~Stale(c)
    <3>1. SUFFICES ASSUME Current(d)' PROVE CurrentInv(d)'
      BY DEF CurrentInv
    <3>2. Kept(d) /\ Current(d) /\ Current(c)
      BY <1>0, <2>1, <2>6, <3>1 DEF Current, Stale, Kept
    <3>3. call[d].kind \notin {"login", "renew", "data"}
      BY <1>0, <2>6, <3>2 DEF IdentityInv, CurrentInv
    <3> QED
      BY <3>2, <3>3 DEF CurrentInv, Kept
  <2> QED
    BY <1>0, <2>1, <2>4, <2>5, <2>6
<1>12. ASSUME NEW c \in Calls, Resume(c) PROVE CurrentInv(d)'
  <2> DEFINE t == ctx[c].tab
  <2>1. /\ UNCHANGED tab /\ t \in Tabs /\ ctx[c].outcome # "none"
        /\ \A e \in Calls \ {c} : Kept(e) /\ SameOld(e)
        /\ \/ Ends(c)
           \/ Starts(c, "data", t) /\ ~Stale(c) /\ call'[c].user = tab[t].user
    BY <1>0, <1>12, ResumeEffect
  <2>2. \A e \in Calls \ {c} : Same(e)
    BY <2>1, KeptSame DEF SameOld
  <2>3. CASE d = c
    <3>1. CASE Ends(c)
      BY <2>3, <3>1, Bygone
    <3>2. CASE Starts(c, "data", t) /\ ~Stale(c) /\ call'[c].user = tab[t].user
      <4>1. call[c].kind = "data"
        BY <1>0, <2>1 DEF IdentityInv, WaitInv
      <4>2. tab[t].user \in Verified
        BY <1>0, <2>1, <3>2, <4>1, WaiterSignedIn
      <4>3. tab[t].user # None
        BY <4>2
      <4> QED
        BY <2>1, <2>3, <3>2, <4>3 DEF CurrentInv, Starts
    <3> QED
      BY <2>1, <3>1, <3>2
  <2>4. CASE d # c /\ ctx[d].tab \in Tabs
    <3>1. ctx'[c].tab # None => call'[c].kind = "data"
      BY <2>1 DEF Ends, Starts, NoCtx
    <3>2. Undisturbed(ctx[d].tab)
      BY <1>0, <2>1, <2>2, <2>4, <3>1 DEF Undisturbed
    <3> QED
      BY <1>0, <2>2, <2>4, <3>2, CurrentKept
  <2>5. CASE d # c /\ ctx[d].tab = None
    BY <1>1, <2>1, <2>5 DEF Kept
  <2> QED
    BY <1>0, <2>3, <2>4, <2>5
<1>13. ASSUME NEW c \in Calls, StoreCookie(c) PROVE CurrentInv(d)'
  <2>1. /\ UNCHANGED <<call, tab>>
        /\ ctx'[c].tab = ctx[c].tab /\ ctx'[c].gen = ctx[c].gen /\ SameOld(c)
        /\ \A e \in Calls \ {c} : Kept(e) /\ SameOld(e)
    BY <1>0, <1>13, StoreCookieEffect
  <2>2. \A e \in Calls : Same(e)
    BY <2>1 DEF Same, SameOld, Kept
  <2> QED
    BY <1>8, <2>1, <2>2
<1>14. ASSUME NEW c \in Calls, Discard(c) PROVE CurrentInv(d)'
  <2>1. /\ UNCHANGED tab /\ Ends(c) /\ \A e \in Calls \ {c} : Kept(e) /\ SameOld(e)
    BY <1>0, <1>14, DiscardEffect
  <2>2. \A e \in Calls : ctx'[e].tab # None => Same(e)
    BY <2>1 DEF Same, SameOld, Kept, Ends, NoCtx
  <2> QED
    BY <1>8, <2>1, <2>2
<1>15. ASSUME NEW c \in Calls, ServeCall(c) \/ FailCall(c) \/ LoseResponse(c) \/ LoseBody(c)
       PROVE  CurrentInv(d)'
  <2>1. UNCHANGED tab /\ \A e \in Calls : Same(e)
    BY <1>0, <1>15, ServerEffect
  <2> QED
    BY <1>8, <2>1
<1>16. CASE ExpireCookie
  BY <1>0, <1>8, <1>16, ExpireEffect
<1>17. CASE UNCHANGED vars
  BY <1>8, <1>17 DEF vars, clientVars, sessionVars, Same
<1> QED
  BY <1>2, <1>4, <1>5, <1>6, <1>7, <1>9, <1>10, <1>11, <1>12, <1>13, <1>14, <1>15, <1>16, <1>17
  DEF Next, Progress

-----------------------------------------------------------------------------
(* Who waits for what.                                                     *)

Placed(d) ==
  call'[d].kind = call[d].kind /\ ctx'[d].tab = ctx[d].tab /\ ctx'[d].gen = ctx[d].gen

\* A tab's generation does not decrease.
Grows(t) == tab'[t].gen = tab[t].gen \/ tab'[t].gen = tab[t].gen + 1

LEMMA WaitFrame ==
  ASSUME TypeOK, IdentityInv, NEW d \in Calls, Placed(d), SameWait(d),
         ctx[d].stored => ctx'[d].stored,
         ctx'[d].stored => call'[d].stage = "answered",
         ctx[d].tab # None => Grows(ctx[d].tab),
         ctx[d].waits # None => Placed(ctx[d].waits)
  PROVE  WaitInv(d)'
<1>1. ASSUME ctx'[d].tab # None PROVE ctx'[d].gen <= tab'[ctx'[d].tab].gen
  <2>1. ctx[d].gen \in Nat /\ tab[ctx[d].tab].gen \in Nat /\ ctx[d].gen <= tab[ctx[d].tab].gen
    BY <1>1 DEF TypeOK, Ctx, Tab, IdentityInv, WaitInv, Placed
  <2> QED
    BY <1>1, <2>1 DEF Placed, Grows
<1>2. ctx'[d].waits # None \/ ctx'[d].outcome # "none" =>
        ctx'[d].tab # None /\ ctx'[d].stored /\ call'[d].kind = "data"
  BY DEF IdentityInv, WaitInv, Placed, SameWait
<1>3. ASSUME ctx'[d].waits # None
      PROVE  LET w == ctx'[d].waits IN
             /\ ctx'[d].outcome = "none"
             /\ call'[w].kind = "renew" /\ ctx'[w].tab = ctx'[d].tab /\ ctx'[w].gen = ctx'[d].gen
  BY <1>3, Awaited DEF Placed, SameWait
<1> QED
  BY <1>1, <1>2, <1>3 DEF WaitInv

\* The same for the steps of the client.
LEMMA WaitKept ==
  ASSUME TypeOK, IdentityInv, NEW d \in Calls, Kept(d), SameWait(d),
         ctx[d].tab # None => Grows(ctx[d].tab),
         ctx[d].waits # None => Kept(ctx[d].waits)
  PROVE  WaitInv(d)'
<1>1. ctx'[d].stored => call'[d].stage = "answered"
  <2>1. WaitInv(d)
    BY DEF IdentityInv
  <2> QED
    BY <2>1 DEF WaitInv, Kept
<1> QED
  BY <1>1, WaitFrame DEF Kept, Placed

\* A call that starts or is over waits for nothing.
LEMMA WaitsForNothing ==
  ASSUME TypeOK', NEW d \in Calls, NEW kind, NEW t \in Tabs,
         Ends(d) \/ Starts(d, kind, t)
         \/ (Abandoned(d) /\ (ctx'[d].stored => call'[d].stage = "answered"))
  PROVE  WaitInv(d)'
<1>1. CASE Ends(d)
  BY <1>1 DEF WaitInv, Ends, NoCtx
<1>2. CASE Starts(d, kind, t)
  <2>1. tab'[t].gen \in Nat
    BY DEF TypeOK, Tab
  <2> QED
    BY <1>2, <2>1 DEF WaitInv, Starts
<1>3. CASE Abandoned(d) /\ (ctx'[d].stored => call'[d].stage = "answered")
  BY <1>3 DEF WaitInv, Abandoned
<1> QED
  BY <1>1, <1>2, <1>3

\* A tab's attempt is a renewal of its own.
LEMMA AttemptOf ==
  ASSUME TypeOK, NEW t \in Tabs, tab[t].attempt # None
  PROVE  call[tab[t].attempt].kind = "renew" /\ ctx[tab[t].attempt].tab = t
BY DEF TypeOK

LEMMA WaitStep ==
  ASSUME BrowserInv, [Next]_vars, NEW d \in Calls
  PROVE  WaitInv(d)'
<1> DEFINE w == ctx[d].waits
<1>0. TypeOK /\ SessionsInv /\ IdentityInv /\ CookieInv /\ None \notin Tabs /\ TypeOK'
      /\ ctx[d].tab \in Tabs \union {None}
      /\ (ctx[d].stored => call[d].stage = "answered")
  BY TypeStep DEF BrowserInv, TypeOK, Ctx, IdentityInv, WaitInv
<1>1. ASSUME w # None
      PROVE  /\ w \in Calls /\ call[w].kind = "renew" /\ call[w].stage # "idle"
             /\ ctx[w].tab = ctx[d].tab /\ ctx[w].gen = ctx[d].gen /\ ctx[d].tab # None
  BY <1>0, <1>1, Awaited
<1>2. ASSUME NEW t \in Tabs, NEW c \in Calls, Load(t, c) PROVE WaitInv(d)'
  <2>1. /\ call[c].stage = "idle" /\ Starts(c, "renew", t)
        /\ \A u \in Tabs \ {t} : tab'[u] = tab[u]
        /\ \A e \in Calls \ {c} : IF ctx[e].tab = t THEN Abandoned(e)
                                  ELSE Kept(e) /\ SameWait(e) /\ SameOld(e)
    BY <1>0, <1>2, LoadEffect
  <2>2. CASE d = c
    BY <1>0, <2>1, <2>2, WaitsForNothing
  <2>3. CASE d # c /\ ctx[d].tab = t
    BY <1>0, <2>1, <2>3, WaitsForNothing DEF Abandoned
  <2>4. CASE d # c /\ ctx[d].tab # t
    <3>1. w # None => Kept(w)
      BY <1>1, <2>1, <2>4
    <3>2. ctx[d].tab # None => Grows(ctx[d].tab)
      BY <1>0, <2>1, <2>4 DEF Grows
    <3> QED
      BY <1>0, <2>1, <2>4, <3>1, <3>2, WaitKept
  <2> QED
    BY <2>2, <2>3, <2>4
<1>3. ASSUME NEW t \in Tabs, NEW c \in Calls, NEW kind,
             call[c].stage = "idle", Starts(c, kind, t), Grows(t),
             \A u \in Tabs \ {t} : tab'[u] = tab[u],
             \A e \in Calls \ {c} : Kept(e),
             d # c => SameWait(d)
      PROVE  WaitInv(d)'
  <2>1. CASE d = c
    BY <1>0, <1>3, <2>1, WaitsForNothing
  <2>2. CASE d # c
    <3>1. w # None => Kept(w)
      BY <1>1, <1>3
    <3>2. ctx[d].tab # None => Grows(ctx[d].tab)
      BY <1>0, <1>3 DEF Grows
    <3> QED
      BY <1>0, <1>3, <2>2, <3>1, <3>2, WaitKept
  <2> QED
    BY <2>1, <2>2
<1>4. ASSUME NEW t \in Tabs, NEW c \in Calls, NEW user \in Users, SubmitLogin(t, c, user)
      PROVE  WaitInv(d)'
  <2>1. /\ call[c].stage = "idle" /\ Starts(c, "login", t) /\ Grows(t)
        /\ \A u \in Tabs \ {t} : tab'[u] = tab[u]
        /\ \A e \in Calls \ {c} : Kept(e) /\ SameWait(e)
    BY <1>0, <1>4, SubmitLoginEffect DEF Grows
  <2> QED
    BY <1>3, <2>1
<1>5. ASSUME NEW t \in Tabs, NEW c \in Calls, ClickLogout(t, c) PROVE WaitInv(d)'
  <2>1. /\ call[c].stage = "idle" /\ Starts(c, "logout", t) /\ Grows(t)
        /\ \A u \in Tabs \ {t} : tab'[u] = tab[u]
        /\ \A e \in Calls \ {c} : Kept(e) /\ SameWait(e)
    BY <1>0, <1>5, ClickLogoutEffect DEF Grows
  <2> QED
    BY <1>3, <2>1
<1>6. ASSUME NEW t \in Tabs, NEW c \in Calls, LoadData(t, c) PROVE WaitInv(d)'
  <2>1. /\ call[c].stage = "idle" /\ Starts(c, "data", t) /\ UNCHANGED tab
        /\ \A e \in Calls \ {c} : Kept(e) /\ SameWait(e)
    BY <1>0, <1>6, LoadDataEffect
  <2> QED
    BY <1>3, <2>1 DEF Grows
<1>7. ASSUME NEW t \in Tabs, NEW c \in Calls, RetryRefresh(t, c) PROVE WaitInv(d)'
  <2>1. /\ call[c].stage = "idle" /\ Starts(c, "renew", t) /\ Grows(t)
        /\ \A u \in Tabs \ {t} : tab'[u] = tab[u]
        /\ \A e \in Calls \ {c} : Kept(e) /\ SameWait(e)
    BY <1>0, <1>7, RetryRefreshEffect DEF Grows
  <2> QED
    BY <1>3, <2>1
<1>8. ASSUME NEW c \in Calls, NEW e \in Calls, AwaitRefresh(c, e) PROVE WaitInv(d)'
  <2> DEFINE t == ctx[c].tab
  <2>1. /\ call[c].kind = "data" /\ call[c].stage = "answered" /\ Current(c) /\ ctx[c].stored
        /\ ctx'[c].waits = e /\ ctx'[c].outcome = "none" /\ Kept(c) /\ e # c /\ t \in Tabs
        /\ \A x \in Calls \ {c, e} : Kept(x) /\ SameWait(x)
        /\ \/ /\ UnderWay(t) /\ e = tab[t].attempt
              /\ Kept(e) /\ SameWait(e) /\ UNCHANGED tab
           \/ /\ call[e].stage = "idle" /\ Starts(e, "renew", t)
              /\ \A u \in Tabs \ {t} : tab'[u] = tab[u]
              /\ tab'[t].gen = tab[t].gen
    BY <1>0, <1>8, AwaitEffect DEF Current, TypeOK, Ctx
  <2>2. ctx[c].gen = tab[t].gen /\ tab[t].gen \in Nat /\ tab'[t].gen = tab[t].gen
    BY <1>0, <2>1 DEF Current, Stale, TypeOK, Tab
  <2>3. call'[e].kind = "renew" /\ ctx'[e].tab = t /\ ctx'[e].gen = ctx[c].gen
    <3>1. CASE UnderWay(t) /\ e = tab[t].attempt /\ Kept(e)
      <4>1. tab[t].attempt # None /\ ctx[e].gen = tab[t].gen
        BY <3>1 DEF UnderWay
      <4>2. TypeOK /\ t \in Tabs
        BY <1>0, <2>1
      <4> HIDE DEF t
      <4>3. call[tab[t].attempt].kind = "renew" /\ ctx[tab[t].attempt].tab = t
        BY <4>1, <4>2, AttemptOf
      <4>4. call'[e] = call[e] /\ ctx'[e].tab = ctx[e].tab /\ ctx'[e].gen = ctx[e].gen
        BY <3>1 DEF Kept
      <4> QED
        BY <2>2, <3>1, <4>1, <4>3, <4>4
    <3>2. CASE Starts(e, "renew", t)
      BY <2>2, <3>2 DEF Starts
    <3> QED
      BY <2>1, <3>1, <3>2
  <2>4. CASE d = c
    <3>1. /\ ctx'[c].tab = t /\ ctx'[c].gen = ctx[c].gen /\ ctx'[c].stored
          /\ call'[c].stage = "answered" /\ call'[c].kind = "data" /\ t # None
      BY <1>0, <2>1 DEF Kept
    <3>2. ctx'[c].gen <= tab'[ctx'[c].tab].gen
      BY <2>2, <3>1
    <3> HIDE DEF t
    <3> QED
      BY <2>1, <2>3, <2>4, <3>1, <3>2 DEF WaitInv
  <2>5. CASE d # c /\ Kept(e) /\ SameWait(e) /\ UNCHANGED tab
    <3>1. w # None => Kept(w)
      BY <1>1, <2>1, <2>5
    <3> QED
      BY <1>0, <2>1, <2>5, <3>1, WaitKept DEF Grows
  <2>6. CASE /\ d # c /\ call[e].stage = "idle" /\ Starts(e, "renew", t)
             /\ \A u \in Tabs \ {t} : tab'[u] = tab[u]
    <3>1. \A x \in Calls \ {e} : Kept(x)
      BY <2>1
    <3>2. d # e => SameWait(d)
      BY <2>1, <2>6
    <3> HIDE DEF t
    <3> QED
      BY <1>3, <2>1, <2>2, <2>6, <3>1, <3>2 DEF Grows
  <2> QED
    BY <2>1, <2>4, <2>5, <2>6
<1>9. ASSUME NEW c \in Calls, ApplyRefresh(c) PROVE WaitInv(d)'
  <2> DEFINE t == ctx[c].tab
  <2>1. /\ Ends(c) /\ t \in Tabs
        /\ \A u \in Tabs \ {t} : tab'[u] = tab[u]
        /\ Grows(t)
        /\ \A e \in Calls \ {c} :
             /\ Kept(e)
             /\ IF ctx[e].waits = c THEN ctx'[e].waits = None /\ ctx'[e].outcome = Outcome(c)
                                    ELSE SameWait(e)
    BY <1>0, <1>9, ApplyRefreshEffect DEF Grows
  <2>2. ctx[d].tab # None => Grows(ctx[d].tab)
    BY <1>0, <2>1 DEF Grows
  <2>3. CASE d = c
    BY <1>0, <2>1, <2>3, WaitsForNothing
  <2>4. CASE d # c /\ ctx[d].waits # c
    <3>1. w # None => Kept(w)
      BY <1>1, <2>1, <2>4
    <3> QED
      BY <1>0, <2>1, <2>2, <2>4, <3>1, WaitKept
  <2>5. CASE d # c /\ ctx[d].waits = c
    <3>1. Kept(d) /\ ctx'[d].waits = None
      BY <2>1, <2>5
    <3>2. ctx[d].tab \in Tabs /\ ctx[d].stored /\ call[d].kind = "data"
      BY <1>0, <2>5, Awaited
    <3>3. ctx[d].gen \in Nat /\ tab[ctx[d].tab].gen \in Nat /\ ctx[d].gen <= tab[ctx[d].tab].gen
      BY <1>0, <3>2 DEF TypeOK, Ctx, Tab, IdentityInv, WaitInv
    <3>4. ctx'[d].gen <= tab'[ctx'[d].tab].gen
      BY <1>0, <2>2, <3>1, <3>2, <3>3 DEF Kept, Grows
    <3> QED
      BY <1>0, <3>1, <3>2, <3>4 DEF WaitInv, Kept
  <2> QED
    BY <2>3, <2>4, <2>5
<1>10. ASSUME NEW c \in Calls, NEW t \in Tabs, NEW kind, call[c].kind # "renew",
              Ends(c) \/ Starts(c, kind, t),
              \A u \in Tabs : tab'[u].gen = tab[u].gen,
              \A e \in Calls \ {c} : Kept(e) /\ SameWait(e)
       PROVE  WaitInv(d)'
  <2>1. CASE d = c
    BY <1>0, <1>10, <2>1, WaitsForNothing
  <2>2. CASE d # c
    <3>1. w # None => Kept(w)
      BY <1>1, <1>10
    <3> QED
      BY <1>0, <1>10, <2>2, <3>1, WaitKept DEF Grows
  <2> QED
    BY <2>1, <2>2
<1>11. ASSUME NEW c \in Calls, ApplyLogin(c) \/ ApplyLogout(c) \/ ApplyData(c) PROVE WaitInv(d)'
  <2>1. /\ Answered(c, call[c].kind) /\ call[c].kind # "renew"
    BY <1>0, <1>11, AnswerEffect
  <2>2. \A u \in Tabs : tab'[u].gen = tab[u].gen
    BY <2>1 DEF Answered
  <2> QED
    BY <1>10, <2>1, <2>2 DEF Answered
<1>12. ASSUME NEW c \in Calls, Resume(c) PROVE WaitInv(d)'
  <2>1. /\ UNCHANGED tab /\ ctx[c].tab \in Tabs /\ ctx[c].outcome # "none"
        /\ \A e \in Calls \ {c} : Kept(e) /\ SameWait(e)
        /\ Ends(c) \/ Starts(c, "data", ctx[c].tab)
    BY <1>0, <1>12, ResumeEffect
  <2>2. call[c].kind # "renew"
    BY <1>0, <2>1 DEF IdentityInv, WaitInv
  <2> QED
    BY <1>10, <2>1, <2>2
<1>13. ASSUME NEW c \in Calls, StoreCookie(c) PROVE WaitInv(d)'
  <2>1. /\ UNCHANGED <<call, tab>> /\ call[c].stage = "answered"
        /\ \A e \in Calls : Placed(e) /\ SameWait(e) /\ (ctx[e].stored => ctx'[e].stored)
        /\ \A e \in Calls \ {c} : ctx'[e].stored = ctx[e].stored
    BY <1>0, <1>13, StoreCookieEffect DEF Placed, Kept
  <2>2. ctx'[d].stored => call'[d].stage = "answered"
    BY <1>0, <2>1
  <2> QED
    BY <1>0, <1>1, <2>1, <2>2, WaitFrame DEF Grows
<1>14. ASSUME NEW c \in Calls, Discard(c) PROVE WaitInv(d)'
  <2>1. /\ UNCHANGED tab /\ Ends(c) /\ ctx[c].tab = None
        /\ \A e \in Calls \ {c} : Kept(e) /\ SameWait(e)
    BY <1>0, <1>14, DiscardEffect
  <2>2. CASE d = c
    BY <2>1, <2>2 DEF WaitInv, Ends, NoCtx
  <2>3. CASE d # c
    <3>1. w # None => Kept(w)
      BY <1>1, <2>1
    <3> QED
      BY <1>0, <2>1, <2>3, <3>1, WaitKept DEF Grows
  <2> QED
    BY <2>2, <2>3
<1>15. ASSUME NEW c \in Calls, ServeCall(c) \/ FailCall(c) \/ LoseResponse(c) \/ LoseBody(c)
       PROVE  WaitInv(d)'
  <2>1. UNCHANGED <<tab, ctx>> /\ (\A e \in Calls : Same(e)) /\ (Quiet(c) \/ Issues(c))
    BY <1>0, <1>15, ServerEffect
  <2>2. call[d].stage = "answered" => call'[d].stage = "answered"
    BY <2>1 DEF Quiet, Issues
  <2>3. \A e \in Calls : Placed(e) /\ SameWait(e)
    BY <2>1 DEF Same, Placed, SameWait
  <2> QED
    BY <1>0, <1>1, <2>1, <2>2, <2>3, WaitFrame DEF Grows
<1>16. CASE ExpireCookie \/ UNCHANGED vars
  <2>1. UNCHANGED <<call, tab, ctx>>
    BY <1>0, <1>16, ExpireEffect DEF vars, clientVars, sessionVars
  <2>2. Kept(d) /\ SameWait(d) /\ (w # None => Kept(w))
    BY <2>1 DEF Kept, SameWait
  <2> QED
    BY <1>0, <2>1, <2>2, WaitKept DEF Grows
<1> QED
  BY <1>2, <1>4, <1>5, <1>6, <1>7, <1>8, <1>9, <1>11, <1>12, <1>13, <1>14, <1>15, <1>16
  DEF Next, Progress

LEMMA IdentityStep ==
  ASSUME BrowserInv, [Next]_vars
  PROVE  IdentityInv'
BY UsersStep, CurrentStep, WaitStep DEF IdentityInv

-----------------------------------------------------------------------------
(* Cookies.                                                                *)

\* After the step a cookie is in flight only if it was before, and for the same
\* renewal, unless the page is gone and with it all memory of what it spent.
Carried(d) ==
  /\ InFlight(d)' =>
       /\ InFlight(d) /\ call'[d].setCookie = call[d].setCookie /\ call'[d].kind = call[d].kind
       /\ \/ ctx'[d].tab = ctx[d].tab /\ ctx'[d].cookie = ctx[d].cookie
          \/ \A n \in Tokens : spentBy'[n] # ctx[d].tab
  /\ call'[d].setCookie \in {call[d].setCookie, NoCookie, Keep}
  /\ call'[d].cookie \in {call[d].cookie, jar, NoCookie}
  /\ ctx'[d].cookie \in {ctx[d].cookie, jar, NoCookie}

\* A cookie in flight stays so, or its session is given up.
Reaches(d) ==
  InFlight(d) => \/ InFlight(d)' /\ call'[d].setCookie = call[d].setCookie
                 \/ sessionOf[call[d].setCookie] \in dropped'

\* A step that issues no token and stores none.
Ordinary ==
  /\ UNCHANGED <<count, sessionOf>> /\ jar' \in {jar, NoCookie} /\ dropped \subseteq dropped'
  /\ \A s \in Tokens : /\ rows'[s].token = rows[s].token
                       /\ rows[s].blocked => rows'[s].blocked
  /\ \A n \in Tokens : spentBy'[n] \in {spentBy[n], None}
  /\ \A d \in Calls : Carried(d) /\ Reaches(d) /\ ResponseInv(d)'

\* A token that was issued belongs to a session.
LEMMA SessionOf ==
  ASSUME SessionsInv, NEW n \in Tokens, n <= count
  PROVE  sessionOf[n] \in Tokens /\ sessionOf[n] \in 1 .. n
BY DEF SessionsInv, SessionsTypeOK, ChainInv

\* A token in flight is the last of its session.
LEMMA Flying ==
  ASSUME SessionsInv, CookieInv, NEW c \in Calls, InFlight(c)
  PROVE  LET n == call[c].setCookie IN
         /\ n \in Tokens /\ n <= count /\ sessionOf[n] \in Tokens /\ rows[sessionOf[n]].token = n
         /\ jar # n
         /\ \A d \in Calls : /\ call[d].cookie # n /\ ctx[d].cookie # n
                             /\ d # c => call[d].setCookie # n
BY SessionOf DEF CookieInv, FlightInv, ResponseInv, InFlight

LEMMA OrdinaryFlight ==
  ASSUME TypeOK, SessionsInv, CookieInv, Ordinary, NEW c \in Calls
  PROVE  FlightInv(c)'
<1> DEFINE n == call[c].setCookie
<1>1. SUFFICES ASSUME InFlight(c)' PROVE FlightInv(c)'
  BY DEF FlightInv
<1>2. InFlight(c) /\ call'[c].setCookie = n
  BY <1>1 DEF Ordinary, Carried
<1>3. /\ n \in Tokens /\ sessionOf[n] \in Tokens /\ rows[sessionOf[n]].token = n /\ jar # n
      /\ \A d \in Calls : /\ call[d].cookie # n /\ ctx[d].cookie # n
                          /\ d # c => call[d].setCookie # n
  BY <1>2, Flying
<1>4. NoCookie # n /\ Keep # n
  BY <1>3
<1> HIDE DEF n
<1>5. ASSUME NEW d \in Calls
      PROVE  call'[d].cookie # n /\ ctx'[d].cookie # n /\ (d # c => call'[d].setCookie # n)
  BY <1>3, <1>4 DEF Ordinary, Carried
<1>6. rows'[sessionOf'[n]].token = n /\ jar' # n
  BY <1>3, <1>4 DEF Ordinary
<1> QED
  BY <1>2, <1>5, <1>6 DEF FlightInv

LEMMA OrdinaryJar ==
  ASSUME TypeOK, SessionsInv, CookieInv, Ordinary
  PROVE  JarInv'
<1> DEFINE s == sessionOf[jar]
<1>1. SUFFICES ASSUME jar' # NoCookie PROVE JarInv'
  BY DEF JarInv
<1>2. jar' = jar /\ jar # NoCookie /\ sessionOf' = sessionOf
  BY <1>1 DEF Ordinary
<1>3. s \in Tokens
  BY <1>2, SessionOf DEF TypeOK, SessionsInv, SessionsTypeOK
<1>4. \/ rows[s].blocked \/ rows[s].token = jar \/ s \in dropped
      \/ \E c \in Calls : InFlight(c) /\ call[c].setCookie = rows[s].token
  BY <1>2 DEF CookieInv, JarInv
<1>5. ASSUME NEW c \in Calls, InFlight(c), call[c].setCookie = rows[s].token
      PROVE  (InFlight(c)' /\ call'[c].setCookie = rows[s].token) \/ s \in dropped'
  <2>1. sessionOf[call[c].setCookie] = s
    BY <1>3, <1>5 DEF InFlight, SessionsInv, ChainInv
  <2> QED
    BY <1>5, <2>1 DEF Ordinary, Reaches
<1>6. rows'[s].token = rows[s].token /\ (rows[s].blocked => rows'[s].blocked)
  BY <1>3 DEF Ordinary
<1>7. dropped \subseteq dropped'
  BY DEF Ordinary
<1> QED
  BY <1>2, <1>4, <1>5, <1>6, <1>7 DEF JarInv

LEMMA OrdinaryCookies ==
  ASSUME BrowserInv, Ordinary
  PROVE  CookieInv'
<1>1. TypeOK /\ SessionsInv /\ CookieInv
  BY DEF BrowserInv
<1>2. JarInv' /\ \A c \in Calls : FlightInv(c)'
  BY <1>1, OrdinaryFlight, OrdinaryJar
<1> QED
  BY <1>2 DEF CookieInv, Ordinary

LEMMA ClientResponses ==
  ASSUME BrowserInv, count' = count, NEW d \in Calls,
         \/ Kept(d) \/ Abandoned(d) \/ Ends(d)
         \/ \E kind, t : Starts(d, kind, t)
  PROVE  ResponseInv(d)'
<1>0. count \in Nat /\ jar <= count /\ call[d].stage \in Stages /\ ResponseInv(d)
  BY DEF BrowserInv, TypeOK, SessionsTypeOK, Call, CookieInv
<1>1. CASE Kept(d)
  BY <1>0, <1>1 DEF ResponseInv, Renewal, Kept
<1>2. CASE Abandoned(d)
  BY <1>0, <1>2 DEF ResponseInv, Renewal, Abandoned
<1>3. CASE Ends(d)
  BY <1>0, <1>3 DEF ResponseInv, Renewal, Ends, IdleCall, NoCtx
<1>4. ASSUME NEW kind, NEW t, Starts(d, kind, t) PROVE ResponseInv(d)'
  BY <1>0, <1>4 DEF ResponseInv, Renewal, Starts
<1> QED
  BY <1>1, <1>2, <1>3, <1>4

\* A free slot holds no cookie, nor does a call whose cookie was stored.
LEMMA NotInFlight ==
  ASSUME TypeOK, CookieInv, NEW c \in Calls, call[c].stage # "answered" \/ ctx[c].stored
  PROVE  ~InFlight(c)
<1>1. Keep \notin Tokens
  OBVIOUS
<1> QED
  BY <1>1 DEF InFlight, CookieInv, ResponseInv

\* A step of the client starts or ends one call, which has no cookie to
\* deliver; the others are left alone, or their page is gone.
Moves(c) ==
  /\ ServerIdle /\ UNCHANGED <<jar, dropped>>
  /\ \A n \in Tokens : spentBy'[n] \in {spentBy[n], None}
  /\ ~InFlight(c)
  /\ Kept(c) \/ Ends(c) \/ \E kind, t : Starts(c, kind, t)
  /\ \A d \in Calls \ {c} :
       Kept(d) \/ (Abandoned(d) /\ \A n \in Tokens : spentBy'[n] # ctx[d].tab)

LEMMA MovesOrdinary ==
  ASSUME BrowserInv, NEW c \in Calls, Moves(c)
  PROVE  Ordinary
<1>0. UNCHANGED <<count, sessionOf, rows, jar, dropped>>
  BY DEF ServerIdle, Moves
<1>1. Keep \notin Tokens
  OBVIOUS
<1>2. ASSUME NEW d \in Calls PROVE Carried(d) /\ Reaches(d)
  <2>1. CASE d = c
    BY <1>1, <2>1 DEF Moves, Carried, Reaches, InFlight, Ends, Starts, Kept, IdleCall, NoCtx
  <2>2. CASE d # c
    BY <2>2 DEF Moves, Carried, Reaches, InFlight, Kept, Abandoned
  <2> QED
    BY <2>1, <2>2
<1>3. ASSUME NEW d \in Calls PROVE ResponseInv(d)'
  BY <1>0, ClientResponses DEF Moves
<1> QED
  BY <1>0, <1>2, <1>3 DEF Ordinary, Moves

LEMMA ClientMoves ==
  ASSUME BrowserInv,
         \/ \E t \in Tabs, c \in Calls :
              \/ Load(t, c) \/ ClickLogout(t, c) \/ LoadData(t, c) \/ RetryRefresh(t, c)
              \/ \E user \in Users : SubmitLogin(t, c, user)
         \/ \E c \in Calls :
              \/ ApplyRefresh(c) \/ ApplyLogin(c) \/ ApplyLogout(c) \/ ApplyData(c) \/ Resume(c)
              \/ \E d \in Calls : AwaitRefresh(c, d)
  PROVE  \E c \in Calls : Moves(c)
<1>0. TypeOK /\ IdentityInv /\ CookieInv
  BY DEF BrowserInv
<1>1. ASSUME NEW t \in Tabs, NEW c \in Calls, Load(t, c) PROVE Moves(c)
  <2>1. /\ ServerIdle /\ UNCHANGED <<jar, dropped>> /\ call[c].stage = "idle" /\ Starts(c, "renew", t)
        /\ \A d \in Calls \ {c} : IF ctx[d].tab = t THEN Abandoned(d)
                                  ELSE Kept(d) /\ SameWait(d) /\ SameOld(d)
        /\ spentBy' = [n \in Tokens |-> IF spentBy[n] = t THEN None ELSE spentBy[n]]
    BY <1>0, <1>1, LoadEffect
  <2>2. \A n \in Tokens : spentBy'[n] \in {spentBy[n], None} /\ spentBy'[n] # t
    BY <2>1
  <2>3. \A d \in Calls \ {c} :
          Kept(d) \/ (Abandoned(d) /\ \A n \in Tokens : spentBy'[n] # ctx[d].tab)
    BY <2>1, <2>2
  <2> QED
    BY <1>0, <2>1, <2>2, <2>3, NotInFlight DEF Moves
<1>2. ASSUME NEW t \in Tabs, NEW c \in Calls,
             \/ ClickLogout(t, c) \/ LoadData(t, c) \/ RetryRefresh(t, c)
             \/ \E user \in Users : SubmitLogin(t, c, user)
      PROVE  Moves(c)
  <2>1. /\ ServerIdle /\ UNCHANGED <<jar, dropped, spentBy>> /\ call[c].stage = "idle"
        /\ \E kind : Starts(c, kind, t)
        /\ \A d \in Calls \ {c} : Kept(d)
    BY <1>0, <1>2, ClickLogoutEffect, LoadDataEffect, RetryRefreshEffect, SubmitLoginEffect
  <2> QED
    BY <1>0, <2>1, NotInFlight DEF Moves
<1>3. ASSUME NEW c \in Calls, NEW d \in Calls, AwaitRefresh(c, d) PROVE Moves(d) \/ Moves(c)
  <2>1. /\ ServerIdle /\ UNCHANGED <<jar, dropped, spentBy>> /\ Kept(c) /\ ctx[c].stored
        /\ \A e \in Calls \ {c, d} : Kept(e)
        /\ \/ Kept(d)
           \/ call[d].stage = "idle" /\ Starts(d, "renew", ctx[c].tab)
    BY <1>0, <1>3, AwaitEffect
  <2>2. CASE Kept(d)
    BY <1>0, <2>1, <2>2, NotInFlight DEF Moves
  <2>3. CASE call[d].stage = "idle" /\ Starts(d, "renew", ctx[c].tab)
    BY <1>0, <2>1, <2>3, NotInFlight DEF Moves
  <2> QED
    BY <2>1, <2>2, <2>3
<1>4. ASSUME NEW c \in Calls, ApplyRefresh(c) PROVE Moves(c)
  <2>1. /\ ServerIdle /\ UNCHANGED <<jar, dropped, spentBy>> /\ Ends(c) /\ ctx[c].stored
        /\ \A d \in Calls \ {c} : Kept(d)
    BY <1>0, <1>4, ApplyRefreshEffect
  <2> QED
    BY <1>0, <2>1, NotInFlight DEF Moves
<1>5. ASSUME NEW c \in Calls, ApplyLogin(c) \/ ApplyLogout(c) \/ ApplyData(c) PROVE Moves(c)
  <2>1. /\ ServerIdle /\ UNCHANGED <<jar, dropped, spentBy>> /\ Ends(c) /\ ctx[c].stored
        /\ \A d \in Calls \ {c} : Kept(d)
    BY <1>0, <1>5, AnswerEffect DEF Answered
  <2> QED
    BY <1>0, <2>1, NotInFlight DEF Moves
<1>6. ASSUME NEW c \in Calls, Resume(c) PROVE Moves(c)
  <2>1. /\ ServerIdle /\ UNCHANGED <<jar, dropped, spentBy>> /\ ctx[c].outcome # "none"
        /\ Ends(c) \/ Starts(c, "data", ctx[c].tab)
        /\ \A d \in Calls \ {c} : Kept(d)
    BY <1>0, <1>6, ResumeEffect
  <2>2. ctx[c].stored
    BY <1>0, <2>1 DEF IdentityInv, WaitInv
  <2> QED
    BY <1>0, <2>1, <2>2, NotInFlight DEF Moves
<1> QED
  BY <1>1, <1>2, <1>3, <1>4, <1>5, <1>6

LEMMA DiscardOrdinary ==
  ASSUME BrowserInv, NEW c \in Calls, Discard(c)
  PROVE  Ordinary
<1>0. TypeOK /\ SessionsInv /\ CookieInv
  BY DEF BrowserInv
<1>1. /\ UNCHANGED <<count, sessionOf, rows, jar, spentBy>> /\ Ends(c)
      /\ \A d \in Calls \ {c} : Kept(d)
      /\ IF ctx[c].stored THEN dropped' = dropped ELSE DropCookie(c)
  BY <1>0, DiscardEffect DEF ServerIdle
<1>2. dropped \subseteq dropped'
  BY <1>1 DEF DropCookie
<1>3. Keep \notin Tokens
  OBVIOUS
<1>4. ASSUME NEW d \in Calls \ {c} PROVE Carried(d) /\ Reaches(d)
  BY <1>1, <1>4 DEF Carried, Reaches, InFlight, Kept
<1>5. Carried(c)
  BY <1>1, <1>3 DEF Carried, InFlight, Ends, IdleCall, NoCtx
<1>6. Reaches(c)
  <2>1. SUFFICES ASSUME InFlight(c) PROVE sessionOf[call[c].setCookie] \in dropped'
    BY DEF Reaches
  <2>2. DropCookie(c) /\ call[c].setCookie \in Tokens
    BY <1>1, <2>1 DEF InFlight
  <2>3. sessionOf[call[c].setCookie] \in Tokens
    BY <1>0, <2>1, Flying
  <2> QED
    BY <2>2, <2>3 DEF DropCookie
<1>7. ASSUME NEW d \in Calls PROVE ResponseInv(d)'
  BY <1>1, ClientResponses
<1> QED
  BY <1>1, <1>2, <1>4, <1>5, <1>6, <1>7 DEF Ordinary

LEMMA QuietOrdinary ==
  ASSUME BrowserInv, NEW c \in Calls, Quiet(c), UNCHANGED <<jar, tab, ctx, spentBy>>,
         dropped' = dropped \/ DropCookie(c), InFlight(c) => DropCookie(c)
  PROVE  Ordinary
<1>0. TypeOK /\ SessionsInv /\ CookieInv /\ count \in Nat
  BY DEF BrowserInv, SessionsInv, SessionsTypeOK
<1>1. /\ UNCHANGED <<count, sessionOf>>
      /\ \A s \in Tokens : /\ rows'[s].token = rows[s].token
                           /\ rows[s].blocked => rows'[s].blocked
      /\ \A d \in Calls \ {c} : call'[d] = call[d]
      /\ call'[c].kind = call[c].kind
  BY DEF Quiet
<1>2. dropped \subseteq dropped'
  BY DEF DropCookie
<1>3. Keep \notin Tokens /\ NoCookie \notin Tokens /\ Keep # NoCookie
  OBVIOUS
<1>4. ASSUME NEW d \in Calls \ {c} PROVE Carried(d) /\ Reaches(d) /\ ResponseInv(d)'
  <2>1. Carried(d) /\ Reaches(d)
    BY <1>1, <1>4 DEF Carried, Reaches, InFlight
  <2>2. ResponseInv(d)'
    BY <1>0, <1>1, <1>4 DEF CookieInv, ResponseInv, Renewal
  <2> QED
    BY <2>1, <2>2
<1>5. Carried(c)
  BY <1>3 DEF Carried, InFlight, Quiet
<1>6. Reaches(c)
  <2>1. SUFFICES ASSUME InFlight(c) PROVE sessionOf[call[c].setCookie] \in dropped'
    BY DEF Reaches
  <2>2. DropCookie(c) /\ call[c].setCookie \in Tokens
    BY <2>1 DEF InFlight
  <2>3. sessionOf[call[c].setCookie] \in Tokens
    BY <1>0, <2>1, Flying
  <2> QED
    BY <2>2, <2>3 DEF DropCookie
<1>7. ResponseInv(c)'
  <2>0. /\ ResponseInv(c) /\ ctx' = ctx /\ count' = count
    BY <1>0, <1>1 DEF CookieInv
  <2>1. CASE /\ call[c].stage \in {"sent", "verified"} /\ call'[c].stage \in {"verified", "locked"}
             /\ call'[c].cookie = call[c].cookie /\ call'[c].code = call[c].code
             /\ call'[c].setCookie = call[c].setCookie
    BY <1>1, <2>0, <2>1 DEF ResponseInv, Renewal
  <2>2. CASE /\ call'[c].stage = "answered" /\ call'[c].setCookie \in {NoCookie, Keep}
             /\ call'[c].code = "ok" => call[c].kind \notin {"login", "renew"}
             /\ call'[c].code = "denied" /\ call[c].kind = "renew" =>
                  call[c].cookie # NoCookie /\ call[c].stage # "answered"
    BY <1>0, <1>1, <2>0, <2>2 DEF ResponseInv, Renewal
  <2> QED
    BY <2>1, <2>2 DEF Quiet
<1> QED
  BY <1>1, <1>2, <1>4, <1>5, <1>6, <1>7 DEF Ordinary

LEMMA ExpireOrdinary ==
  ASSUME BrowserInv, ExpireCookie \/ UNCHANGED vars
  PROVE  Ordinary
<1>0. TypeOK /\ CookieInv
  BY DEF BrowserInv
<1>1. UNCHANGED <<count, sessionOf, rows, call, ctx, dropped, spentBy>> /\ jar' \in {jar, NoCookie}
  BY <1>0, ExpireEffect DEF vars, clientVars, sessionVars
<1> QED
  BY <1>0, <1>1 DEF Ordinary, Carried, Reaches, InFlight, CookieInv, ResponseInv, Renewal

\* The browser stores a token: it is on its way no more, but in the jar.
LEMMA StoreCookies ==
  ASSUME BrowserInv, NEW c \in Calls, StoreCookie(c)
  PROVE  CookieInv'
<1>0. TypeOK /\ SessionsInv /\ CookieInv /\ count \in Nat /\ expired \in Nat
  BY DEF BrowserInv, SessionsInv, SessionsTypeOK
<1>1. /\ UNCHANGED <<call, count, sessionOf, rows, dropped>> /\ ~ctx[c].stored /\ ctx'[c].stored
      /\ jar' = CASE call[c].setCookie = Keep -> jar
                  [] call[c].setCookie # Keep /\ Expired(call[c].setCookie) -> NoCookie
                  [] OTHER -> call[c].setCookie
      /\ \A d \in Calls : ctx'[d].tab = ctx[d].tab /\ ctx'[d].cookie = ctx[d].cookie
      /\ \A d \in Calls \ {c} : ctx'[d].stored = ctx[d].stored
  BY <1>0, StoreCookieEffect DEF ServerIdle, Kept
<1>2. call[c].setCookie \in Tokens \union {NoCookie, Keep} /\ Keep # NoCookie
      /\ Keep \notin Tokens /\ NoCookie \notin Tokens
  BY <1>0 DEF SessionsInv, SessionsTypeOK, Call
<1>3. jar' \in {jar, NoCookie} \/ (InFlight(c) /\ jar' = call[c].setCookie)
  <2>1. call[c].setCookie = NoCookie => Expired(call[c].setCookie)
    BY <1>0 DEF Expired
  <2> QED
    BY <1>1, <1>2, <2>1 DEF InFlight
<1>4. ASSUME NEW d \in Calls PROVE ResponseInv(d)'
  BY <1>0, <1>1 DEF CookieInv, ResponseInv, Renewal
<1>5. ASSUME NEW d \in Calls PROVE FlightInv(d)'
  <2>1. SUFFICES ASSUME InFlight(d)' PROVE FlightInv(d)'
    BY DEF FlightInv
  <2>2. d # c /\ InFlight(d)
    BY <1>1, <2>1 DEF InFlight
  <2>3. LET n == call[d].setCookie IN
        /\ n \in Tokens /\ rows[sessionOf[n]].token = n /\ jar # n
        /\ \A e \in Calls : /\ call[e].cookie # n /\ ctx[e].cookie # n
                            /\ e # d => call[e].setCookie # n
    BY <1>0, <2>2, Flying
  <2>4. jar' # call[d].setCookie
    BY <1>2, <1>3, <2>2, <2>3
  <2> QED
    BY <1>1, <2>3, <2>4 DEF FlightInv
<1>6. JarInv'
  <2>1. SUFFICES ASSUME jar' # NoCookie PROVE JarInv'
    BY DEF JarInv
  <2>2. CASE InFlight(c) /\ jar' = call[c].setCookie
    <3>1. rows[sessionOf[call[c].setCookie]].token = call[c].setCookie
      BY <1>0, <2>2, Flying
    <3> QED
      BY <1>1, <2>2, <3>1 DEF JarInv
  <2>3. CASE jar' = jar /\ ~InFlight(c)
    <3>1. ASSUME NEW d \in Calls, InFlight(d) PROVE InFlight(d)'
      BY <1>1, <2>3, <3>1 DEF InFlight
    <3> QED
      BY <1>0, <1>1, <2>1, <2>3, <3>1 DEF CookieInv, JarInv
  <2>4. jar' = jar => ~InFlight(c) \/ jar' = call[c].setCookie
    BY <1>1, <1>2, <2>1 DEF InFlight
  <2> QED
    BY <1>3, <2>1, <2>2, <2>3, <2>4
<1> QED
  BY <1>4, <1>5, <1>6 DEF CookieInv

\* The server issues a token: it is in flight, and its session is at it.
LEMMA IssueCookies ==
  ASSUME BrowserInv, NEW c \in Calls, Issues(c), ~ctx[c].stored,
         UNCHANGED <<jar, ctx, dropped>>
  PROVE  CookieInv'
<1> DEFINE k == count + 1
           s == sessionOf'[k]
<1>0. TypeOK /\ SessionsInv /\ CookieInv /\ count \in Nat
  BY DEF BrowserInv, SessionsInv, SessionsTypeOK
<1>1. /\ count' = k /\ k \in Tokens /\ \A d \in Calls \ {c} : call'[d] = call[d]
      /\ call[c].stage # "answered" /\ call'[c].kind = call[c].kind /\ call'[c].stage = "answered"
      /\ call'[c].cookie = NoCookie /\ call'[c].code = "ok" /\ call'[c].setCookie = k
      /\ \A n \in Tokens \ {k} : sessionOf'[n] = sessionOf[n]
      /\ s \in Tokens /\ rows'[s].token = k /\ \A u \in Tokens \ {s} : rows'[u] = rows[u]
  BY DEF Issues
<1>2. \/ s = k
      \/ rows[s].token = call[c].cookie /\ s \in 1 .. count
  BY DEF Issues
<1> HIDE DEF s
<1>3. ~InFlight(c) /\ InFlight(c)'
  BY <1>0, <1>1, NotInFlight DEF InFlight
<1>4. ASSUME NEW d \in Calls PROVE ResponseInv(d)'
  <2>1. ResponseInv(d)
    BY <1>0 DEF CookieInv
  <2>2. call[d].setCookie \in Int /\ ctx[d].cookie \in Int /\ call[d].setCookie <= count
        /\ ctx[d].cookie <= count
    BY <1>0, <2>1 DEF SessionsInv, SessionsTypeOK, Call, TypeOK, Ctx, ResponseInv
  <2>3. CASE d = c
    BY <1>0, <1>1, <2>1, <2>2, <2>3 DEF ResponseInv, Renewal
  <2>4. CASE d # c
    BY <1>0, <1>1, <2>1, <2>2, <2>4 DEF ResponseInv, Renewal
  <2> QED
    BY <2>3, <2>4
<1>5. ASSUME NEW d \in Calls PROVE call[d].cookie # k /\ ctx[d].cookie # k /\ call[d].setCookie # k
  <2>1. call[d].cookie \in Int /\ ctx[d].cookie \in Int /\ call[d].setCookie \in Int
    BY <1>0 DEF SessionsInv, SessionsTypeOK, Call, TypeOK, Ctx
  <2>2. call[d].cookie <= count /\ ctx[d].cookie <= count /\ call[d].setCookie <= count
    BY <1>0 DEF SessionsInv, SessionsTypeOK, CookieInv, ResponseInv
  <2> QED
    BY <1>0, <2>1, <2>2
<1>6. jar # k /\ NoCookie # k /\ jar \in 0 .. count
  BY <1>0, <1>1 DEF TypeOK
<1>7. ASSUME NEW n \in Tokens, n <= count, rows[sessionOf[n]].token = n,
             \A d \in Calls : call[d].cookie # n
      PROVE  rows'[sessionOf'[n]].token = n
  <2>1. n # k /\ sessionOf[n] \in 1 .. n /\ sessionOf[n] \in Tokens
    BY <1>0, <1>1, <1>7, SessionOf
  <2>2. sessionOf[n] # s
    <3>1. sessionOf[n] # k
      BY <1>0, <1>7, <2>1
    <3> QED
      BY <1>2, <1>7, <3>1
  <2> QED
    BY <1>1, <1>7, <2>1, <2>2
<1>8. ASSUME NEW d \in Calls PROVE FlightInv(d)'
  <2>1. SUFFICES ASSUME InFlight(d)' PROVE FlightInv(d)'
    BY DEF FlightInv
  <2>2. CASE d = c
    <3>1. rows'[sessionOf'[k]].token = k
      BY <1>1 DEF s
    <3>2. \A e \in Calls : /\ call'[e].cookie # k /\ ctx'[e].cookie # k
                           /\ e # c => call'[e].setCookie # k
      BY <1>1, <1>5, <1>6
    <3>3. jar' # k
      BY <1>6
    <3> HIDE DEF k
    <3> QED
      BY <1>1, <2>2, <3>1, <3>2, <3>3 DEF FlightInv
  <2>3. CASE d # c
    <3> DEFINE n == call[d].setCookie
    <3>1. InFlight(d) /\ call'[d] = call[d]
      BY <1>1, <2>1, <2>3 DEF InFlight
    <3>2. /\ n \in Tokens /\ n <= count /\ rows[sessionOf[n]].token = n /\ jar # n
          /\ \A e \in Calls : /\ call[e].cookie # n /\ ctx[e].cookie # n
                              /\ e # d => call[e].setCookie # n
      BY <1>0, <3>1, Flying
    <3>3. rows'[sessionOf'[n]].token = n
      BY <1>7, <3>2
    <3>4. NoCookie # n /\ k # n
      BY <1>5, <3>2
    <3>5. \A e \in Calls : /\ call'[e].cookie # n /\ ctx'[e].cookie # n
                           /\ e # d => call'[e].setCookie # n
      BY <1>1, <3>2, <3>4
    <3> QED
      BY <3>1, <3>2, <3>3, <3>5 DEF FlightInv
  <2> QED
    BY <2>2, <2>3
<1>9. JarInv'
  <2>1. SUFFICES ASSUME jar' # NoCookie PROVE JarInv'
    BY DEF JarInv
  <2>2. jar \in Tokens \ {k} /\ jar <= count /\ jar' = jar
    BY <1>0, <1>1, <1>6, <2>1
  <2>3. sessionOf[jar] \in Tokens /\ sessionOf'[jar] = sessionOf[jar]
    BY <1>0, <1>1, <2>2, SessionOf
  <2>4. CASE sessionOf[jar] = s
    BY <1>1, <1>3, <2>2, <2>3, <2>4 DEF JarInv
  <2>5. CASE sessionOf[jar] # s
    <3>1. rows'[sessionOf[jar]] = rows[sessionOf[jar]]
      BY <1>1, <2>3, <2>5
    <3>2. ASSUME NEW d \in Calls, InFlight(d) PROVE InFlight(d)' /\ call'[d] = call[d]
      BY <1>1, <1>3, <3>2 DEF InFlight
    <3> QED
      BY <1>0, <2>1, <2>2, <2>3, <3>1, <3>2 DEF CookieInv, JarInv
  <2> QED
    BY <2>4, <2>5
<1> QED
  BY <1>4, <1>8, <1>9 DEF CookieInv

\* The kinds of step, as far as cookies are concerned.
LEMMA CookieSteps ==
  ASSUME BrowserInv, [Next]_vars
  PROVE  \/ Ordinary
         \/ \E c \in Calls : StoreCookie(c)
         \/ \E c \in Calls :
              /\ Issues(c) /\ ~ctx[c].stored /\ UNCHANGED <<jar, tab, ctx, dropped>>
              /\ spentBy' = IF call[c].kind = "renew"
                              THEN [spentBy EXCEPT ![call[c].cookie] = ctx[c].tab] ELSE spentBy
<1>1. ASSUME NEW c \in Calls, ServeCall(c) \/ FailCall(c) \/ LoseResponse(c) \/ LoseBody(c)
      PROVE  \/ Ordinary
             \/ /\ Issues(c) /\ ~ctx[c].stored /\ UNCHANGED <<jar, tab, ctx, dropped>>
                /\ spentBy' = IF call[c].kind = "renew"
                                THEN [spentBy EXCEPT ![call[c].cookie] = ctx[c].tab] ELSE spentBy
  <2>1. SessionsInv /\ IdentityInv /\ CookieInv
    BY DEF BrowserInv
  <2> QED
    BY <1>1, <2>1, ServerEffect, QuietOrdinary
<1> QED
  BY <1>1, ClientMoves, MovesOrdinary, DiscardOrdinary, ExpireOrdinary DEF Next, Progress

LEMMA CookieStep ==
  ASSUME BrowserInv, [Next]_vars
  PROVE  CookieInv'
BY CookieSteps, OrdinaryCookies, StoreCookies, IssueCookies

-----------------------------------------------------------------------------
(* Redeemed tokens.                                                        *)

LEMMA OrdinarySpent ==
  ASSUME BrowserInv, Ordinary, NEW n \in Tokens
  PROVE  SpentInv(n)'
<1>0. SessionsInv /\ CookieInv /\ SpentInv(n)
  BY DEF BrowserInv, RenewalInv
<1>1. SUFFICES ASSUME spentBy'[n] # None PROVE SpentInv(n)'
  BY DEF SpentInv
<1>2. spentBy'[n] = spentBy[n] /\ spentBy[n] # None /\ sessionOf' = sessionOf /\ count' = count
  BY <1>1 DEF Ordinary
<1>3. n <= count /\ sessionOf[n] \in Tokens /\ rows[sessionOf[n]].token # n
  BY <1>0, <1>2, SessionOf DEF SpentInv
<1>4. rows'[sessionOf[n]].token # n
  BY <1>3 DEF Ordinary
<1>5. CASE sessionOf[n] \in dropped \/ jar # n
  BY <1>2, <1>3, <1>4, <1>5 DEF Ordinary, SpentInv
<1>6. ASSUME NEW d \in Calls, Renewal(d), ctx[d].tab = spentBy[n], ctx[d].cookie = n,
             InFlight(d), sessionOf[call[d].setCookie] = sessionOf[n]
      PROVE  SpentInv(n)'
  <2>1. Carried(d) /\ Reaches(d)
    BY DEF Ordinary
  <2>2. CASE sessionOf[n] \in dropped'
    BY <1>2, <1>3, <1>4, <2>2 DEF SpentInv
  <2>3. CASE InFlight(d)' /\ call'[d].setCookie = call[d].setCookie
    <3>1. /\ call'[d].kind = "renew" /\ ctx'[d].tab = ctx[d].tab /\ ctx'[d].cookie = n
      BY <1>2, <1>6, <2>1, <2>3 DEF Carried, Renewal
    <3>2. Renewal(d)' /\ ctx'[d].tab = spentBy'[n]
      BY <1>2, <1>6, <3>1 DEF Renewal
    <3> QED
      BY <1>2, <1>3, <1>4, <1>6, <2>3, <3>1, <3>2 DEF SpentInv
  <2> QED
    BY <1>6, <2>1, <2>2, <2>3 DEF Reaches
<1> QED
  BY <1>0, <1>2, <1>5, <1>6 DEF SpentInv

LEMMA StoreSpent ==
  ASSUME BrowserInv, NEW c \in Calls, StoreCookie(c), NEW n \in Tokens
  PROVE  SpentInv(n)'
<1>0. TypeOK /\ SessionsInv /\ CookieInv /\ SpentInv(n) /\ count \in Nat /\ expired \in Nat
  BY DEF BrowserInv, RenewalInv, SessionsInv, SessionsTypeOK
<1>1. /\ UNCHANGED <<call, count, sessionOf, rows, dropped, spentBy>>
      /\ jar' = CASE call[c].setCookie = Keep -> jar
                  [] call[c].setCookie # Keep /\ Expired(call[c].setCookie) -> NoCookie
                  [] OTHER -> call[c].setCookie
      /\ \A d \in Calls : ctx'[d].tab = ctx[d].tab /\ ctx'[d].cookie = ctx[d].cookie
      /\ \A d \in Calls \ {c} : ctx'[d].stored = ctx[d].stored
      /\ ~ctx[c].stored
  BY <1>0, StoreCookieEffect DEF ServerIdle, Kept
<1>2. SUFFICES ASSUME spentBy[n] # None PROVE SpentInv(n)'
  BY <1>1 DEF SpentInv
<1>3. n <= count /\ rows[sessionOf[n]].token # n /\ NoCookie # n
  BY <1>0, <1>2 DEF SpentInv
<1>4. InFlight(c) => call[c].setCookie # n
  BY <1>0, <1>3, Flying
<1>5. jar' # n \/ (jar' = jar /\ ~InFlight(c))
  <2>1. call[c].setCookie \in Tokens \union {NoCookie, Keep} /\ Keep \notin Tokens
    BY <1>0 DEF SessionsInv, SessionsTypeOK, Call
  <2> QED
    BY <1>1, <1>3, <1>4, <2>1 DEF InFlight
<1>6. CASE jar' # n \/ sessionOf[n] \in dropped
  BY <1>1, <1>3, <1>6 DEF SpentInv
<1>7. CASE jar' = jar /\ ~InFlight(c) /\ jar = n /\ sessionOf[n] \notin dropped
  <2>1. PICK d \in Calls : /\ Renewal(d) /\ ctx[d].tab = spentBy[n] /\ ctx[d].cookie = n
                           /\ InFlight(d) /\ sessionOf[call[d].setCookie] = sessionOf[n]
    BY <1>0, <1>2, <1>7 DEF SpentInv
  <2>2. d # c /\ InFlight(d)' /\ Renewal(d)'
    BY <1>1, <1>7, <2>1 DEF InFlight, Renewal
  <2> QED
    BY <1>1, <1>3, <2>1, <2>2 DEF SpentInv
<1> QED
  BY <1>5, <1>6, <1>7

LEMMA IssueSpent ==
  ASSUME BrowserInv, NEW c \in Calls, Issues(c), ~ctx[c].stored, UNCHANGED <<jar, ctx, dropped>>,
         spentBy' = (IF call[c].kind = "renew"
                       THEN [spentBy EXCEPT ![call[c].cookie] = ctx[c].tab] ELSE spentBy),
         NEW n \in Tokens
  PROVE  SpentInv(n)'
<1> DEFINE k == count + 1
           s == sessionOf'[k]
<1>0. TypeOK /\ SessionsInv /\ CookieInv /\ SpentInv(n) /\ count \in Nat
      /\ spentBy \in [Tokens -> Tabs \union {None}]
  BY DEF BrowserInv, RenewalInv, SessionsInv, SessionsTypeOK, TypeOK
<1>1. /\ count' = k /\ k \in Tokens /\ \A d \in Calls \ {c} : call'[d] = call[d]
      /\ call[c].stage # "answered" /\ call'[c].kind = call[c].kind /\ call'[c].setCookie = k
      /\ \A m \in Tokens \ {k} : sessionOf'[m] = sessionOf[m]
      /\ s \in Tokens /\ rows'[s].token = k /\ \A u \in Tokens \ {s} : rows'[u] = rows[u]
  BY DEF Issues
<1>2. call[c].kind = "renew" =>
        call[c].cookie \in 1 .. count /\ s = sessionOf[call[c].cookie] /\ s \in 1 .. count
  BY DEF Issues
<1> HIDE DEF s
<1>3. SUFFICES ASSUME spentBy'[n] # None PROVE SpentInv(n)'
  BY DEF SpentInv
<1>4. ~InFlight(c) /\ InFlight(c)'
  BY <1>0, <1>1, NotInFlight DEF InFlight
<1>5. CASE call[c].kind = "renew" /\ n = call[c].cookie
  <2>1. spentBy'[n] = ctx[c].tab /\ n \in 1 .. count /\ s = sessionOf[n] /\ n # k
    BY <1>0, <1>2, <1>5
  <2>2. n <= count' /\ sessionOf'[n] = s /\ rows'[sessionOf'[n]].token # n
    BY <1>0, <1>1, <2>1
  <2>3. Renewal(c) /\ ctx[c].tab # None
    BY <1>3, <1>5, <2>1 DEF Renewal
  <2>4. ctx'[c].cookie = n /\ Renewal(c)' /\ ctx'[c].tab = spentBy'[n]
    BY <1>0, <1>1, <1>5, <2>1, <2>3 DEF CookieInv, ResponseInv, Renewal
  <2>5. sessionOf'[call'[c].setCookie] = sessionOf'[n]
    BY <1>1, <2>2 DEF s
  <2> QED
    BY <1>4, <2>2, <2>4, <2>5 DEF SpentInv
<1>6. CASE ~(call[c].kind = "renew" /\ n = call[c].cookie)
  <2>1. spentBy'[n] = spentBy[n] /\ spentBy[n] # None
    BY <1>0, <1>3, <1>6
  <2>2. n <= count /\ rows[sessionOf[n]].token # n /\ n # k
    BY <1>0, <2>1 DEF SpentInv
  <2>3. sessionOf[n] \in Tokens /\ sessionOf'[n] = sessionOf[n] /\ n <= count'
    BY <1>0, <1>1, <2>2, SessionOf
  <2>4. rows'[sessionOf'[n]].token # n
    BY <1>1, <2>2, <2>3
  <2>5. CASE sessionOf[n] \in dropped \/ jar # n
    BY <2>3, <2>4, <2>5 DEF SpentInv
  <2>6. ASSUME NEW d \in Calls, Renewal(d), ctx[d].tab = spentBy[n], ctx[d].cookie = n,
               InFlight(d), sessionOf[call[d].setCookie] = sessionOf[n]
        PROVE  SpentInv(n)'
    <3>1. d # c /\ call'[d] = call[d]
      BY <1>1, <1>4, <2>6
    <3>2. InFlight(d)' /\ Renewal(d)'
      BY <2>6, <3>1 DEF InFlight, Renewal
    <3>3. call[d].setCookie \in Tokens \ {k}
      <4>1. call[d].setCookie \in Tokens /\ call[d].setCookie <= count
        BY <1>0, <2>6, Flying
      <4> QED
        BY <1>0, <4>1
    <3>4. sessionOf'[call'[d].setCookie] = sessionOf'[n]
      BY <1>1, <2>3, <2>6, <3>1, <3>3
    <3> QED
      BY <2>1, <2>3, <2>4, <2>6, <3>2, <3>4 DEF SpentInv
  <2> QED
    BY <1>0, <2>1, <2>5, <2>6 DEF SpentInv
<1> QED
  BY <1>5, <1>6

LEMMA SpentStep ==
  ASSUME BrowserInv, [Next]_vars, NEW n \in Tokens
  PROVE  SpentInv(n)'
BY CookieSteps, OrdinarySpent, StoreSpent, IssueSpent

-----------------------------------------------------------------------------
(* Renewals that were given up, and the one under way.                     *)

RenewsInv(t) == Renews(t) => GivenUp(t, jar)

\* The renewals of tab u are the ones it had, and it had reason to renew if it
\* has one now.
Untouched(u) ==
  /\ tab'[u].gen = tab[u].gen
  /\ tab'[u].user # None \/ tab'[u].unavailable => Renews(u)
  /\ \A e \in Calls : ctx'[e].tab = u =>
       Kept(e) \/ (call'[e].kind # "renew" /\ ~ctx'[e].stored)

LEMMA UntouchedTab ==
  ASSUME BrowserInv, Ordinary, NEW u \in Tabs, Untouched(u)
  PROVE  RenewsInv(u)' /\ \A e \in Calls : ctx'[e].tab = u => OwnInv(e)'
<1>0. /\ TypeOK /\ RenewsInv(u) /\ jar' \in {jar, NoCookie} /\ sessionOf' = sessionOf
      /\ dropped \subseteq dropped' /\ u # None
      /\ \A n \in Tokens : spentBy'[n] \in {spentBy[n], None}
  BY DEF BrowserInv, RenewalInv, RenewsInv, Ordinary
<1>1. ASSUME NEW e \in Calls, ctx'[e].tab = u, Kept(e)
      PROVE  /\ ctx[e].tab = u /\ call'[e] = call[e] /\ ctx'[e].cookie = ctx[e].cookie
             /\ ctx'[e].stored = ctx[e].stored /\ (Stale(e)' <=> Stale(e))
             /\ (Renewal(e)' <=> Renewal(e))
  BY <1>1 DEF Untouched, Kept, Stale, Renewal
<1>2. ASSUME NEW e \in Calls, ctx'[e].tab = u, Renewal(e)' PROVE Kept(e)
  BY <1>2 DEF Untouched, Renewal
<1>3. ASSUME NEW cookie, GivenUp(u, cookie), NEW d \in Calls, Renewal(d)', ctx'[d].tab = u,
             Stale(d)', cookie # NoCookie
      PROVE  ctx'[d].cookie # cookie
  BY <1>1, <1>2, <1>3 DEF GivenUp
<1>4. Renews(u)' => Renews(u)
  BY <1>1 DEF Untouched, Renews
<1>5. RenewsInv(u)'
  BY <1>0, <1>3, <1>4 DEF RenewsInv, GivenUp
<1>6. ASSUME NEW e \in Calls, ctx'[e].tab = u PROVE OwnInv(e)'
  <2>1. SUFFICES ASSUME Renewal(e)', ~Stale(e)', ctx'[e].cookie # NoCookie PROVE OwnInv(e)'
    BY DEF OwnInv
  <2>2. /\ ctx[e].tab = u /\ call'[e] = call[e] /\ ctx'[e].cookie = ctx[e].cookie
        /\ Renewal(e) /\ ~Stale(e) /\ ctx[e].cookie \in Tokens
    BY <1>0, <1>1, <1>2, <1>6, <2>1 DEF TypeOK, Ctx
  <2>3. GivenUp(u, ctx[e].cookie) /\ OwnInv(e)
    BY <2>1, <2>2 DEF BrowserInv, RenewalInv, OwnInv
  <2>4. GivenUp(u, ctx[e].cookie)'
    BY <1>3, <2>2, <2>3 DEF GivenUp
  <2>5. spentBy'[ctx[e].cookie] = u => spentBy[ctx[e].cookie] = u
    BY <1>0, <2>2
  <2> QED
    BY <1>0, <1>6, <2>1, <2>2, <2>3, <2>4, <2>5 DEF OwnInv
<1> QED
  BY <1>5, <1>6

\* The generation changes: the renewals of the tab are outdated, and none that
\* was not outdated already is left behind by a page that goes on.
Leaves(u) ==
  /\ tab'[u].gen = tab[u].gen + 1
  /\ \A e \in Calls : ctx'[e].tab = u =>
       Kept(e) \/ (call'[e].kind # "renew" /\ ~ctx'[e].stored)
  /\ \/ tab'[u].user = None /\ ~tab'[u].unavailable
     \/ Renews(u) /\ \A e \in Calls : ctx'[e].tab = u /\ Renewal(e) => Stale(e)

LEMMA LeftTab ==
  ASSUME BrowserInv, Ordinary, NEW u \in Tabs, Leaves(u)
  PROVE  RenewsInv(u)' /\ \A e \in Calls : ctx'[e].tab = u => OwnInv(e)'
<1>0. TypeOK /\ IdentityInv /\ RenewsInv(u) /\ jar' \in {jar, NoCookie} /\ u # None
  BY DEF BrowserInv, RenewalInv, RenewsInv, Ordinary
<1>1. ASSUME NEW e \in Calls, ctx'[e].tab = u, Kept(e) PROVE Stale(e)'
  <2>1. ~Current(e)'
    BY <1>0, <1>1, Outdated DEF Kept, Leaves
  <2> QED
    BY <1>0, <1>1, <2>1 DEF Current
<1>2. ASSUME NEW e \in Calls, ctx'[e].tab = u PROVE OwnInv(e)'
  BY <1>1, <1>2 DEF OwnInv, Leaves, Renewal
<1>3. CASE tab'[u].user = None /\ ~tab'[u].unavailable
  <2>1. ~Renews(u)'
    BY <1>1, <1>3 DEF Leaves, Renews
  <2> QED
    BY <1>2, <2>1 DEF RenewsInv
<1>4. CASE Renews(u) /\ \A e \in Calls : ctx'[e].tab = u /\ Renewal(e) => Stale(e)
  <2>1. ASSUME NEW d \in Calls, Renewal(d)', ctx'[d].tab = u, jar' # NoCookie
        PROVE  ctx'[d].cookie # jar'
    <3>1. Kept(d)
      BY <2>1 DEF Leaves, Renewal
    <3>2. ctx[d].tab = u /\ ctx'[d].cookie = ctx[d].cookie /\ Renewal(d)
      BY <2>1, <3>1 DEF Kept, Renewal
    <3> QED
      BY <1>0, <1>4, <2>1, <3>2 DEF RenewsInv, GivenUp
  <2> QED
    BY <1>2, <2>1 DEF RenewsInv, GivenUp
<1> QED
  BY <1>3, <1>4 DEF Leaves

\* A renewal starts in a page that has none under way.
LEMMA StartedTab ==
  ASSUME BrowserInv, Ordinary, jar' = jar, NEW t \in Tabs, NEW c \in Calls,
         Starts(c, "renew", t), Renews(t), ~UnderWay(t), tab'[t].gen = tab[t].gen,
         \A e \in Calls \ {c} : Kept(e)
  PROVE  RenewsInv(t)' /\ \A e \in Calls : ctx'[e].tab = t => OwnInv(e)'
<1>0. /\ TypeOK /\ IdentityInv /\ sessionOf' = sessionOf /\ dropped \subseteq dropped' /\ t # None
      /\ \A n \in Tokens : spentBy'[n] \in {spentBy[n], None} /\ SpentInv(n)
      /\ GivenUp(t, jar)
  BY DEF BrowserInv, RenewalInv, Ordinary
<1>1. ctx'[c].tab = t /\ ctx'[c].cookie = jar /\ ~Stale(c)'
  BY DEF Starts, Stale
<1>2. ASSUME NEW e \in Calls \ {c}, ctx'[e].tab = t
      PROVE  /\ ctx[e].tab = t /\ ctx'[e].cookie = ctx[e].cookie
             /\ (Renewal(e)' <=> Renewal(e)) /\ (Stale(e)' <=> Stale(e))
  BY <1>2 DEF Kept, Renewal, Stale
<1>3. GivenUp(t, jar)'
  BY <1>0, <1>1, <1>2 DEF GivenUp
<1>4. ASSUME NEW d \in Calls, Renewal(d), ctx[d].tab = t PROVE Stale(d)
  <2>1. ~Current(d)
    BY <1>0, <1>4, OneAttempt DEF Renewal
  <2> QED
    BY <1>0, <1>4, <2>1 DEF Current
<1>5. ASSUME NEW e \in Calls \ {c}, ctx'[e].tab = t PROVE OwnInv(e)'
  BY <1>2, <1>4, <1>5 DEF OwnInv
<1>6. OwnInv(c)'
  <2>1. SUFFICES ASSUME jar # NoCookie PROVE OwnInv(c)'
    BY <1>1 DEF OwnInv
  <2>2. jar \in Tokens
    BY <1>0, <2>1 DEF TypeOK, SessionsTypeOK
  <2>3. spentBy'[jar] = t => sessionOf'[jar] \in dropped'
    <3>1. SUFFICES ASSUME spentBy[jar] = t PROVE sessionOf[jar] \in dropped
      BY <1>0, <2>2
    <3>2. ASSUME NEW d \in Calls, Renewal(d), ctx[d].tab = t, ctx[d].cookie = jar PROVE FALSE
      BY <1>0, <1>4, <2>1, <3>2 DEF GivenUp
    <3> QED
      BY <1>0, <2>2, <3>1, <3>2 DEF SpentInv
  <2> QED
    BY <1>1, <1>3, <2>3 DEF OwnInv
<1> QED
  BY <1>3, <1>5, <1>6 DEF RenewsInv

\* A page is loaded: it spent nothing yet and has given nothing up.
LEMMA LoadedTab ==
  ASSUME TypeOK, NEW t \in Tabs, NEW c \in Calls, Load(t, c)
  PROVE  RenewsInv(t)' /\ \A e \in Calls : ctx'[e].tab = t => OwnInv(e)'
<1>1. /\ spentBy' = [n \in Tokens |-> IF spentBy[n] = t THEN None ELSE spentBy[n]]
      /\ Starts(c, "renew", t) /\ ctx' \in [Calls -> Ctx]
      /\ \A d \in Calls \ {c} : IF ctx[d].tab = t THEN Abandoned(d)
                                ELSE Kept(d) /\ SameWait(d) /\ SameOld(d)
  BY LoadEffect DEF Typed
<1>2. \A e \in Calls : ctx'[e].tab = t => e = c
  BY <1>1 DEF Abandoned, Kept
<1>3. ~Stale(c)' /\ ctx'[c].tab = t
  BY <1>1 DEF Starts, Stale
<1>4. \A cookie : GivenUp(t, cookie)'
  BY <1>2, <1>3 DEF GivenUp
<1>5. ctx'[c].cookie # NoCookie => spentBy'[ctx'[c].cookie] # t
  BY <1>1 DEF Ctx
<1>6. OwnInv(c)'
  BY <1>3, <1>4, <1>5 DEF OwnInv
<1> QED
  BY <1>2, <1>4, <1>6 DEF RenewsInv

\* The browser stores a cookie: a token from a response nobody else has, or
\* the jar stays as it is.
LEMMA StoreOwn ==
  ASSUME BrowserInv, NEW c \in Calls, StoreCookie(c)
  PROVE  (\A u \in Tabs : RenewsInv(u)') /\ \A e \in Calls : OwnInv(e)'
<1>0. TypeOK /\ SessionsInv /\ CookieInv /\ count \in Nat /\ expired \in Nat
      /\ call[c].setCookie \in Tokens \union {NoCookie, Keep}
      /\ \A u \in Tabs : RenewsInv(u)
  BY DEF BrowserInv, SessionsInv, SessionsTypeOK, Call, RenewalInv, RenewsInv
<1>1. /\ UNCHANGED <<call, tab, sessionOf, dropped, spentBy>> /\ ~ctx[c].stored
      /\ jar' = CASE call[c].setCookie = Keep -> jar
                  [] call[c].setCookie # Keep /\ Expired(call[c].setCookie) -> NoCookie
                  [] OTHER -> call[c].setCookie
      /\ \A d \in Calls : ctx'[d].tab = ctx[d].tab /\ ctx'[d].cookie = ctx[d].cookie
                          /\ ctx'[d].gen = ctx[d].gen
      /\ \A d \in Calls \ {c} : ctx'[d].stored = ctx[d].stored
      /\ call[c].stage = "answered"
  BY <1>0, StoreCookieEffect DEF ServerIdle, Kept
<1>2. \A d \in Calls : (Renewal(d)' <=> Renewal(d)) /\ (ctx[d].tab # None => (Stale(d)' <=> Stale(d)))
  BY <1>1 DEF Renewal, Stale
<1>3. ASSUME NEW u, NEW cookie, GivenUp(u, cookie)
      PROVE  \A d \in Calls : Renewal(d)' /\ ctx'[d].tab = u /\ Stale(d)' /\ cookie # NoCookie
                              => ctx'[d].cookie # cookie
  BY <1>1, <1>2, <1>3 DEF GivenUp, Renewal
<1>4. ASSUME NEW e \in Calls PROVE OwnInv(e)'
  <2>1. SUFFICES ASSUME Renewal(e)', ~Stale(e)', ctx'[e].cookie # NoCookie PROVE OwnInv(e)'
    BY DEF OwnInv
  <2>2. Renewal(e) /\ ~Stale(e) /\ ctx[e].tab # None
    BY <1>2, <2>1 DEF Renewal
  <2>3. OwnInv(e) /\ GivenUp(ctx[e].tab, ctx[e].cookie)
    BY <1>1, <2>1, <2>2 DEF BrowserInv, RenewalInv, OwnInv
  <2>4. GivenUp(ctx[e].tab, ctx[e].cookie)'
    BY <1>1, <1>3, <2>3 DEF GivenUp
  <2> QED
    BY <1>1, <2>1, <2>2, <2>3, <2>4 DEF OwnInv
<1>5. CASE jar' = NoCookie
  BY <1>4, <1>5 DEF RenewsInv, GivenUp
<1>6. CASE InFlight(c) /\ jar' = call[c].setCookie
  <2>1. \A d \in Calls : ctx[d].cookie # call[c].setCookie
    BY <1>0, <1>6, Flying
  <2> QED
    BY <1>1, <1>4, <1>6, <2>1 DEF RenewsInv, GivenUp
<1>7. CASE jar' = jar /\ call[c].setCookie \notin Tokens
  <2>1. ~(call[c].kind = "login" /\ call[c].code = "ok")
    BY <1>0, <1>1, <1>7 DEF CookieInv, ResponseInv
  <2>2. ASSUME NEW u \in Tabs, Renews(u)' PROVE Renews(u)
    <3>1. CASE tab'[u].user # None \/ tab'[u].unavailable
      BY <1>1, <3>1 DEF Renews
    <3>2. ASSUME NEW d \in Calls, ctx'[d].tab = u, ~Stale(d)',
                 \/ call'[d].kind = "renew"
                 \/ call'[d].kind = "login" /\ ctx'[d].stored /\ call'[d].code = "ok"
          PROVE  Renews(u)
      <4>1. ctx[d].tab = u /\ ~Stale(d)
        BY <1>1, <3>2 DEF Stale
      <4> QED
        BY <1>1, <2>1, <3>2, <4>1 DEF Renews
    <3> QED
      BY <2>2, <3>1, <3>2 DEF Renews
  <2> QED
    BY <1>0, <1>3, <1>4, <1>7, <2>2 DEF RenewsInv, GivenUp
<1>8. call[c].setCookie = NoCookie => Expired(call[c].setCookie)
  BY <1>0 DEF Expired
<1> QED
  BY <1>0, <1>1, <1>5, <1>6, <1>7, <1>8 DEF InFlight

\* The server goes on with a call without issuing a token.
LEMMA QuietOwn ==
  ASSUME BrowserInv, NEW c \in Calls, Quiet(c), UNCHANGED <<jar, tab, ctx, spentBy>>,
         dropped' = dropped \/ DropCookie(c)
  PROVE  (\A u \in Tabs : RenewsInv(u)') /\ \A e \in Calls : OwnInv(e)'
<1>0. dropped \subseteq dropped' /\ sessionOf' = sessionOf
  BY DEF DropCookie, Quiet
<1>1. ASSUME NEW d \in Calls
      PROVE  /\ call'[d].kind = call[d].kind
             /\ call'[d].kind = "login" /\ call'[d].code = "ok" => call[d].code = "ok"
             /\ call[d].kind = "renew" /\ call[d].stage = "answered" /\ call[d].code # "denied"
                => call'[d].stage = "answered" /\ call'[d].code # "denied"
  <2>1. CASE d # c
    BY <2>1 DEF Quiet
  <2>2. CASE d = c
    BY <2>2 DEF Quiet
  <2> QED
    BY <2>1, <2>2
<1>2. \A d \in Calls : (Renewal(d)' <=> Renewal(d)) /\ (Stale(d)' <=> Stale(d))
  BY <1>1 DEF Renewal, Stale
<1>3. \A u \in Tabs : RenewsInv(u)'
  <2>1. ASSUME NEW u \in Tabs, Renews(u)' PROVE Renews(u)
    BY <1>1, <1>2, <2>1 DEF Renews
  <2>2. \A u \in Tabs : RenewsInv(u)
    BY DEF BrowserInv, RenewalInv, RenewsInv
  <2> QED
    BY <1>2, <2>1, <2>2 DEF RenewsInv, GivenUp
<1>4. ASSUME NEW e \in Calls PROVE OwnInv(e)'
  <2>1. OwnInv(e)
    BY DEF BrowserInv, RenewalInv
  <2>2. GivenUp(ctx[e].tab, ctx[e].cookie) => GivenUp(ctx[e].tab, ctx[e].cookie)'
    BY <1>2 DEF GivenUp
  <2> QED
    BY <1>0, <1>1, <1>2, <2>1, <2>2 DEF OwnInv, Renewal
<1> QED
  BY <1>3, <1>4

\* The server issues a token for the one that a renewal of some page presented.
LEMMA IssueOwn ==
  ASSUME BrowserInv, NEW c \in Calls, Issues(c), ~ctx[c].stored,
         UNCHANGED <<jar, tab, ctx, dropped>>,
         spentBy' = (IF call[c].kind = "renew"
                       THEN [spentBy EXCEPT ![call[c].cookie] = ctx[c].tab] ELSE spentBy)
  PROVE  (\A u \in Tabs : RenewsInv(u)') /\ \A e \in Calls : OwnInv(e)'
<1>0. TypeOK /\ SessionsInv /\ IdentityInv /\ CookieInv /\ count \in Nat
      /\ spentBy \in [Tokens -> Tabs \union {None}] /\ ctx \in [Calls -> Ctx]
  BY DEF BrowserInv, SessionsInv, SessionsTypeOK, TypeOK
<1>1. /\ \A d \in Calls \ {c} : call'[d] = call[d]
      /\ call'[c].kind = call[c].kind /\ call'[c].stage = "answered" /\ call'[c].code = "ok"
      /\ call[c].stage # "answered"
      /\ \A n \in Tokens \ {count + 1} : sessionOf'[n] = sessionOf[n]
      /\ call[c].kind = "renew" => call[c].cookie \in 1 .. count
  BY DEF Issues
<1>2. \A d \in Calls : (Renewal(d)' <=> Renewal(d)) /\ (Stale(d)' <=> Stale(d))
  BY <1>1 DEF Renewal, Stale
<1>3. \A u \in Tabs : RenewsInv(u)'
  <2>1. ASSUME NEW u \in Tabs, Renews(u)' PROVE Renews(u)
    BY <1>1, <1>2, <2>1 DEF Renews
  <2>2. \A u \in Tabs : RenewsInv(u)
    BY DEF BrowserInv, RenewalInv, RenewsInv
  <2> QED
    BY <1>2, <2>1, <2>2 DEF RenewsInv, GivenUp
<1>4. ASSUME NEW e \in Calls PROVE OwnInv(e)'
  <2> DEFINE t == ctx[e].tab
             n == ctx[e].cookie
  <2>1. SUFFICES ASSUME Renewal(e), ~Stale(e), n # NoCookie PROVE OwnInv(e)'
    BY <1>2 DEF OwnInv
  <2>2. /\ t # None /\ n \in Tokens /\ n <= count /\ GivenUp(t, n)
        /\ spentBy[n] = t => \/ sessionOf[n] \in dropped
                             \/ call[e].stage = "answered" /\ call[e].code # "denied"
    BY <1>0, <2>1 DEF BrowserInv, RenewalInv, OwnInv, Renewal, Ctx, CookieInv, ResponseInv
  <2>3. sessionOf'[n] = sessionOf[n]
    BY <1>0, <1>1, <2>2
  <2>4. GivenUp(t, n)'
    BY <1>2, <2>2 DEF GivenUp
  <2>5. CASE e = c
    BY <1>1, <2>4, <2>5 DEF OwnInv
  <2>6. CASE e # c
    <3>1. SUFFICES ASSUME spentBy'[n] = t, spentBy[n] # t PROVE FALSE
      BY <1>1, <2>2, <2>3, <2>4, <2>6 DEF OwnInv
    <3>2. call[c].kind = "renew" /\ call[c].cookie = n /\ ctx[c].tab = t
      BY <1>0, <2>2, <3>1
    <3>3. Renewal(c) /\ ctx[c].cookie = n
      BY <1>0, <1>1, <2>2, <3>2 DEF Renewal, CookieInv, ResponseInv
    <3>4. ~Stale(c)
      BY <2>1, <2>2, <3>2, <3>3 DEF GivenUp
    <3>5. Current(c) /\ Current(e)
      BY <2>1, <2>2, <3>2, <3>4 DEF Current
    <3> QED
      BY <1>0, <2>1, <2>6, <3>2, <3>5, OneAttempt DEF Renewal
  <2> QED
    BY <2>5, <2>6
<1> QED
  BY <1>3, <1>4

\* What is left of the invariant, for each step.
LEMMA OwnStep ==
  ASSUME BrowserInv, [Next]_vars
  PROVE  (\A u \in Tabs : RenewsInv(u)') /\ \A e \in Calls : OwnInv(e)'
<1>0. /\ TypeOK /\ SessionsInv /\ IdentityInv /\ CookieInv /\ tab \in [Tabs -> Tab]
      /\ None \notin Tabs /\ \A e \in Calls : ctx'[e].tab \in Tabs \union {None}
  BY TypeStep DEF BrowserInv, TypeOK, Ctx
<1>1. ASSUME \A u \in Tabs : RenewsInv(u)' /\ \A e \in Calls : ctx'[e].tab = u => OwnInv(e)'
      PROVE  (\A u \in Tabs : RenewsInv(u)') /\ \A e \in Calls : OwnInv(e)'
  <2>1. ASSUME NEW e \in Calls, ctx'[e].tab = None PROVE OwnInv(e)'
    BY <2>1 DEF OwnInv, Renewal
  <2> QED
    BY <1>0, <1>1, <2>1
<1>2. ASSUME Ordinary, \A u \in Tabs : Untouched(u) \/ Leaves(u)
      PROVE  (\A u \in Tabs : RenewsInv(u)') /\ \A e \in Calls : OwnInv(e)'
  BY <1>1, <1>2, UntouchedTab, LeftTab
<1>3. ASSUME NEW t \in Tabs, NEW c \in Calls, Load(t, c)
      PROVE  (\A u \in Tabs : RenewsInv(u)') /\ \A e \in Calls : OwnInv(e)'
  <2>1. /\ \A u \in Tabs \ {t} : tab'[u] = tab[u]
        /\ Starts(c, "renew", t)
        /\ \A d \in Calls \ {c} : IF ctx[d].tab = t THEN Abandoned(d)
                                  ELSE Kept(d) /\ SameWait(d) /\ SameOld(d)
    BY <1>0, <1>3, LoadEffect
  <2>2. Ordinary
    BY <1>3, ClientMoves, MovesOrdinary
  <2>3. \A u \in Tabs \ {t} : Untouched(u)
    BY <1>0, <2>1 DEF Untouched, Starts, Abandoned, Renews
  <2> QED
    BY <1>0, <1>1, <1>3, <2>2, <2>3, UntouchedTab, LoadedTab
<1>4. ASSUME NEW t \in Tabs, NEW c \in Calls,
             ClickLogout(t, c) \/ \E user \in Users : SubmitLogin(t, c, user)
      PROVE  (\A u \in Tabs : RenewsInv(u)') /\ \A e \in Calls : OwnInv(e)'
  <2>1. /\ Starts(c, "login", t) \/ Starts(c, "logout", t)
        /\ \A u \in Tabs \ {t} : tab'[u] = tab[u]
        /\ tab'[t].gen = tab[t].gen + 1 /\ tab'[t].user = None /\ ~tab'[t].unavailable
        /\ \A d \in Calls \ {c} : Kept(d)
    BY <1>0, <1>4, ClickLogoutEffect, SubmitLoginEffect
  <2>2. Ordinary
    BY <1>4, ClientMoves, MovesOrdinary
  <2>3. \A u \in Tabs \ {t} : Untouched(u)
    BY <2>1 DEF Untouched, Starts, Renews
  <2>4. Leaves(t)
    BY <2>1 DEF Leaves, Starts
  <2> QED
    BY <1>2, <2>2, <2>3, <2>4
<1>5. ASSUME NEW t \in Tabs, NEW c \in Calls, LoadData(t, c)
      PROVE  (\A u \in Tabs : RenewsInv(u)') /\ \A e \in Calls : OwnInv(e)'
  <2>1. tab' = tab /\ Starts(c, "data", t) /\ \A d \in Calls \ {c} : Kept(d)
    BY <1>0, <1>5, LoadDataEffect
  <2>2. Ordinary
    BY <1>5, ClientMoves, MovesOrdinary
  <2>3. \A u \in Tabs : Untouched(u)
    BY <2>1 DEF Untouched, Starts, Renews
  <2> QED
    BY <1>2, <2>2, <2>3
<1>6. ASSUME NEW t \in Tabs, NEW c \in Calls, Ordinary, jar' = jar, Starts(c, "renew", t),
             Renews(t), ~UnderWay(t), tab'[t].gen = tab[t].gen,
             \A u \in Tabs \ {t} : tab'[u] = tab[u],
             \A e \in Calls \ {c} : Kept(e)
      PROVE  (\A u \in Tabs : RenewsInv(u)') /\ \A e \in Calls : OwnInv(e)'
  <2>1. \A u \in Tabs \ {t} : Untouched(u)
    BY <1>6 DEF Untouched, Starts, Renews
  <2> QED
    BY <1>1, <1>6, <2>1, UntouchedTab, StartedTab
<1>7. ASSUME NEW t \in Tabs, NEW c \in Calls, RetryRefresh(t, c)
      PROVE  (\A u \in Tabs : RenewsInv(u)') /\ \A e \in Calls : OwnInv(e)'
  <2>1. /\ ~UnderWay(t) /\ tab[t].unavailable /\ Starts(c, "renew", t) /\ jar' = jar
        /\ \A u \in Tabs \ {t} : tab'[u] = tab[u]
        /\ tab'[t].gen = tab[t].gen
        /\ \A e \in Calls \ {c} : Kept(e)
    BY <1>0, <1>7, RetryRefreshEffect
  <2>2. Ordinary
    BY <1>7, ClientMoves, MovesOrdinary
  <2>3. Renews(t)
    BY <2>1 DEF Renews
  <2> QED
    BY <1>6, <2>1, <2>2, <2>3
<1>8. ASSUME NEW c \in Calls, NEW d \in Calls, AwaitRefresh(c, d)
      PROVE  (\A u \in Tabs : RenewsInv(u)') /\ \A e \in Calls : OwnInv(e)'
  <2> DEFINE t == ctx[c].tab
  <2>1. /\ call[c].kind = "data" /\ Current(c) /\ Kept(c) /\ jar' = jar
        /\ \A e \in Calls \ {c, d} : Kept(e)
        /\ \/ Kept(d) /\ UNCHANGED tab
           \/ /\ ~UnderWay(t) /\ Starts(d, "renew", t)
              /\ \A u \in Tabs \ {t} : tab'[u] = tab[u]
              /\ tab'[t].gen = tab[t].gen
    BY <1>0, <1>8, AwaitEffect
  <2>2. Ordinary
    BY <1>8, ClientMoves, MovesOrdinary
  <2>3. t \in Tabs /\ tab[t].user # None /\ Renews(t)
    BY <1>0, <2>1 DEF TypeOK, Ctx, IdentityInv, CurrentInv, Current, Renews
  <2>4. CASE Kept(d) /\ UNCHANGED tab
    <3>1. \A u \in Tabs : Untouched(u)
      BY <2>1, <2>4 DEF Untouched, Renews
    <3> QED
      BY <1>2, <2>2, <3>1
  <2>5. CASE /\ ~UnderWay(t) /\ Starts(d, "renew", t)
             /\ \A u \in Tabs \ {t} : tab'[u] = tab[u]
             /\ tab'[t].gen = tab[t].gen
    <3>1. \A e \in Calls \ {d} : Kept(e)
      BY <2>1
    <3> HIDE DEF t
    <3> QED
      BY <1>6, <2>1, <2>2, <2>3, <2>5, <3>1
  <2> QED
    BY <2>1, <2>4, <2>5
<1>9. ASSUME NEW c \in Calls, ApplyRefresh(c)
      PROVE  (\A u \in Tabs : RenewsInv(u)') /\ \A e \in Calls : OwnInv(e)'
  <2> DEFINE t == ctx[c].tab
             m == tab[t]
             n == tab'[t]
  <2>1. /\ Ends(c) /\ t \in Tabs /\ call[c].kind = "renew"
        /\ \A u \in Tabs \ {t} : tab'[u] = tab[u]
        /\ Stale(c) => n.user = m.user /\ n.gen = m.gen /\ n.unavailable = m.unavailable
        /\ ~Stale(c) /\ call[c].code = "ok" => n.gen \in {m.gen, m.gen + 1}
        /\ ~Stale(c) /\ call[c].code = "error" => n.gen = m.gen
        /\ ~Stale(c) /\ call[c].code \notin {"ok", "error"} => n.gen = m.gen + 1
        /\ \A e \in Calls \ {c} : Kept(e)
    BY <1>0, <1>9, ApplyRefreshEffect
  <2>2. Ordinary
    BY <1>9, ClientMoves, MovesOrdinary
  <2>3. ctx'[c].tab = None
    BY <2>1 DEF Ends, NoCtx
  <2>4. \A u \in Tabs \ {t} : Untouched(u)
    BY <1>0, <2>1, <2>3 DEF Untouched, Renews
  <2>5. CASE Stale(c)
    <3>1. Untouched(t)
      BY <1>0, <2>1, <2>3, <2>5 DEF Untouched, Renews
    <3> QED
      BY <1>2, <2>1, <2>2, <2>4, <3>1
  <2>6. CASE ~Stale(c)
    <3>1. Renews(t) /\ Current(c)
      BY <1>0, <2>1, <2>6 DEF Renews, Current
    <3>2. CASE n.gen = m.gen
      <4>1. Untouched(t)
        BY <1>0, <2>1, <2>3, <3>1, <3>2 DEF Untouched
      <4> QED
        BY <1>2, <2>1, <2>2, <2>4, <4>1
    <3>3. CASE n.gen = m.gen + 1
      <4>1. ASSUME NEW e \in Calls, ctx'[e].tab = t, Renewal(e) PROVE Stale(e)
        <5>1. e # c /\ ctx[e].tab = t
          BY <1>0, <2>1, <2>3, <4>1 DEF Kept
        <5>2. ~Current(e)
          BY <1>0, <2>1, <3>1, <4>1, <5>1, OneAttempt DEF Renewal
        <5> QED
          BY <1>0, <2>1, <5>1, <5>2 DEF Current
      <4>2. Leaves(t)
        BY <1>0, <2>1, <2>3, <3>1, <3>3, <4>1 DEF Leaves
      <4> QED
        BY <1>2, <2>1, <2>2, <2>4, <4>2
    <3> QED
      BY <2>1, <2>6, <3>2, <3>3
  <2> QED
    BY <2>5, <2>6
<1>10. ASSUME NEW c \in Calls, ApplyLogin(c) \/ ApplyLogout(c) \/ ApplyData(c)
       PROVE  (\A u \in Tabs : RenewsInv(u)') /\ \A e \in Calls : OwnInv(e)'
  <2> DEFINE t == ctx[c].tab
             m == tab[t]
             n == tab'[t]
  <2>1. /\ Ends(c) /\ t \in Tabs /\ ctx[c].stored
        /\ \A u \in Tabs \ {t} : tab'[u] = tab[u]
        /\ n.gen = m.gen /\ n.unavailable = m.unavailable
        /\ \A e \in Calls \ {c} : Kept(e)
        /\ \/ n.user = m.user
           \/ call[c].kind = "login" /\ call[c].code = "ok" /\ ~Stale(c)
    BY <1>0, <1>10, AnswerEffect DEF Answered
  <2>2. Ordinary
    BY <1>10, ClientMoves, MovesOrdinary
  <2>3. ctx'[c].tab = None
    BY <2>1 DEF Ends, NoCtx
  <2>4. \A u \in Tabs \ {t} : Untouched(u)
    BY <1>0, <2>1, <2>3 DEF Untouched, Renews
  <2>5. n.user # None \/ n.unavailable => Renews(t)
    BY <2>1 DEF Renews
  <2>6. Untouched(t)
    BY <1>0, <2>1, <2>3, <2>5 DEF Untouched
  <2> QED
    BY <1>2, <2>1, <2>2, <2>4, <2>6
<1>11. ASSUME NEW c \in Calls, Resume(c)
       PROVE  (\A u \in Tabs : RenewsInv(u)') /\ \A e \in Calls : OwnInv(e)'
  <2>1. /\ UNCHANGED tab /\ \A e \in Calls \ {c} : Kept(e)
        /\ Ends(c) \/ Starts(c, "data", ctx[c].tab)
    BY <1>0, <1>11, ResumeEffect
  <2>2. Ordinary
    BY <1>11, ClientMoves, MovesOrdinary
  <2>3. \A u \in Tabs : Untouched(u)
    BY <1>0, <2>1 DEF Untouched, Starts, Ends, NoCtx, Renews
  <2> QED
    BY <1>2, <2>2, <2>3
<1>12. ASSUME NEW c \in Calls, Discard(c)
       PROVE  (\A u \in Tabs : RenewsInv(u)') /\ \A e \in Calls : OwnInv(e)'
  <2>1. UNCHANGED tab /\ Ends(c) /\ \A e \in Calls \ {c} : Kept(e)
    BY <1>0, <1>12, DiscardEffect
  <2>2. Ordinary
    BY <1>12, DiscardOrdinary
  <2>3. \A u \in Tabs : Untouched(u)
    BY <1>0, <2>1 DEF Untouched, Ends, NoCtx, Renews
  <2> QED
    BY <1>2, <2>2, <2>3
<1>13. ASSUME ExpireCookie \/ UNCHANGED vars
       PROVE  (\A u \in Tabs : RenewsInv(u)') /\ \A e \in Calls : OwnInv(e)'
  <2>1. UNCHANGED <<tab, ctx, call>>
    BY <1>0, <1>13, ExpireEffect DEF vars, clientVars, sessionVars
  <2>2. \A u \in Tabs : Untouched(u)
    BY <2>1 DEF Untouched, Kept, Renews
  <2> QED
    BY <1>2, <1>13, <2>2, ExpireOrdinary
<1>14. ASSUME NEW c \in Calls, ServeCall(c) \/ FailCall(c) \/ LoseResponse(c) \/ LoseBody(c)
       PROVE  (\A u \in Tabs : RenewsInv(u)') /\ \A e \in Calls : OwnInv(e)'
  BY <1>0, <1>14, ServerEffect, QuietOwn, IssueOwn
<1> QED
  BY <1>3, <1>4, <1>5, <1>7, <1>8, <1>9, <1>10, <1>11, <1>12, <1>13, <1>14, StoreOwn
  DEF Next, Progress

-----------------------------------------------------------------------------
(* The invariant, and what follows from it.                                *)

LEMMA BrowserStart == Init => BrowserInv
<1> SUFFICES ASSUME Init PROVE BrowserInv
  OBVIOUS
<1>0. SessionsInv
  BY SessionsInitInv DEF Init
<1>1. /\ jar = NoCookie /\ tab = [t \in Tabs |-> FreshTab] /\ ctx = [c \in Calls |-> NoCtx]
      /\ dropped = {} /\ spentBy = [n \in Tokens |-> None] /\ count = 0
      /\ call = [c \in Calls |-> IdleCall]
  BY DEF Init, SessionsInit
<1>2. TypeOK
  BY <1>0, <1>1, FreshTypes DEF TypeOK, SessionsInv, FreshTab
<1>3. /\ \A c \in Calls : /\ ctx[c].tab = None /\ ctx[c].waits = None /\ ctx[c].outcome = "none"
                          /\ ~ctx[c].stored /\ ctx[c].cookie = NoCookie
                          /\ call[c].stage = "idle" /\ call[c].setCookie = Keep
      /\ \A t \in Tabs : tab[t].user = None /\ tab[t].shown = None /\ ~tab[t].unavailable
  BY <1>1 DEF NoCtx, IdleCall, FreshTab
<1>4. \A s \in Tokens : rows[s].token = NoCookie
  BY DEF Init, SessionsInit
<1>5. IdentityInv
  BY <1>3, <1>4 DEF IdentityInv, UsersInv, ShownIsOwn, CurrentInv, Current, WaitInv
<1>6. CookieInv
  BY <1>1, <1>3 DEF CookieInv, JarInv, ResponseInv, FlightInv, InFlight, Renewal
<1>7. RenewalInv
  BY <1>1, <1>3 DEF RenewalInv, GivenUp, SpentInv, OwnInv, Renewal
<1> QED
  BY <1>0, <1>2, <1>5, <1>6, <1>7 DEF BrowserInv

LEMMA BrowserStep ==
  ASSUME BrowserInv, [Next]_vars
  PROVE  BrowserInv'
<1>1. TypeOK' /\ SessionsInv'
  BY TypeStep
<1>2. IdentityInv'
  BY IdentityStep
<1>3. CookieInv'
  BY CookieStep
<1>4. \A n \in Tokens : SpentInv(n)'
  BY SpentStep
<1>5. RenewalInv'
  BY <1>4, OwnStep DEF RenewalInv, RenewsInv
<1> QED
  BY <1>1, <1>2, <1>3, <1>5 DEF BrowserInv

\* Whatever the tabs, the network and the server do: the calls in flight, what
\* each tab's AuthStore holds, the shared cookie and the rows of the sessions
\* table fit together.
THEOREM BrowserInvariant == Spec => []BrowserInv
<1>1. BrowserInv /\ [Next]_vars => BrowserInv'
  BY BrowserStep
<1> QED
  BY <1>1, BrowserStart, PTL DEF Spec

\* A tab's #refreshAttempt is a renewal of its own, and a slot that is free
\* belongs to nobody.
THEOREM BrowserTypes == Spec => []TypeOK
<1>1. BrowserInv => TypeOK
  BY DEF BrowserInv
<1> QED
  BY <1>1, BrowserInvariant, PTL

\* requestResponse never delivers the answer to a request that was made for
\* another user than the one the tab now has.
THEOREM OnlyOwnDataShown == Spec => []ShownIsOwn
<1>1. BrowserInv => ShownIsOwn
  BY DEF BrowserInv, IdentityInv
<1> QED
  BY <1>1, BrowserInvariant, PTL

\* A request that awaits #refreshAttempt awaits a renewal of its own tab whose
\* answer is still to come, however attempts were superseded.
THEOREM WaitersAreCovered == Spec => []WaitersCovered
<1>1. BrowserInv => WaitersCovered
  BY Awaited DEF BrowserInv, WaitersCovered
<1> QED
  BY <1>1, BrowserInvariant, PTL

\* renewToken answers the only holder of a token: the cookie can be renewed
\* unless its session was blocked or a Set-Cookie was lost.
THEOREM JarStaysRenewable == Spec => []JarRenewable
<1>1. ASSUME BrowserInv PROVE JarRenewable
  <2>1. ASSUME NEW c \in Calls, InFlight(c) PROVE call[c].stage = "answered"
    BY <1>1, <2>1, NotInFlight DEF BrowserInv
  <2> QED
    BY <1>1, <2>1 DEF BrowserInv, CookieInv, JarInv, JarRenewable
<1> QED
  BY <1>1, BrowserInvariant, PTL

\* tryRefresh shares one attempt among all who ask, and a sign-out outdates it:
\* no page presents a token that it redeemed before.
THEOREM OwnTokenIsSpentOnce == Spec => []OwnTokenSpentOnce
<1>1. ASSUME BrowserInv, NEW c \in Calls, Resolved(c, "renew"), ~Stale(c), call[c].code = "denied"
      PROVE  sessionOf[ctx[c].cookie] \in dropped \/ spentBy[ctx[c].cookie] # ctx[c].tab
  <2>1. Renewal(c) /\ call[c].stage = "answered"
    BY <1>1 DEF Resolved, Renewal
  <2>2. ctx[c].cookie # NoCookie
    BY <1>1, <2>1 DEF BrowserInv, CookieInv, ResponseInv
  <2> QED
    BY <1>1, <2>1, <2>2 DEF BrowserInv, RenewalInv, OwnInv
<1>2. BrowserInv => OwnTokenSpentOnce
  BY <1>1 DEF OwnTokenSpentOnce
<1> QED
  BY <1>2, BrowserInvariant, PTL

\* Only the answer to a sign-in or to a renewal signs a tab in, and never one
\* of a request that a sign-out left behind.
LEMMA SignInStep ==
  ASSUME BrowserInv, Next, NEW t \in Tabs, tab[t].user = None, tab'[t].user # None
  PROVE  \E c \in Calls : /\ ctx[c].tab = t /\ call[c].kind \in {"login", "renew"}
                          /\ call'[c].stage = "idle" /\ ~ctx[c].old
<1>0. TypeOK /\ SessionsInv /\ IdentityInv /\ CookieInv /\ tab \in [Tabs -> Tab]
  BY DEF BrowserInv, TypeOK
<1>1. ASSUME NEW c \in Calls, ctx[c].tab = t, ~Stale(c), call[c].kind \in {"login", "renew"}, Ends(c)
      PROVE  \E e \in Calls : /\ ctx[e].tab = t /\ call[e].kind \in {"login", "renew"}
                              /\ call'[e].stage = "idle" /\ ~ctx[e].old
  BY <1>0, <1>1 DEF IdentityInv, CurrentInv, Current, Ends, IdleCall
<1>2. ASSUME NEW u \in Tabs, NEW c \in Calls,
             \/ Load(u, c) \/ ClickLogout(u, c) \/ LoadData(u, c) \/ RetryRefresh(u, c)
             \/ \E user \in Users : SubmitLogin(u, c, user)
      PROVE  FALSE
  <2>1. (\A v \in Tabs \ {u} : tab'[v] = tab[v]) /\ tab'[u].user \in {None, tab[u].user}
    <3>1. CASE Load(u, c)
      BY <1>0, <3>1, LoadEffect
    <3>2. CASE ClickLogout(u, c)
      BY <1>0, <3>2, ClickLogoutEffect
    <3>3. CASE LoadData(u, c)
      BY <1>0, <3>3, LoadDataEffect
    <3>4. CASE RetryRefresh(u, c)
      BY <1>0, <3>4, RetryRefreshEffect
    <3>5. CASE \E user \in Users : SubmitLogin(u, c, user)
      BY <1>0, <3>5, SubmitLoginEffect
    <3> QED
      BY <1>2, <3>1, <3>2, <3>3, <3>4, <3>5
  <2> QED
    BY <2>1
<1>3. ASSUME NEW c \in Calls, ApplyRefresh(c)
      PROVE  ctx[c].tab = t /\ ~Stale(c) /\ call[c].kind \in {"login", "renew"} /\ Ends(c)
  BY <1>0, <1>3, ApplyRefreshEffect
<1>4. ASSUME NEW c \in Calls, ApplyLogin(c) \/ ApplyLogout(c) \/ ApplyData(c)
      PROVE  ctx[c].tab = t /\ ~Stale(c) /\ call[c].kind \in {"login", "renew"} /\ Ends(c)
  BY <1>0, <1>4, AnswerEffect DEF Answered
<1>5. ASSUME NEW c \in Calls, NEW d \in Calls, AwaitRefresh(c, d)
      PROVE  FALSE
  BY <1>0, <1>5, AwaitEffect
<1>6. ASSUME NEW c \in Calls,
             \/ Resume(c) \/ StoreCookie(c) \/ Discard(c)
             \/ ServeCall(c) \/ FailCall(c) \/ LoseResponse(c) \/ LoseBody(c)
      PROVE  FALSE
  <2>1. tab' = tab
    BY <1>0, <1>6, ResumeEffect, StoreCookieEffect, DiscardEffect, ServerEffect
  <2> QED
    BY <2>1
<1>7. ~ExpireCookie
  BY <1>0, ExpireEffect
<1> QED
  BY <1>1, <1>2, <1>3, <1>4, <1>5, <1>6, <1>7 DEF Next, Progress

\* #generation and the sign-out of a tab: a late answer does not sign it in
\* again.
THEOREM SignedOutStaysSo == Spec => NoResurrection
<1>1. BrowserInv /\ [Next]_vars =>
        [\A t \in Tabs :
           tab[t].user = None /\ tab'[t].user # None =>
             \E c \in Calls : /\ ctx[c].tab = t /\ call[c].kind \in {"login", "renew"}
                              /\ call'[c].stage = "idle" /\ ~ctx[c].old]_vars
  BY SignInStep
<1> QED
  BY <1>1, BrowserInvariant, PTL DEF Spec, NoResurrection

-----------------------------------------------------------------------------
(* The browsers are clients of Sessions.                                   *)

\* What the tabs and the network do is what Sessions allows its clients, so
\* all that was proved of the session endpoints holds with the tabs around them.
THEOREM BrowserRefinesSessions == Spec => SessionsSpec
<1>1. Init => SessionsInit
  BY DEF Init
<1>2. BrowserInv /\ [Next]_vars => [SessionsNext]_sessionVars
  BY SessionsStep DEF BrowserInv
<1> QED
  BY <1>1, <1>2, BrowserInvariant, PTL DEF Spec, SessionsSpec

\* renewToken rotates the tokens of the tabs' sessions in one chain each.
THEOREM BrowserTokensChain == Spec => []TokensChain
BY BrowserRefinesSessions, TokensFormChains, PTL

\* logoutUser ends the session a tab signs out of, for every tab.
THEOREM BrowserSignOutIsFinal == Spec => SignOutIsFinal
BY BrowserRefinesSessions, SignOutEndsSession, PTL
=============================================================================
