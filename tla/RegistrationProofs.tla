------------------------- MODULE RegistrationProofs --------------------------
(***************************************************************************)
(* Proofs about Registration: a code is redeemed once, whoever is          *)
(* registered is sent one, and only the owner of an address is told of an  *)
(* attempt to register under it.                                           *)
(*                                                                         *)
(* The invariant has one part for each table that calls and jobs share.    *)
(***************************************************************************)
EXTENDS Registration, FiniteSetTheorems, TLAPS

USE BodiesAssumption, PeriodsAssumption, LifetimeAssumption, BoundsAssumption, NoneAssumption

-----------------------------------------------------------------------------
(* The invariant.                                                          *)

Redeeming(c) == At(c, "verify", "user")

\* The rows of users: an insert under way has its name and address to itself,
\* and a notice is queued for an address that somebody has.
UsersInv ==
  /\ \A c \in Calls : Inserting(c) => email[call[c].username] = None /\ ~Taken(call[c].email)
  /\ \A c, d \in Calls : c # d /\ Inserting(c) /\ Inserting(d) =>
       call[c].username # call[d].username /\ call[c].email # call[d].email
  /\ \A c \in Calls : call[c].op = "notice" => Taken(call[c].email)

\* The rows of verify_emails: identified by their numbers, and a redeemed code
\* was mailed and has verified its user.
CodesInv ==
  /\ IsFiniteSet(codes)
  /\ \A v \in codes : v.id # 0
  /\ \A v, w \in codes : v.id = w.id => v = w
  /\ used \subseteq inbox
  /\ \A v \in codes : v.id \in used => v.user \in verified

\* The calls that present a code: the lock on its row admits one at a time.
RedeemInv ==
  /\ \A c \in Calls : call[c].op = "verify" => call[c].code \in inbox
  /\ \A c \in Calls : Redeeming(c) => Redeemable(call[c].code, call[c].began)
  /\ \A c, d \in Calls : c # d /\ Redeeming(c) /\ Redeeming(d) => call[c].code # call[d].code

\* Code v can be presented as long as a job of k's period would be a duplicate.
Outlives(v, k) == \A t \in Nat : t \div Period = k.bucket => t < v.expires

Made(v, k) == v.user = k.user /\ Outlives(v, k)

\* The jobs: what each has made and mailed.
JobsInv ==
  /\ \A k \in JobKey :
       /\ jobs[k].stage # "none" => k.bucket <= now \div Period
       /\ jobs[k].stage = "available" => jobs[k].attempt < MaxAttempts
       /\ jobs[k].stage \in {"available", "running"} => jobs[k].code = 0
       /\ jobs[k].stage \in {"coded", "sent"} =>
            \E v \in codes : v.id = jobs[k].code /\ Made(v, k)
       /\ jobs[k].stage = "coded" => jobs[k].code \notin inbox
       /\ jobs[k].stage = "sent" => jobs[k].code \in inbox
       /\ jobs[k].stage = "completed" => \E v \in codes : v.id \in inbox /\ Made(v, k)
  /\ \A k, l \in JobKey : k # l /\ jobs[k].stage = "coded" /\ jobs[l].stage = "coded" =>
       jobs[k].code # jobs[l].code

\* A code was mailed to u, or a job will mail one or was given up.
Sought(u) ==
  Mailed(u) \/ \E k \in JobKey : k.user = u /\ jobs[k].stage \in Live \union {"discarded"}

RegistrationInv ==
  /\ TypeOK
  /\ UsersInv /\ CodesInv /\ RedeemInv /\ JobsInv
  /\ \A u \in Usernames : email[u] # None => Sought(u)
  /\ NoticeToOwner
-----------------------------------------------------------------------------
(* Facts about the clock and the operators.                                *)

LEMMA BucketType ==
  ASSUME NEW t \in Nat, NEW p \in Nat \ {0}
  PROVE  t \div p \in Nat
OBVIOUS

LEMMA BucketGrows ==
  ASSUME NEW p \in Nat \ {0}, NEW t \in Nat, NEW n \in Nat, t <= n
  PROVE  t \div p <= n \div p
BY SMTT(30)

\* An instant of the present period or of an earlier one is less than a period
\* ahead.
LEMMA BucketWidth ==
  ASSUME NEW p \in Nat \ {0}, NEW t \in Nat, NEW n \in Nat, t \div p <= n \div p
  PROVE  t < n + p
BY SMTT(30)

\* The keys of the present are keys.
LEMMA KeyType ==
  ASSUME now \in 0 .. MaxTime, NEW u \in Usernames
  PROVE  Key(u, now) \in JobKey
<1>1. now \in Nat /\ MaxTime \in Nat /\ now <= MaxTime /\ Period \in Nat \ {0}
  OBVIOUS
<1>2. now \div Period \in Nat /\ MaxTime \div Period \in Nat
      /\ now \div Period <= MaxTime \div Period
  BY <1>1, BucketType, BucketGrows
<1> QED
  BY <1>2 DEF Key, JobKey

LEMMA NoticeKeyType ==
  ASSUME now \in 0 .. MaxTime, NEW e \in Emails
  PROVE  [email |-> e, hour |-> now \div NoticePeriod] \in NoticeKey
<1>1. now \in Nat /\ MaxTime \in Nat /\ now <= MaxTime /\ NoticePeriod \in Nat \ {0}
  OBVIOUS
<1>2. now \div NoticePeriod \in Nat /\ MaxTime \div NoticePeriod \in Nat
      /\ now \div NoticePeriod <= MaxTime \div NoticePeriod
  BY <1>1, BucketType, BucketGrows
<1> QED
  BY <1>2 DEF NoticeKey

\* There is a number for another code.
LEMMA FreshCode ==
  ASSUME IsFiniteSet(codes), Cardinality(codes) < MaxCodes
  PROVE  \E i \in 1 .. MaxCodes : \A v \in codes : v.id # i
<1> SUFFICES ASSUME \A i \in 1 .. MaxCodes : \E v \in codes : v.id = i
             PROVE  FALSE
  OBVIOUS
<1> DEFINE f == [i \in 1 .. MaxCodes |-> CHOOSE v \in codes : v.id = i]
<1>1. f \in [1 .. MaxCodes -> codes] /\ \A i \in 1 .. MaxCodes : f[i].id = i
  OBVIOUS
<1>2. Cardinality(codes) \in Nat /\ MaxCodes \in Nat /\ MaxCodes > 0
  BY FS_CardinalityType
<1>3. IsFiniteSet(1 .. MaxCodes) /\ Cardinality(1 .. MaxCodes) = MaxCodes
  BY <1>2, FS_Interval
<1>4. \E i, j \in 1 .. MaxCodes : i # j /\ f[i] = f[j]
  <2> HIDE DEF f
  <2> QED
    BY <1>1, <1>3, FS_PigeonHole
<1> QED
  BY <1>1, <1>4

LEMMA MailedIs ==
  ASSUME NEW u
  PROVE  Mailed(u) <=> \E v \in codes : v.user = u /\ v.id \in inbox
BY DEF Mailed, CodesOf

-----------------------------------------------------------------------------
(* Types.                                                                  *)

CallType == {Idle} \union Registering \union Resending \union Noticing \union Verifying

LEMMA InitType == Init => TypeOK
BY DEF Init, TypeOK, NoJob, Over, Job, Stages

\* A call that is begun or goes on.
LEMMA CallTypes ==
  ASSUME TypeOK, NEW c \in Calls
  PROVE  /\ call[c] \in CallType
         /\ call[c].op \in {"register", "resend"} => call[c].username \in Usernames
         /\ call[c].op \in {"register", "notice"} => call[c].email \in Emails
         /\ call[c].op = "verify" => call[c].code \in Nat /\ call[c].began \in Nat
BY DEF TypeOK, CallType, Idle, Registering, Resending, Noticing, Verifying

LEMMA VerifyGoesOn ==
  ASSUME TypeOK, NEW c \in Calls, call[c].op = "verify"
  PROVE  LET r == [call[c] EXCEPT !.step = "user"]
         IN  r.op = "verify" /\ r.step = "user" /\ r.code = call[c].code /\ r.began = call[c].began
<1>1. call[c] \in Verifying
  BY CallTypes DEF CallType, Idle, Registering, Resending, Noticing, Verifying
<1> QED
  BY <1>1 DEF Verifying

LEMMA InsertType ==
  ASSUME TypeOK, NEW u \in Usernames
  PROVE  Insert(Key(u, now)) \in [JobKey -> Job]
<1>1. Over("available") \in Job /\ \A k \in JobKey : jobs[k] \in Job
  BY DEF TypeOK, Over, Job, Stages
<1>2. [NoJob EXCEPT !.stage = "available"] = Over("available")
  BY DEF NoJob, Over
<1> QED
  BY <1>1, <1>2 DEF TypeOK, Insert

LEMMA CallStepType ==
  ASSUME TypeOK, RedeemInv, NEW c \in Calls,
         \/ \E b \in Bodies : Register(c, b) \/ EmailExists(c, b)
         \/ \E e \in Emails : Resend(c, e)
         \/ \E n \in inbox : Open(c, n)
         \/ Serve(c) \/ Fail(c)
  PROVE  TypeOK'
<1> USE CallTypes
<1>1. ASSUME NEW b \in Bodies, Register(c, b) PROVE TypeOK'
  BY <1>1 DEF TypeOK, Register, tables, Registering
<1>2. ASSUME NEW b \in Bodies, EmailExists(c, b) PROVE TypeOK'
  BY <1>2 DEF TypeOK, EmailExists, tables, Noticing
<1>3. ASSUME NEW e \in Emails, Resend(c, e) PROVE TypeOK'
  BY <1>3 DEF TypeOK, Resend, tables, Resending
<1>4. ASSUME NEW n \in inbox, Open(c, n) PROVE TypeOK'
  BY <1>4 DEF TypeOK, Open, tables, Verifying
<1>5. CASE QueueAndCommit(c)
  BY <1>5, InsertType DEF TypeOK, QueueAndCommit, At, End
<1>6. CASE QueueNotice(c)
  BY <1>6 DEF TypeOK, QueueNotice, At, End
<1>7. CASE QueueResend(c)
  BY <1>7, InsertType DEF TypeOK, QueueResend, At, End
<1>8. CASE UpdateVerifyEmail(c)
  BY <1>8 DEF TypeOK, UpdateVerifyEmail, At, Goto, End, tables, CallType, Verifying,
              Idle, Registering, Resending, Noticing
<1>9. CASE VerifyUserEmail(c)
  <2>1. call[c].code \in inbox
    BY <1>9 DEF VerifyUserEmail, At, RedeemInv
  <2>2. \E v \in codes : v.id = call[c].code
    BY <2>1 DEF TypeOK
  <2>3. UserOf(call[c].code) \in Usernames
    BY <2>2 DEF UserOf, TypeOK
  <2> QED
    BY <1>9, <2>2, <2>3 DEF TypeOK, VerifyUserEmail, At, End
<1>10. CASE Fail(c)
  BY <1>10 DEF TypeOK, Fail, End, tables
<1> QED
  BY <1>1, <1>2, <1>3, <1>4, <1>5, <1>6, <1>7, <1>8, <1>9, <1>10 DEF Serve

\* The number CreateVerifyEmail gives a code.
FreshId == CHOOSE i \in 1 .. MaxCodes : \A v \in codes : v.id # i

LEMMA FreshIdIs ==
  ASSUME CodesInv, Cardinality(codes) < MaxCodes
  PROVE  FreshId \in 1 .. MaxCodes /\ \A v \in codes : v.id # FreshId
BY FreshCode DEF FreshId, CodesInv

LEMMA JobStepType ==
  ASSUME TypeOK, CodesInv, JobsInv, NEW k \in JobKey, Work(k) \/ WorkFails(k)
  PROVE  TypeOK'
<1>1. jobs[k] \in Job
  BY DEF TypeOK
<1>2. CASE Fetch(k)
  <2>1. jobs[k].attempt + 1 \in 0 .. MaxAttempts
    BY <1>1, <1>2 DEF Fetch, JobsInv, Job
  <2> QED
    BY <1>1, <1>2, <2>1 DEF TypeOK, Fetch, Job, Stages
<1>3. CASE CreateVerifyEmail(k)
  <2>1. FreshId \in Nat /\ Expiry(now) \in Nat /\ k.user \in Usernames
    BY <1>3, FreshIdIs DEF CreateVerifyEmail, Expiry, TypeOK, JobKey
  <2>2. /\ codes' = codes \union {[id |-> FreshId, user |-> k.user, expires |-> Expiry(now)]}
        /\ jobs' = [jobs EXCEPT ![k].stage = "coded", ![k].code = FreshId]
        /\ UNCHANGED <<now, email, verified, used, notices, inbox, call>>
    BY <1>3 DEF CreateVerifyEmail, FreshId
  <2>3. jobs' \in [JobKey -> Job]
    BY <1>1, <2>1, <2>2 DEF TypeOK, Job, Stages
  <2>4. codes \subseteq codes' /\ codes' \subseteq [id : Nat, user : Usernames, expires : Nat]
    BY <2>1, <2>2 DEF TypeOK
  <2>5. used' \subseteq {v.id : v \in codes'} /\ inbox' \subseteq {v.id : v \in codes'}
    BY <2>2, <2>4 DEF TypeOK
  <2> QED
    BY <2>2, <2>3, <2>4, <2>5 DEF TypeOK
<1>4. CASE Send(k)
  <2>1. \E v \in codes : v.id = jobs[k].code
    BY <1>4 DEF Send, JobsInv
  <2> QED
    BY <1>1, <1>4, <2>1 DEF TypeOK, Send, Advance, Job, Stages
<1>5. CASE Complete(k)
  BY <1>1, <1>5 DEF TypeOK, Complete, Over, Job, Stages
<1>6. CASE WorkFails(k)
  <2>1. jobs' \in [JobKey -> Job]
    <3>1. [jobs[k] EXCEPT !.stage = "available", !.code = 0] \in Job
      BY <1>1 DEF Job, Stages
    <3>2. Over("discarded") \in Job
      BY DEF Over, Job, Stages
    <3> QED
      BY <1>6, <3>1, <3>2 DEF TypeOK, WorkFails
  <2>2. codes' \subseteq codes /\ \A v \in codes : v.id \in inbox => v \in codes'
    BY <1>6 DEF WorkFails
  <2>3. used \subseteq {v.id : v \in codes'} /\ inbox \subseteq {v.id : v \in codes'}
    BY <2>2 DEF TypeOK, CodesInv
  <2> QED
    BY <1>6, <2>1, <2>2, <2>3 DEF TypeOK, WorkFails
<1> QED
  BY <1>2, <1>3, <1>4, <1>5, <1>6 DEF Work

LEMMA NextType ==
  ASSUME TypeOK, CodesInv, RedeemInv, JobsInv, [Next]_vars
  PROVE  TypeOK'
<1>1. CASE UNCHANGED vars
  BY <1>1 DEF vars, tables, TypeOK
<1>2. ASSUME NEW k \in NoticeKey, WorkNotice(k) PROVE TypeOK'
  BY <1>2 DEF TypeOK, WorkNotice
<1>3. CASE Tick
  BY <1>3 DEF TypeOK, Tick, tables
<1> QED
  BY <1>1, <1>2, <1>3, CallStepType, JobStepType DEF Next

-----------------------------------------------------------------------------
(* The rows of users, and notices.                                         *)

\* Only a registration writes to users, and only where there is no row.
LEMMA EmailChanges ==
  ASSUME TypeOK, UsersInv, [Next]_vars
  PROVE  \/ UNCHANGED email
         \/ \E c \in Calls : /\ QueueAndCommit(c)
                             /\ email[call[c].username] = None /\ call[c].username \in Usernames
                             /\ email' = [email EXCEPT ![call[c].username] = call[c].email]
BY CallTypes DEF Next, vars, tables, Register, EmailExists, Resend, Open, Serve, QueueAndCommit,
   QueueNotice, QueueResend, UpdateVerifyEmail, VerifyUserEmail, Fail, Work, Fetch,
   CreateVerifyEmail, Send, Complete, WorkFails, WorkNotice, Tick, UsersInv, Inserting, At

\* Rows of users are never withdrawn.
LEMMA TakenStays ==
  ASSUME TypeOK, UsersInv, [Next]_vars, NEW e \in Emails, \E u \in Usernames : email[u] = e
  PROVE  \E u \in Usernames : email'[u] = e
BY EmailChanges DEF Taken, TypeOK

\* What a step does to the calls: one is begun, goes on or ends.
LEMMA CallChanges ==
  ASSUME [Next]_vars
  PROVE  \/ UNCHANGED call
         \/ \E c \in Calls : call' = [call EXCEPT ![c] = Idle]
         \/ \E c \in Calls : At(c, "verify", "update") /\ call' = [call EXCEPT ![c].step = "user"]
         \/ \E c \in Calls, b \in Bodies : Register(c, b) \/ EmailExists(c, b)
         \/ \E c \in Calls, e \in Emails : Resend(c, e)
         \/ \E c \in Calls, n \in inbox : Open(c, n)
BY DEF Next, vars, Serve, QueueAndCommit, QueueNotice, QueueResend, UpdateVerifyEmail,
   VerifyUserEmail, Fail, Work, Fetch, CreateVerifyEmail, Send, Complete, WorkFails,
   WorkNotice, Tick, Goto, End

LEMMA NextUsers ==
  ASSUME TypeOK, UsersInv, [Next]_vars
  PROVE  UsersInv'
<1> USE CallTypes
<1>1. ASSUME UNCHANGED email,
             \A c \in Calls : \/ call'[c] = call[c]
                              \/ call'[c].op \in {"idle", "resend", "verify"}
      PROVE  UsersInv'
  BY <1>1 DEF UsersInv, Inserting, At, Taken
<1>2. ASSUME NEW c \in Calls, QueueAndCommit(c) PROVE UsersInv'
  <2>1. \A d \in Calls : call'[d] = IF d = c THEN Idle ELSE call[d]
    BY <1>2 DEF QueueAndCommit, End, TypeOK
  <2>2. /\ Inserting(c)
        /\ \A u \in Usernames : email'[u] = IF u = call[c].username THEN call[c].email ELSE email[u]
    BY <1>2 DEF QueueAndCommit, Inserting, TypeOK
  <2>3. \A d \in Calls : Inserting(d)' =>
          d # c /\ Inserting(d) /\ call'[d] = call[d] /\ call[d].op = "register"
    BY <2>1 DEF Inserting, At, Idle
  <2>4. ASSUME NEW d \in Calls, Inserting(d)'
        PROVE  email'[call'[d].username] = None /\ ~Taken(call[d].email)'
    <3>1. /\ d # c /\ Inserting(d) /\ call'[d] = call[d]
          /\ call[d].username \in Usernames
          /\ call[d].username # call[c].username /\ call[d].email # call[c].email
      BY <2>2, <2>3, <2>4 DEF UsersInv
    <3>2. email[call[d].username] = None /\ ~Taken(call[d].email)
      BY <3>1 DEF UsersInv
    <3> QED
      BY <2>2, <3>1, <3>2 DEF Taken
  <2>5. \A d \in Calls : call'[d].op = "notice" => Taken(call[d].email)'
    <3>1. \A d \in Calls : call'[d].op = "notice" => call'[d] = call[d] /\ Taken(call[d].email)
      BY <2>1 DEF UsersInv, Idle
    <3>2. \A d \in Calls : call'[d].op = "notice" => call[d].email \in Emails
      BY <3>1
    <3> QED
      BY <3>1, <3>2, TakenStays DEF Taken
  <2>6. ASSUME NEW d \in Calls, NEW e \in Calls, d # e, Inserting(d)', Inserting(e)'
        PROVE  call'[d].username # call'[e].username /\ call'[d].email # call'[e].email
    BY <2>3, <2>6 DEF UsersInv
  <2> QED
    BY <2>4, <2>5, <2>6 DEF UsersInv
<1>3. ASSUME NEW c \in Calls, NEW b \in Bodies, Register(c, b) PROVE UsersInv'
  BY <1>3 DEF UsersInv, Register, InsertWaits, Inserting, At, Taken, tables, TypeOK
<1>4. ASSUME NEW c \in Calls, NEW b \in Bodies, EmailExists(c, b) PROVE UsersInv'
  BY <1>4 DEF UsersInv, EmailExists, Inserting, At, Taken, tables, TypeOK
<1>5. ASSUME NEW c \in Calls, NEW e \in Emails, Resend(c, e) PROVE UsersInv'
  <2>1. UNCHANGED email /\ \A d \in Calls : call'[d] = call[d] \/ call'[d].op = "resend"
    BY <1>5 DEF Resend, tables, TypeOK
  <2> QED
    BY <1>1, <2>1
<1>6. ASSUME NEW c \in Calls, NEW n \in inbox, Open(c, n) PROVE UsersInv'
  <2>1. UNCHANGED email /\ \A d \in Calls : call'[d] = call[d] \/ call'[d].op = "verify"
    BY <1>6 DEF Open, tables, TypeOK
  <2> QED
    BY <1>1, <2>1
<1>7. CASE /\ UNCHANGED email
           /\ \/ UNCHANGED call
              \/ \E c \in Calls : call' = [call EXCEPT ![c] = Idle]
              \/ \E c \in Calls : At(c, "verify", "update") /\ call' = [call EXCEPT ![c].step = "user"]
  <2>1. \A d \in Calls : call'[d] = call[d] \/ call'[d].op \in {"idle", "verify"}
    <3>1. CASE \E c \in Calls : call' = [call EXCEPT ![c] = Idle]
      BY <3>1 DEF TypeOK, Idle
    <3>2. ASSUME NEW c \in Calls, At(c, "verify", "update"),
                 call' = [call EXCEPT ![c].step = "user"]
          PROVE  \A d \in Calls : call'[d] = call[d] \/ call'[d].op = "verify"
      <4>1. call[c].op = "verify"
        BY <3>2 DEF At
      <4>2. call'[c].op = "verify" /\ \A d \in Calls \ {c} : call'[d] = call[d]
        BY <3>2, <4>1, VerifyGoesOn DEF TypeOK
      <4> QED
        BY <4>2
    <3> QED
      BY <1>7, <3>1, <3>2
  <2> QED
    BY <1>1, <1>7, <2>1
<1> QED
  BY <1>2, <1>3, <1>4, <1>5, <1>6, <1>7, CallChanges, EmailChanges

-----------------------------------------------------------------------------
(* Codes and the calls that redeem them.                                   *)

\* What a step does to the codes: only codes that were not mailed are
\* forgotten, and what is mailed or used stays so.
LEMMA CodesChange ==
  ASSUME [Next]_vars
  PROVE  /\ \A v \in codes : v.id \in inbox => v \in codes'
         /\ inbox \subseteq inbox' /\ used \subseteq used' /\ verified \subseteq verified'
         /\ \/ codes' \subseteq codes
            \/ \E k \in JobKey : CreateVerifyEmail(k)
<1>1. ASSUME NEW k \in JobKey, WorkFails(k)
      PROVE  (\A v \in codes : v.id \in inbox => v \in codes') /\ codes' \subseteq codes
  BY <1>1 DEF WorkFails
<1>2. \/ UNCHANGED codes
      \/ \E k \in JobKey : CreateVerifyEmail(k) \/ WorkFails(k)
  BY DEF Next, vars, tables, Register, EmailExists, Resend, Open, Serve, QueueAndCommit,
     QueueNotice, QueueResend, UpdateVerifyEmail, VerifyUserEmail, Fail, Work, Fetch,
     Send, Complete, WorkNotice, Tick
<1>3. inbox \subseteq inbox' /\ used \subseteq used' /\ verified \subseteq verified'
  BY DEF Next, vars, tables, Register, EmailExists, Resend, Open, Serve, QueueAndCommit,
     QueueNotice, QueueResend, UpdateVerifyEmail, VerifyUserEmail, Fail, Work, Fetch,
     CreateVerifyEmail, Send, Complete, WorkFails, WorkNotice, Tick
<1> QED
  BY <1>1, <1>2, <1>3 DEF CreateVerifyEmail

\* Only VerifyUserEmail uses a code.
LEMMA UsedChanges ==
  ASSUME [Next]_vars
  PROVE  \/ UNCHANGED <<used, verified>>
         \/ \E c \in Calls : VerifyUserEmail(c)
BY DEF Next, vars, tables, Register, EmailExists, Resend, Open, Serve, QueueAndCommit,
   QueueNotice, QueueResend, UpdateVerifyEmail, Fail, Work, Fetch,
   CreateVerifyEmail, Send, Complete, WorkFails, WorkNotice, Tick

LEMMA NextCodes ==
  ASSUME TypeOK, CodesInv, RedeemInv, [Next]_vars
  PROVE  CodesInv'
<1>1. ASSUME NEW k \in JobKey, CreateVerifyEmail(k)
      PROVE  CodesInv'
  <2> DEFINE v == [id |-> FreshId, user |-> k.user, expires |-> Expiry(now)]
  <2>1. codes' = codes \union {v} /\ UNCHANGED <<used, inbox, verified>>
    BY <1>1 DEF CreateVerifyEmail, FreshId
  <2>2. v.id # 0 /\ \A w \in codes : w.id # v.id
    BY <1>1, FreshIdIs DEF CreateVerifyEmail
  <2>3. IsFiniteSet(codes')
    BY <2>1, FS_AddElement DEF CodesInv
  <2>4. v.id \notin used
    BY <2>2 DEF TypeOK
  <2> QED
    BY <2>1, <2>2, <2>3, <2>4 DEF CodesInv
<1>2. ASSUME NEW c \in Calls, VerifyUserEmail(c)
      PROVE  CodesInv'
  <2>1. /\ used' = used \union {call[c].code}
        /\ verified' = verified \union {UserOf(call[c].code)}
        /\ UNCHANGED <<codes, inbox>>
        /\ call[c].code \in inbox
    BY <1>2 DEF VerifyUserEmail, RedeemInv, At
  <2>2. \A v \in codes : v.id = call[c].code => v.user = UserOf(call[c].code)
    BY DEF CodesInv, UserOf
  <2> QED
    BY <2>1, <2>2 DEF CodesInv
<1>3. ASSUME codes' \subseteq codes, UNCHANGED <<used, verified>>
      PROVE  CodesInv'
  <2>1. IsFiniteSet(codes')
    BY <1>3, FS_Subset DEF CodesInv
  <2> QED
    BY <1>3, <2>1, CodesChange DEF CodesInv
<1> QED
  BY <1>1, <1>2, <1>3, CodesChange, UsedChanges

LEMMA NextRedeem ==
  ASSUME TypeOK, CodesInv, RedeemInv, [Next]_vars
  PROVE  RedeemInv'
<1> USE CallTypes
<1>1. \A n \in inbox, t \in Nat :
        Redeemable(n, t) => n \in used' \/ Redeemable(n, t)'
  BY CodesChange DEF Redeemable
<1>2. ASSUME \A d \in Calls : call'[d].op = "verify" =>
               /\ call'[d].code \in inbox
               /\ call'[d].step = "user" => Redeeming(d) /\ call'[d] = call[d]
             ,UNCHANGED used
      PROVE  RedeemInv'
  <2>1. inbox \subseteq inbox'
    BY CodesChange
  <2>2. \A d \in Calls : Redeeming(d)' => Redeeming(d) /\ call'[d] = call[d] /\ call[d].code \in inbox
    BY <1>2 DEF Redeeming, At
  <2>3. \A d \in Calls : Redeeming(d)' => Redeemable(call[d].code, call[d].began)'
    BY <1>1, <1>2, <2>2 DEF RedeemInv, Redeeming, At, Redeemable
  <2> QED
    BY <1>2, <2>1, <2>2, <2>3 DEF RedeemInv
<1>3. ASSUME NEW c \in Calls, VerifyUserEmail(c) PROVE RedeemInv'
  <2>1. /\ Redeeming(c) /\ used' = used \union {call[c].code} /\ UNCHANGED <<codes, inbox>>
        /\ \A d \in Calls : call'[d] = IF d = c THEN Idle ELSE call[d]
    BY <1>3 DEF VerifyUserEmail, Redeeming, End, TypeOK
  <2>2. \A d \in Calls : call'[d].op = "verify" => d # c /\ call'[d] = call[d]
    BY <2>1 DEF Idle
  <2>3. \A d \in Calls : Redeeming(d)' =>
          Redeeming(d) /\ call'[d] = call[d] /\ call[d].code # call[c].code
    BY <2>1, <2>2 DEF Redeeming, At, RedeemInv
  <2>4. \A d \in Calls : Redeeming(d)' => Redeemable(call[d].code, call[d].began)'
    BY <2>1, <2>3 DEF RedeemInv, Redeemable
  <2> QED
    BY <2>1, <2>2, <2>3, <2>4 DEF RedeemInv
<1>4. ASSUME NEW c \in Calls, UpdateVerifyEmail(c) PROVE RedeemInv'
  <2>1. UNCHANGED tables /\ At(c, "verify", "update")
    BY <1>4 DEF UpdateVerifyEmail
  <2>2. CASE End(c)
    <3>1. UNCHANGED used /\ \A d \in Calls : call'[d] = IF d = c THEN Idle ELSE call[d]
      BY <2>1, <2>2 DEF End, TypeOK, tables
    <3> QED
      BY <1>2, <3>1 DEF Idle, Redeeming, At, RedeemInv
  <2>3. CASE Goto(c, "user") /\ Redeemable(call[c].code, call[c].began)
    <3>1. /\ \A d \in Calls \ {c} : call'[d] = call[d]
          /\ call'[c] = [call[c] EXCEPT !.step = "user"] /\ call[c].op = "verify"
      BY <2>1, <2>3 DEF Goto, At, TypeOK
    <3>2. call'[c].code = call[c].code /\ call'[c].began = call[c].began
      BY <3>1, VerifyGoesOn
    <3>3. \A d \in Calls \ {c} : Redeeming(d) => call[d].code # call[c].code
      <4>1. \A d \in Calls \ {c} : ~HoldsCode(d, call[c].code)
        BY <1>4 DEF UpdateVerifyEmail
      <4> QED
        BY <4>1 DEF HoldsCode, Redeeming, At
    <3>4. UNCHANGED <<used, codes, inbox>>
      BY <2>1 DEF tables
    <3>5. \A d \in Calls : call'[d].op = "verify" => call'[d].code \in inbox'
      BY <3>1, <3>2, <3>4 DEF RedeemInv
    <3>6. \A d \in Calls : Redeeming(d)' => d = c \/ Redeeming(d)
      BY <3>1 DEF Redeeming, At
    <3>7. \A d \in Calls : Redeeming(d)' => Redeemable(call'[d].code, call'[d].began)
      BY <2>3, <3>1, <3>2, <3>6 DEF RedeemInv
    <3>8. \A d, e \in Calls : d # e /\ Redeeming(d)' /\ Redeeming(e)' => call'[d].code # call'[e].code
      <4>1. ASSUME NEW d \in Calls, NEW e \in Calls, d # e, Redeeming(d)', Redeeming(e)'
            PROVE  call'[d].code # call'[e].code
        <5>1. CASE d = c
          <6>1. Redeeming(e) /\ e # c
            BY <3>6, <4>1, <5>1
          <6>2. call'[e] = call[e] /\ call[e].code # call[c].code
            BY <3>1, <3>3, <6>1
          <6> QED
            BY <3>2, <5>1, <6>2
        <5>2. CASE e = c
          <6>1. Redeeming(d) /\ d # c
            BY <3>6, <4>1, <5>2
          <6>2. call'[d] = call[d] /\ call[d].code # call[c].code
            BY <3>1, <3>3, <6>1
          <6> QED
            BY <3>2, <5>2, <6>2
        <5>3. CASE d # c /\ e # c
          <6>1. Redeeming(d) /\ Redeeming(e) /\ call'[d] = call[d] /\ call'[e] = call[e]
            BY <3>1, <3>6, <4>1, <5>3
          <6> QED
            BY <4>1, <6>1 DEF RedeemInv
        <5> QED
          BY <5>1, <5>2, <5>3
      <4> QED
        BY <4>1
    <3> QED
      BY <3>4, <3>5, <3>7, <3>8 DEF RedeemInv, Redeemable
  <2> QED
    BY <1>4, <2>2, <2>3 DEF UpdateVerifyEmail
<1>5. ASSUME NEW c \in Calls, NEW r, r.op = "verify" => r.code \in inbox /\ r.step = "update",
             call' = [call EXCEPT ![c] = r], UNCHANGED used
      PROVE  RedeemInv'
  <2>1. \A d \in Calls : call'[d] = IF d = c THEN r ELSE call[d]
    BY <1>5 DEF TypeOK
  <2> QED
    BY <1>2, <1>5, <2>1 DEF Redeeming, At, RedeemInv
<1>6. CASE UNCHANGED call /\ UNCHANGED used
  BY <1>2, <1>6 DEF Redeeming, At, RedeemInv
<1>7. CASE UNCHANGED used /\ \E c \in Calls : call' = [call EXCEPT ![c] = Idle]
  BY <1>5, <1>7 DEF Idle
<1>8. ASSUME NEW c \in Calls, NEW b \in Bodies, Register(c, b) \/ EmailExists(c, b) PROVE RedeemInv'
  BY <1>5, <1>8 DEF Register, EmailExists, tables
<1>9. ASSUME NEW c \in Calls, NEW e \in Emails, Resend(c, e) PROVE RedeemInv'
  BY <1>5, <1>9 DEF Resend, tables
<1>10. ASSUME NEW c \in Calls, NEW n \in inbox, Open(c, n) PROVE RedeemInv'
  BY <1>5, <1>10 DEF Open, tables
<1>11. \/ UNCHANGED call \/ \E c \in Calls : call' = [call EXCEPT ![c] = Idle]
       \/ \E c \in Calls : UpdateVerifyEmail(c) \/ VerifyUserEmail(c)
       \/ \E c \in Calls, b \in Bodies : Register(c, b) \/ EmailExists(c, b)
       \/ \E c \in Calls, e \in Emails : Resend(c, e)
       \/ \E c \in Calls, n \in inbox : Open(c, n)
  BY DEF Next, vars, Serve, QueueAndCommit, QueueNotice, QueueResend, Fail, Work, Fetch,
     CreateVerifyEmail, Send, Complete, WorkFails, WorkNotice, Tick, End
<1> QED
  BY <1>3, <1>4, <1>6, <1>7, <1>8, <1>9, <1>10, <1>11, UsedChanges

-----------------------------------------------------------------------------
(* Jobs.                                                                   *)

\* What Insert does to the jobs: one that is there stays unless it was given
\* up, and otherwise there is a new one.
LEMMA InsertIs ==
  ASSUME TypeOK, NEW u \in Usernames
  PROVE  \A k \in JobKey : Insert(Key(u, now))[k] =
           IF k = Key(u, now) /\ jobs[k].stage \in {"none", "discarded"}
             THEN Over("available") ELSE jobs[k]
<1>1. [NoJob EXCEPT !.stage = "available"] = Over("available")
  BY DEF NoJob, Over
<1> QED
  BY <1>1 DEF TypeOK, Insert

\* Which jobs a step touches.
LEMMA JobsChange ==
  ASSUME TypeOK, [Next]_vars
  PROVE  \/ UNCHANGED <<jobs, codes, inbox>>
         \/ \E u \in Usernames : jobs' = Insert(Key(u, now)) /\ UNCHANGED <<now, codes, inbox>>
         \/ \E k \in JobKey : Work(k) \/ WorkFails(k)
BY CallTypes DEF Next, vars, tables, Register, EmailExists, Resend, Open, Serve, QueueAndCommit,
   QueueNotice, QueueResend, UpdateVerifyEmail, VerifyUserEmail, Fail, WorkNotice, Tick, At

\* A code of this moment covers the period of any job there is.
LEMMA CodeOutlives ==
  ASSUME TypeOK, NEW k \in JobKey, k.bucket <= now \div Period,
         NEW v, v.expires = Expiry(now)
  PROVE  Outlives(v, k)
<1> SUFFICES ASSUME NEW t \in Nat, t \div Period = k.bucket
             PROVE  t < now + Lifetime
  BY DEF Outlives, Expiry
<1>1. now \in Nat /\ Period \in Nat \ {0}
  BY DEF TypeOK
<1>2. t < now + Period
  BY <1>1, BucketWidth
<1> QED
  BY <1>1, <1>2

LEMMA ClockGrows ==
  ASSUME TypeOK, [Next]_vars
  PROVE  now \in Nat /\ now' \in Nat /\ now <= now' /\ now \div Period <= now' \div Period
<1>1. now \in Nat
  BY DEF TypeOK
<1>2. now' = now \/ now' = now + 1
  BY DEF Next, vars, tables, Register, EmailExists, Resend, Open, Serve, QueueAndCommit,
     QueueNotice, QueueResend, UpdateVerifyEmail, VerifyUserEmail, Fail, Work, Fetch,
     CreateVerifyEmail, Send, Complete, WorkFails, WorkNotice, Tick
<1> QED
  BY <1>1, <1>2, BucketGrows

LEMMA NextJobs ==
  ASSUME TypeOK, CodesInv, JobsInv, [Next]_vars
  PROVE  JobsInv'
<1> DEFINE J(k) == /\ jobs[k].stage # "none" => k.bucket <= now \div Period
                   /\ jobs[k].stage = "available" => jobs[k].attempt < MaxAttempts
                   /\ jobs[k].stage \in {"available", "running"} => jobs[k].code = 0
                   /\ jobs[k].stage \in {"coded", "sent"} =>
                        \E v \in codes : v.id = jobs[k].code /\ Made(v, k)
                   /\ jobs[k].stage = "coded" => jobs[k].code \notin inbox
                   /\ jobs[k].stage = "sent" => jobs[k].code \in inbox
                   /\ jobs[k].stage = "completed" => \E v \in codes : v.id \in inbox /\ Made(v, k)
           Distinct == \A k, l \in JobKey :
                         k # l /\ jobs[k].stage = "coded" /\ jobs[l].stage = "coded" =>
                           jobs[k].code # jobs[l].code
<1>0. JobsInv <=> (\A k \in JobKey : J(k)) /\ Distinct
  BY DEF JobsInv
<1> HIDE DEF Distinct
\* A job that is not touched, when no code it has made is forgotten or mailed
\* by another.
<1>1. ASSUME NEW k \in JobKey, jobs'[k] = jobs[k],
             \A v \in codes : v.id \in inbox \/ (jobs[k].stage = "coded" /\ v.id = jobs[k].code) => v \in codes',
             jobs[k].stage = "coded" => jobs[k].code \notin inbox'
      PROVE  J(k)'
  <2>1. J(k) /\ inbox \subseteq inbox'
    BY <1>0, CodesChange
  <2>2. k.bucket <= now \div Period => k.bucket <= now' \div Period
    <3>1. k.bucket \in Nat /\ now \div Period \in Nat /\ now' \div Period \in Nat
      BY ClockGrows, BucketType DEF JobKey
    <3> QED
      BY <3>1, ClockGrows
  <2> QED
    BY <1>1, <2>1, <2>2 DEF Made, Outlives
\* The jobs that are under way do not lose their codes to another's failure.
<1>2. ASSUME NEW k \in JobKey, Work(k) \/ WorkFails(k), NEW l \in JobKey, l # k
      PROVE  J(l)'
  <2>1. jobs'[l] = jobs[l]
    BY <1>2 DEF Work, WorkFails, Fetch, CreateVerifyEmail, Send, Complete, Advance, TypeOK
  <2>2. ASSUME NEW v \in codes, v.id \in inbox \/ (jobs[l].stage = "coded" /\ v.id = jobs[l].code)
        PROVE  v \in codes'
    <3>1. CASE Work(k)
      BY <3>1 DEF Work, Fetch, CreateVerifyEmail, Send, Complete
    <3>2. CASE WorkFails(k) /\ v.id \notin inbox
      <4>1. v.id # jobs[k].code
        BY <2>2, <3>2, <1>0, <1>2 DEF WorkFails, Working, CodesInv, Distinct
      <4> QED
        BY <3>2, <4>1 DEF WorkFails
    <3> QED
      BY <1>2, <3>1, <3>2, CodesChange
  <2>3. jobs[l].stage = "coded" => jobs[l].code \notin inbox'
    <3>1. \/ inbox' = inbox
          \/ jobs[k].stage = "coded" /\ inbox' = inbox \union {jobs[k].code}
      BY <1>2 DEF Work, WorkFails, Fetch, CreateVerifyEmail, Send, Complete
    <3> QED
      BY <3>1, <1>0, <1>2 DEF Distinct
  <2> HIDE DEF J
  <2> QED
    BY <1>1, <2>1, <2>2, <2>3
\* The codes of the jobs under way differ when that of a new one does.
<1>3. ASSUME NEW k \in JobKey, \A l \in JobKey \ {k} : jobs'[l] = jobs[l],
             jobs'[k].stage = "coded" =>
               \A l \in JobKey \ {k} : jobs[l].stage = "coded" => jobs[l].code # jobs'[k].code
      PROVE  Distinct'
  BY <1>0, <1>3 DEF Distinct
<1>4. ASSUME NEW k \in JobKey, Work(k) \/ WorkFails(k)
      PROVE  J(k)' /\ Distinct'
  <2>1. \A l \in JobKey \ {k} : jobs'[l] = jobs[l]
    BY <1>4 DEF Work, WorkFails, Fetch, CreateVerifyEmail, Send, Complete, Advance, TypeOK
  <2>2. J(k) /\ jobs[k] \in Job /\ jobs \in [JobKey -> Job]
    BY <1>0 DEF TypeOK
  <2>3. CASE Fetch(k)
    <3>1. jobs'[k].stage = "running" /\ jobs'[k].code = jobs[k].code
      BY <2>2, <2>3 DEF Fetch, Job
    <3>2. J(k)'
      BY <2>2, <2>3, <3>1 DEF Fetch
    <3> QED
      BY <1>3, <2>1, <3>1, <3>2
  <2>4. CASE CreateVerifyEmail(k)
    <3> DEFINE v == [id |-> FreshId, user |-> k.user, expires |-> Expiry(now)]
    <3>1. codes' = codes \union {v} /\ UNCHANGED <<inbox, now>>
      BY <2>4 DEF CreateVerifyEmail, FreshId
    <3>2. jobs'[k].stage = "coded" /\ jobs'[k].code = FreshId /\ jobs[k].stage = "running"
      BY <2>2, <2>4 DEF CreateVerifyEmail, FreshId, Job
    <3>3. \A w \in codes : w.id # FreshId
      BY <2>4, FreshIdIs DEF CreateVerifyEmail
    <3>4. Made(v, k)
      BY <2>2, <3>2, CodeOutlives DEF Made
    <3>5. FreshId \notin inbox
      BY <3>3 DEF TypeOK
    <3>6. J(k)'
      BY <2>2, <3>1, <3>2, <3>4, <3>5 DEF Made, Outlives
    <3>7. \A l \in JobKey : jobs[l].stage = "coded" => jobs[l].code # FreshId
      BY <1>0, <3>3
    <3> QED
      BY <1>3, <2>1, <3>2, <3>6, <3>7
  <2>5. CASE Send(k)
    <3>1. /\ jobs'[k].stage = "sent" /\ jobs'[k].code = jobs[k].code /\ jobs[k].stage = "coded"
          /\ inbox' = inbox \union {jobs[k].code} /\ UNCHANGED <<codes, now>>
      BY <2>2, <2>5 DEF Send, Advance, Job
    <3>2. J(k)'
      BY <2>2, <3>1 DEF Made, Outlives
    <3> QED
      BY <1>3, <2>1, <3>1, <3>2
  <2>6. CASE Complete(k)
    <3>1. jobs'[k].stage = "completed" /\ jobs[k].stage = "sent" /\ UNCHANGED <<codes, inbox, now>>
      BY <2>2, <2>6 DEF Complete, Over
    <3>2. J(k)'
      BY <2>2, <3>1 DEF Made, Outlives
    <3> QED
      BY <1>3, <2>1, <3>1, <3>2
  <2>7. CASE WorkFails(k)
    <3>1. \/ /\ jobs'[k].stage = "available" /\ jobs'[k].code = 0
             /\ jobs'[k].attempt = jobs[k].attempt /\ jobs[k].attempt < MaxAttempts
          \/ jobs'[k].stage = "discarded"
      BY <2>2, <2>7 DEF WorkFails, Over, Job
    <3>2. jobs[k].stage # "none" /\ now' = now
      BY <2>7 DEF WorkFails, Working
    <3>3. J(k)'
      BY <2>2, <3>1, <3>2
    <3> QED
      BY <1>3, <2>1, <3>1, <3>3
  <2> QED
    BY <1>4, <2>3, <2>4, <2>5, <2>6, <2>7 DEF Work
\* A job that is inserted anew.
<1>5. ASSUME NEW u \in Usernames, jobs' = Insert(Key(u, now)), UNCHANGED <<now, codes, inbox>>
      PROVE  (\A k \in JobKey : J(k)') /\ Distinct'
  <2>1. \A k \in JobKey :
          \/ jobs'[k] = jobs[k]
          \/ k.bucket = now \div Period /\ jobs'[k] = Over("available")
    BY <1>5, InsertIs DEF Key
  <2>2. ASSUME NEW k \in JobKey PROVE J(k)'
    <3>1. CASE jobs'[k] = jobs[k]
      BY <1>0, <1>5, <3>1 DEF Made, Outlives
    <3>2. CASE k.bucket = now \div Period /\ jobs'[k] = Over("available")
      <4>1. jobs'[k].stage = "available" /\ jobs'[k].code = 0 /\ jobs'[k].attempt = 0
        BY <3>2 DEF Over
      <4>2. k.bucket <= now' \div Period
        BY <1>5, <3>2 DEF JobKey
      <4> QED
        BY <4>1, <4>2
    <3> QED
      BY <2>1, <3>1, <3>2
  <2>3. \A k \in JobKey : jobs'[k].stage = "coded" => jobs'[k] = jobs[k]
    BY <2>1 DEF Over
  <2>4. Distinct'
    BY <1>0, <2>3 DEF Distinct
  <2> QED
    BY <2>2, <2>4
<1>6. CASE UNCHANGED <<jobs, codes, inbox>>
  <2>1. ASSUME NEW k \in JobKey PROVE J(k)'
    <3>1. /\ jobs'[k] = jobs[k]
          /\ \A v \in codes : v \in codes'
          /\ jobs[k].stage = "coded" => jobs[k].code \notin inbox'
      BY <1>0, <1>6
    <3> HIDE DEF J
    <3> QED
      BY <1>1, <3>1
  <2> QED
    BY <1>0, <1>6, <2>1 DEF Distinct, JobsInv
<1>7. ASSUME NEW k \in JobKey, Work(k) \/ WorkFails(k)
      PROVE  (\A l \in JobKey : J(l)') /\ Distinct'
  <2> HIDE DEF J
  <2> QED
    BY <1>2, <1>4, <1>7
<1> HIDE DEF J
<1>8. JobsInv' <=> (\A k \in JobKey : J(k)') /\ Distinct'
  BY DEF JobsInv, J, Distinct
<1> QED
  BY <1>5, <1>6, <1>7, <1>8, JobsChange

-----------------------------------------------------------------------------
(* Mails and notices.                                                      *)

\* A job that will mail a code does, or is given up.
LEMMA SoughtStays ==
  ASSUME TypeOK, CodesInv, JobsInv, [Next]_vars, NEW u \in Usernames, Sought(u)
  PROVE  Sought(u)'
<1> DEFINE Wanted == Live \union {"discarded"}
<1>1. CASE Mailed(u)
  BY <1>1, MailedIs, CodesChange DEF Sought, Mailed, CodesOf
<1>2. ASSUME NEW k \in JobKey, k.user = u, jobs[k].stage \in Wanted
      PROVE  Sought(u)'
  <2>1. CASE jobs'[k] = jobs[k]
    BY <1>2, <2>1 DEF Sought
  <2>2. ASSUME NEW w \in Usernames, jobs' = Insert(Key(w, now))
        PROVE  jobs'[k].stage \in Wanted
    BY <1>2, <2>2, InsertIs DEF Over, Live
  <2>3. ASSUME NEW l \in JobKey, Work(l) \/ WorkFails(l)
        PROVE  jobs'[k].stage \in Wanted \/ Mailed(u)'
    <3>1. jobs[l] \in Job /\ jobs[k] \in Job
      BY DEF TypeOK
    <3>2. CASE Complete(l) /\ k = l
      <4>1. /\ UNCHANGED <<codes, inbox>>
            /\ \E v \in codes : v.id \in inbox /\ v.user = k.user
        BY <3>2 DEF Complete, JobsInv, Made
      <4> QED
        BY <1>2, <4>1 DEF Mailed, CodesOf
    <3>3. CASE k # l
      BY <1>2, <2>3, <3>3 DEF TypeOK, Work, WorkFails, Fetch, CreateVerifyEmail, Send, Complete,
                              Advance
    <3>4. CASE k = l /\ (Fetch(l) \/ CreateVerifyEmail(l) \/ Send(l))
      BY <3>1, <3>4 DEF TypeOK, Fetch, CreateVerifyEmail, Send, Advance, Job, Live, Working
    <3>5. CASE k = l /\ WorkFails(l)
      BY <3>1, <3>5 DEF TypeOK, WorkFails, Over, Job, Live, Working
    <3> QED
      BY <2>3, <3>2, <3>3, <3>4, <3>5 DEF Work
  <2> QED
    BY <1>2, <2>1, <2>2, <2>3, JobsChange DEF Sought
<1> QED
  BY <1>1, <1>2 DEF Sought

\* The job inserted with the user is one that will mail a code.
LEMMA NextSought ==
  ASSUME TypeOK, UsersInv, CodesInv, JobsInv, [Next]_vars,
         \A u \in Usernames : email[u] # None => Sought(u)
  PROVE  \A u \in Usernames : email'[u] # None => Sought(u)'
<1> SUFFICES ASSUME NEW u \in Usernames, email'[u] # None PROVE Sought(u)'
  OBVIOUS
<1>1. CASE email[u] # None
  BY <1>1, SoughtStays
<1>2. ASSUME NEW c \in Calls, QueueAndCommit(c), email[u] = None
      PROVE  Sought(u)'
  <2>1. call[c].username = u /\ jobs' = Insert(Key(u, now))
    <3>1. /\ email' = [email EXCEPT ![call[c].username] = call[c].email]
          /\ jobs' = Insert(Key(call[c].username, now))
      BY <1>2 DEF QueueAndCommit
    <3> QED
      BY <1>2, <3>1 DEF TypeOK
  <2>2. Key(u, now) \in JobKey /\ Key(u, now).user = u
    BY KeyType DEF TypeOK, Key
  <2> DEFINE k == Key(u, now)
  <2>3. \/ jobs'[k].stage = "available"
        \/ jobs'[k] = jobs[k] /\ jobs[k].stage \in Stages \ {"none", "discarded"}
    <3>1. jobs[k].stage \in Stages
      BY <2>2 DEF TypeOK, Job
    <3>2. jobs'[k] = IF jobs[k].stage \in {"none", "discarded"} THEN Over("available") ELSE jobs[k]
      BY <2>1, <2>2, InsertIs
    <3>3. Over("available").stage = "available"
      BY DEF Over
    <3> HIDE DEF k
    <3> QED
      BY <3>1, <3>2, <3>3
  <2>4. CASE jobs'[k].stage \in Live
    BY <2>2, <2>4 DEF Sought
  <2>5. CASE jobs'[k] = jobs[k] /\ jobs[k].stage = "completed"
    <3>1. \E v \in codes : v.id \in inbox /\ v.user = u
      BY <2>2, <2>5 DEF JobsInv, Made
    <3> QED
      BY <3>1, MailedIs, SoughtStays DEF Sought
  <2> QED
    BY <2>3, <2>4, <2>5 DEF Stages, Live, Working
<1> QED
  BY <1>1, <1>2, EmailChanges

\* A notice is queued by a call that has found the address taken.
LEMMA NextNotices ==
  ASSUME TypeOK, UsersInv, NoticeToOwner, [Next]_vars
  PROVE  NoticeToOwner'
<1>1. ASSUME NEW k \in NoticeKey, Taken(k.email)
      PROVE  Taken(k.email)'
  BY <1>1, TakenStays DEF Taken, NoticeKey
<1>2. ASSUME NEW c \in Calls, QueueNotice(c), NEW k \in NoticeKey, notices'[k] # "none",
             notices[k] = "none"
      PROVE  Taken(k.email)
  <2>1. k.email = call[c].email /\ call[c].op = "notice"
    BY <1>2 DEF QueueNotice, At, TypeOK
  <2> QED
    BY <2>1 DEF UsersInv
<1>3. ASSUME NEW l \in NoticeKey, WorkNotice(l), NEW k \in NoticeKey, notices'[k] # "none"
      PROVE  notices[k] # "none"
  BY <1>3 DEF WorkNotice, TypeOK
<1>4. \/ UNCHANGED notices
      \/ \E c \in Calls : QueueNotice(c)
      \/ \E l \in NoticeKey : WorkNotice(l)
  BY DEF Next, vars, tables, Register, EmailExists, Resend, Open, Serve, QueueAndCommit,
     QueueResend, UpdateVerifyEmail, VerifyUserEmail, Fail, Work, Fetch,
     CreateVerifyEmail, Send, Complete, WorkFails, Tick
<1> QED
  BY <1>1, <1>2, <1>3, <1>4 DEF NoticeToOwner

-----------------------------------------------------------------------------
(* The theorems.                                                           *)

LEMMA InitInv == Init => RegistrationInv
<1> SUFFICES ASSUME Init PROVE RegistrationInv
  OBVIOUS
<1>1. TypeOK
  BY InitType
<1>2. /\ \A c \in Calls : call[c] = Idle
      /\ \A k \in JobKey : jobs[k] = Over("none")
      /\ \A k \in NoticeKey : notices[k] = "none"
      /\ \A u \in Usernames : email[u] = None
      /\ codes = {} /\ used = {} /\ inbox = {}
  BY DEF Init, NoJob
<1>3. UsersInv /\ RedeemInv
  BY <1>2 DEF UsersInv, RedeemInv, Redeeming, Inserting, At, Idle
<1>4. CodesInv
  BY <1>2, FS_EmptySet DEF CodesInv
<1>5. JobsInv
  BY <1>2 DEF JobsInv, Over
<1> QED
  BY <1>1, <1>2, <1>3, <1>4, <1>5 DEF RegistrationInv, NoticeToOwner

LEMMA NextInv == RegistrationInv /\ [Next]_vars => RegistrationInv'
<1> SUFFICES ASSUME RegistrationInv, [Next]_vars PROVE RegistrationInv'
  OBVIOUS
<1>1. /\ TypeOK /\ UsersInv /\ CodesInv /\ RedeemInv /\ JobsInv /\ NoticeToOwner
      /\ \A u \in Usernames : email[u] # None => Sought(u)
  BY DEF RegistrationInv
<1>2. TypeOK' /\ UsersInv' /\ CodesInv' /\ RedeemInv' /\ JobsInv' /\ NoticeToOwner'
  BY <1>1, NextType, NextUsers, NextCodes, NextRedeem, NextJobs, NextNotices
<1>3. \A u \in Usernames : email'[u] # None => Sought(u)'
  BY <1>1, NextSought
<1> QED
  BY <1>2, <1>3 DEF RegistrationInv

\* What calls and jobs keep of the tables they share: rows of users have one
\* owner, a code is held by one redeemer, and a job has made the code it mails.
THEOREM RegistrationInvariant == Spec => []RegistrationInv
BY InitInv, NextInv, PTL DEF Spec

\* The variables have their types.
THEOREM RegistrationType == Spec => []TypeOK
<1>1. RegistrationInv => TypeOK
  BY DEF RegistrationInv
<1> QED
  BY <1>1, RegistrationInvariant, PTL

\* The job queued with the user mails a code, or is retried, or every attempt
\* failed; a duplicate of a completed job deprives nobody of a code, because a
\* code lives at least as long as the period in which the duplicate is dropped;
\* and a notice goes to an address that somebody has.
THEOREM MailIsOwed == Spec => []MailOwed
<1>1. ASSUME RegistrationInv PROVE CodeOnItsWay
  <2> SUFFICES ASSUME NEW u \in Usernames, email[u] # None
               PROVE  Mailed(u) \/ LiveJob(u) \/ Discarded(u)
    BY DEF CodeOnItsWay
  <2>1. Sought(u)
    BY <1>1 DEF RegistrationInv
  <2>2. ASSUME NEW k \in JobKey, k.user = u PROVE jobs[k] \in JobsOf(u)
    BY <2>2 DEF JobsOf
  <2> QED
    BY <2>1, <2>2 DEF Sought, LiveJob, Discarded
<1>2. ASSUME RegistrationInv PROVE DuplicateCovered
  <2> SUFFICES ASSUME NEW u \in Usernames \ verified, jobs[Key(u, now)].stage = "completed"
               PROVE  \E v \in CodesOf(u) : v.id \in inbox /\ Redeemable(v.id, now)
    BY DEF DuplicateCovered
  <2>1. TypeOK /\ CodesInv /\ JobsInv /\ now \in Nat
    BY <1>2 DEF RegistrationInv, TypeOK
  <2>2. Key(u, now) \in JobKey /\ Key(u, now).user = u /\ Key(u, now).bucket = now \div Period
    BY <2>1, KeyType DEF TypeOK, Key
  <2>3. PICK v \in codes : v.id \in inbox /\ Made(v, Key(u, now))
    BY <2>1, <2>2 DEF JobsInv
  <2>4. v.user = u /\ now < v.expires
    BY <2>1, <2>2, <2>3 DEF Made, Outlives
  <2>5. v.id \notin used
    BY <2>1, <2>4 DEF CodesInv
  <2>6. v.expires > now
    BY <2>1, <2>4 DEF TypeOK
  <2> QED
    BY <2>3, <2>4, <2>5, <2>6 DEF CodesOf, Redeemable
<1>3. RegistrationInv => MailOwed
  BY <1>1, <1>2 DEF RegistrationInv, MailOwed
<1> QED
  BY <1>3, RegistrationInvariant, PTL

\* A code that two calls present at once is redeemed by one of them: the lock
\* on its row admits one, and the other finds it used.
THEOREM CodeIsRedeemedOnce == Spec => CodeRedeemedOnce
<1> DEFINE Once == \A c \in Calls : At(c, "verify", "user") /\ VerifyUserEmail(c) =>
                     Redeemable(call[c].code, call[c].began)
<1>1. RegistrationInv => Once
  BY DEF RegistrationInv, RedeemInv, Redeeming
<1>2. RegistrationInv /\ [Next]_vars => [Once]_vars
  BY <1>1
<1> QED
  BY <1>2, RegistrationInvariant, PTL DEF Spec, CodeRedeemedOnce
=============================================================================
