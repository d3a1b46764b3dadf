----------------------------- MODULE Registration -----------------------------
(***************************************************************************)
(* Registration and e-mail verification: createUser with CreateUserTx,     *)
(* resendVerifyEmail, verifyEmail with VerifyEmailTx, and River's work on  *)
(* the jobs these handlers insert.                                         *)
(*                                                                         *)
(* A call is a process with one action per statement; a slot is free again *)
(* when its call ends.  What a transaction has written is implied by its   *)
(* step and reaches the tables at its commit.  Calls that are answered at  *)
(* once and change nothing have no action: a name that is taken, a user    *)
(* who needs no verification, a malformed link.  Times are ticks of one    *)
(* clock.  A link in a mail is the only source of its secret code.         *)
(***************************************************************************)
EXTENDS Naturals, FiniteSets

CONSTANTS
  Usernames, Emails,
  Bodies,         \* the registrations asked for
  Calls,          \* slots for HTTP requests
  Period,         \* UniqueOpts.ByPeriod of the job: 15 minutes
  NoticePeriod,   \*   of the notice's: an hour
  Lifetime,       \* expired_at - created_at of a code: 15 minutes
  MaxAttempts,    \* River's: 25
  MaxCodes,       \* bound: codes at a time
  MaxTime,        \* bound on the clock
  None

ASSUME BodiesAssumption == Bodies \subseteq [username : Usernames, email : Emails]
ASSUME PeriodsAssumption == {Period, NoticePeriod, MaxAttempts} \subseteq Nat \ {0}
ASSUME LifetimeAssumption == Lifetime \in Nat /\ Period <= Lifetime
ASSUME BoundsAssumption == {MaxCodes, MaxTime} \subseteq Nat
ASSUME NoneAssumption == None \notin Usernames \union Emails

VARIABLES
  now,
  email,      \* users: the address of each username, None if there is no row
  verified,   \*   and those with is_email_verified
  codes,      \* verify_emails: the rows,
  used,       \*   and the ids of those with is_used
  jobs,       \* River's jobs that mail a code, by unique key,
  notices,    \*   and those that mail a notice
  inbox,      \* the codes whose link was mailed
  call        \* what each slot is doing

tables == <<email, verified, codes, used, jobs, notices, inbox>>
vars == <<now, tables, call>>

-----------------------------------------------------------------------------
(* Jobs.                                                                   *)

JobKey == [user : Usernames, bucket : 0 .. MaxTime \div Period]

Stages == {"none", "available", "running", "coded", "sent", "completed", "discarded"}
Working == {"running", "coded", "sent"}
Live == Working \union {"available"}
Job == [stage : Stages, attempt : 0 .. MaxAttempts, code : Nat]

Over(stage) == [stage |-> stage, attempt |-> 0, code |-> 0]
NoJob == Over("none")

\* InsertOpts: the arguments and the period make the job's unique key.
Key(u, t) == [user |-> u, bucket |-> t \div Period]

\* A job is inserted unless one with its key exists in any state but discarded.
Insert(k) ==
  [jobs EXCEPT ![k] = IF @.stage \in {"none", "discarded"}
                        THEN [NoJob EXCEPT !.stage = "available"] ELSE @]

\* The notice to an address that is taken, and the hour it was asked for.  Its
\* job changes no table, so it is worked in one step; one whose attempts are
\* spent is as good as none.
NoticeKey == [email : Emails, hour : 0 .. MaxTime \div NoticePeriod]

-----------------------------------------------------------------------------
(* Calls.                                                                  *)

Idle == [op |-> "idle"]
Free(c) == call[c] = Idle
At(c, op, step) == call[c].op = op /\ call[c].step = step
Goto(c, step) == call' = [call EXCEPT ![c].step = step]
End(c) == call' = [call EXCEPT ![c] = Idle]

\* The request's timeout, a cancelled context, a lost connection or a crash:
\* an open transaction is rolled back.
Fail(c) == ~Free(c) /\ End(c) /\ UNCHANGED <<now, tables>>

Registering == [op : {"register"}, step : {"queue"}, username : Usernames, email : Emails]
Resending == [op : {"resend"}, step : {"queue"}, username : Usernames]
Noticing == [op : {"notice"}, step : {"queue"}, email : Emails]
Verifying == [op : {"verify"}, step : {"update", "user"}, code : Nat, began : Nat]

-----------------------------------------------------------------------------
(* createUser.                                                             *)

\* The transactions that have inserted a user and not ended.
Inserting(c) == At(c, "register", "queue")

\* The insert of b waits for a transaction that has inserted its name or address.
InsertWaits(b) ==
  \E d \in Calls : Inserting(d) /\ (call[d].username = b.username \/ call[d].email = b.email)

\* A committed row has the address.
Taken(e) == \E u \in Usernames : email[u] = e

\* CreateUser, under two unique indexes.
Register(c, b) ==
  /\ Free(c) /\ ~InsertWaits(b)
  /\ email[b.username] = None /\ ~Taken(b.email)
  /\ call' = [call EXCEPT ![c] = [op |-> "register", step |-> "queue",
                                 username |-> b.username, email |-> b.email]]
  /\ UNCHANGED <<now, tables>>

\* Defect: the user is committed before the job is inserted.
CommitThenQueue(c) ==
  LET r == call[c] IN
  /\ At(c, "register", "queue")
  /\ email' = [email EXCEPT ![r.username] = r.email]
  /\ call' = [call EXCEPT ![c] = [op |-> "resend", step |-> "queue", username |-> r.username]]
  /\ UNCHANGED <<now, verified, codes, used, jobs, notices, inbox>>

\* AfterCreate's InsertTx, and the commit of the user with the job.
QueueAndCommit(c) ==
  LET r == call[c] IN
  /\ At(c, "register", "queue")
  /\ email' = [email EXCEPT ![r.username] = r.email]
  /\ jobs' = Insert(Key(r.username, now))
  /\ End(c)
  /\ UNCHANGED <<now, verified, codes, used, notices, inbox>>

\* Defect: an insert that meets another does not wait for its outcome.
NoticeUncommitted(c, b) ==
  /\ Free(c)
  /\ email[b.username] = None /\ (InsertWaits(b) \/ Taken(b.email))
  /\ call' = [call EXCEPT ![c] = [op |-> "notice", step |-> "queue", email |-> b.email]]
  /\ UNCHANGED <<now, tables>>

\* CreateUser fails with ErrEmailExists.  (A name that is taken is found first,
\* and of that nobody is told.)
EmailExists(c, b) ==
  /\ Free(c) /\ ~InsertWaits(b)
  /\ email[b.username] = None /\ Taken(b.email)
  /\ call' = [call EXCEPT ![c] = [op |-> "notice", step |-> "queue", email |-> b.email]]
  /\ UNCHANGED <<now, tables>>

\* queueRegistrationNotice.
QueueNotice(c) ==
  /\ At(c, "notice", "queue")
  /\ notices' = [notices EXCEPT
       ![[email |-> call[c].email, hour |-> now \div NoticePeriod]] =
         IF @ = "none" THEN "queued" ELSE @]
  /\ End(c)
  /\ UNCHANGED <<now, email, verified, codes, used, jobs, inbox>>

-----------------------------------------------------------------------------
(* resendVerifyEmail.                                                      *)

\* GetUserByEmail.
Resend(c, e) ==
  /\ Free(c)
  /\ \E u \in Usernames \ verified :
       /\ email[u] = e
       /\ call' = [call EXCEPT ![c] = [op |-> "resend", step |-> "queue", username |-> u]]
  /\ UNCHANGED <<now, tables>>

QueueResend(c) ==
  /\ At(c, "resend", "queue")
  /\ jobs' = Insert(Key(call[c].username, now))
  /\ End(c)
  /\ UNCHANGED <<now, email, verified, codes, used, notices, inbox>>

-----------------------------------------------------------------------------
(* The worker.                                                             *)

Advance(k, stage) == jobs' = [jobs EXCEPT ![k].stage = stage]

\* Defect: a job that failed is not worked again.
FetchFirstOnly(k) ==
  /\ jobs[k].stage = "available" /\ jobs[k].attempt = 0
  /\ jobs' = [jobs EXCEPT ![k].stage = "running", ![k].attempt = @ + 1]
  /\ UNCHANGED <<now, email, verified, codes, used, notices, inbox, call>>

Fetch(k) ==
  /\ jobs[k].stage = "available"
  /\ jobs' = [jobs EXCEPT ![k].stage = "running", ![k].attempt = @ + 1]
  /\ UNCHANGED <<now, email, verified, codes, used, notices, inbox, call>>

CodesOf(u) == {v \in codes : v.user = u}

\* Defect: a code lives shorter than the period of the job.
ExpiryShort(t) == t + Period - 1

\* The default of expired_at.
Expiry(t) == t + Lifetime

\* GetUser and CreateVerifyEmail.
CreateVerifyEmail(k) ==
  LET n == CHOOSE i \in 1 .. MaxCodes : \A v \in codes : v.id # i IN
  /\ jobs[k].stage = "running"
  /\ Cardinality(codes) < MaxCodes
  /\ codes' = codes \union {[id |-> n, user |-> k.user, expires |-> Expiry(now)]}
  /\ jobs' = [jobs EXCEPT ![k].stage = "coded", ![k].code = n]
  /\ UNCHANGED <<now, email, verified, used, notices, inbox, call>>

Send(k) ==
  /\ jobs[k].stage = "coded"
  /\ inbox' = inbox \union {jobs[k].code}
  /\ Advance(k, "sent")
  /\ UNCHANGED <<now, email, verified, codes, used, notices, call>>

Complete(k) ==
  /\ jobs[k].stage = "sent"
  /\ jobs' = [jobs EXCEPT ![k] = Over("completed")]
  /\ UNCHANGED <<now, email, verified, codes, used, notices, inbox, call>>

\* Defect: the attempts are not limited.
WorkFailsUnlimited(k) ==
  /\ jobs[k].stage \in Working
  /\ jobs' = [jobs EXCEPT ![k].code = 0, ![k].stage = "available"]
  /\ codes' = {v \in codes : v.id = jobs[k].code => v.id \in inbox}
  /\ UNCHANGED <<now, email, verified, used, notices, inbox, call>>

\* An error, the job's timeout, or a crash, also after the mail was sent: River
\* schedules the job again until its attempts are spent.  A code that was made
\* and not mailed is forgotten with the attempt: nobody can present it.
WorkFails(k) ==
  /\ jobs[k].stage \in Working
  /\ jobs' = [jobs EXCEPT ![k] =
       IF @.attempt < MaxAttempts THEN [@ EXCEPT !.stage = "available", !.code = 0]
                                  ELSE Over("discarded")]
  /\ codes' = {v \in codes : v.id = jobs[k].code => v.id \in inbox}
  /\ UNCHANGED <<now, email, verified, used, notices, inbox, call>>

\* The notice is sent, or every attempt failed.
WorkNotice(k) ==
  /\ notices[k] = "queued"
  /\ \E stage \in {"completed", "none"} : notices' = [notices EXCEPT ![k] = stage]
  /\ UNCHANGED <<now, email, verified, codes, used, jobs, inbox, call>>

-----------------------------------------------------------------------------
(* verifyEmail and VerifyEmailTx.                                          *)

UserOf(n) == (CHOOSE v \in codes : v.id = n).user

\* A link in a mail is opened.
Open(c, n) ==
  /\ Free(c)
  /\ call' = [call EXCEPT ![c] = [op |-> "verify", step |-> "update", code |-> n, began |-> now]]
  /\ UNCHANGED <<now, tables>>

\* A transaction that holds the lock of a code's row.
HoldsCode(d, n) == call[d].op = "verify" /\ call[d].step # "update" /\ call[d].code = n

Redeemable(n, t) == n \notin used /\ \E v \in codes : v.id = n /\ v.expires > t

\* Defect: the code is read first and marked later.
UpdateUnlocked(c) ==
  /\ At(c, "verify", "update")
  /\ IF Redeemable(call[c].code, call[c].began) THEN Goto(c, "user") ELSE End(c)
  /\ UNCHANGED <<now, tables>>

\* UpdateVerifyEmail waits for the row's lock and then looks at the row again;
\* its now() is the start of the transaction.
UpdateVerifyEmail(c) ==
  /\ At(c, "verify", "update")
  /\ \A d \in Calls \ {c} : ~HoldsCode(d, call[c].code)
  /\ IF Redeemable(call[c].code, call[c].began) THEN Goto(c, "user") ELSE End(c)
  /\ UNCHANGED <<now, tables>>

\* VerifyUserEmail, and the commit of both rows.
VerifyUserEmail(c) ==
  /\ At(c, "verify", "user")
  /\ used' = used \union {call[c].code}
  /\ verified' = verified \union {UserOf(call[c].code)}
  /\ End(c)
  /\ UNCHANGED <<now, email, codes, jobs, notices, inbox>>
-----------------------------------------------------------------------------
Tick == now < MaxTime /\ now' = now + 1 /\ UNCHANGED <<tables, call>>

Init ==
  /\ now = 0
  /\ email = [u \in Usernames |-> None] /\ verified = {}
  /\ codes = {} /\ used = {} /\ inbox = {}
  /\ jobs = [k \in JobKey |-> NoJob]
  /\ notices = [k \in NoticeKey |-> "none"]
  /\ call = [c \in Calls |-> Idle]

Serve(c) ==
  \/ QueueAndCommit(c)
  \/ QueueNotice(c) \/ QueueResend(c)
  \/ UpdateVerifyEmail(c) \/ VerifyUserEmail(c)

Work(k) == Fetch(k) \/ CreateVerifyEmail(k) \/ Send(k) \/ Complete(k)

Next ==
  \/ \E c \in Calls :
       \/ \E b \in Bodies : Register(c, b) \/ EmailExists(c, b)
       \/ \E e \in Emails : Resend(c, e)
       \/ \E n \in inbox : Open(c, n)
       \/ Serve(c) \/ Fail(c)
  \/ \E k \in JobKey : Work(k) \/ WorkFails(k)
  \/ \E k \in NoticeKey : WorkNotice(k)
  \/ Tick

Spec == Init /\ [][Next]_vars

\* River works its jobs.  Mail servers and workers may fail: every attempt may.
FairSpec == Spec /\ \A k \in JobKey : WF_vars(Work(k))
-----------------------------------------------------------------------------
(* Properties.                                                             *)

TypeOK ==
  /\ now \in 0 .. MaxTime
  /\ email \in [Usernames -> Emails \union {None}] /\ verified \subseteq Usernames
  /\ codes \subseteq [id : Nat, user : Usernames, expires : Nat]
  /\ used \subseteq {v.id : v \in codes} /\ inbox \subseteq {v.id : v \in codes}
  /\ jobs \in [JobKey -> Job]
  /\ call \in [Calls -> {Idle} \union Registering \union Resending \union Noticing
                       \union Verifying]
  /\ notices \in [NoticeKey -> {"none", "queued", "completed"}]

JobsOf(u) == {jobs[k] : k \in {k \in JobKey : k.user = u}}
Mailed(u) == \E v \in CodesOf(u) : v.id \in inbox
LiveJob(u) == \E j \in JobsOf(u) : j.stage \in Live
Discarded(u) == \E j \in JobsOf(u) : j.stage = "discarded"

\* CreateUserTx queues the mail in the user's own transaction: whoever is
\* registered has been mailed a code or has a job that will, unless every
\* attempt of a job failed.
CodeOnItsWay ==
  \A u \in Usernames : email[u] # None => Mailed(u) \/ LiveJob(u) \/ Discarded(u)

\* A resend that River drops as a duplicate deprives nobody: as long as the
\* completed job of the current period stands in the way of a new one, a code
\* that was mailed to the user can still be redeemed.
DuplicateCovered ==
  \A u \in Usernames \ verified :
    jobs[Key(u, now)].stage = "completed" =>
      \E v \in CodesOf(u) : v.id \in inbox /\ Redeemable(v.id, now)

\* Only who has an account is told of an attempt to register under his address:
\* one that meets another waits for its outcome, and that may be none.
NoticeToOwner == \A k \in NoticeKey : notices[k] # "none" => Taken(k.email)

\* What registration and resending owe to whom they mail.
MailOwed == CodeOnItsWay /\ DuplicateCovered /\ NoticeToOwner

\* A code is redeemed once, however many calls present it at once, and only by
\* a call that began before its expiry; retried jobs may have made others.
CodeRedeemedOnce ==
  [][\A c \in Calls :
       At(c, "verify", "user") /\ VerifyUserEmail(c) =>
         Redeemable(call[c].code, call[c].began)]_vars

\* A registered user is mailed a code in the end, though jobs fail and are
\* retried, unless every attempt of a job failed.
CodeArrives == \A u \in Usernames : email[u] # None ~> Mailed(u) \/ Discarded(u)
=============================================================================
