-------------------------- MODULE TransfersProofs ---------------------------
(***************************************************************************)
(* Proofs about Transfers.  InductiveInv is preserved by every action; the *)
(* answers, the locks, the retries and the step simulation that makes      *)
(* Transfers implement Ledger follow from it.  BooksInv, on top of it, says*)
(* what is staged and what is recorded: the sums of the books, the daily   *)
(* limit and the notifications follow from both.                           *)
(***************************************************************************)
EXTENDS Transfers, FiniteSetTheorems, TLAPS

USE DEF InTx, Labels, Replies, MutableRefusals, Checked, Locked, Decided,
        Inserted, Debited, Credited, Pass, Limit

-----------------------------------------------------------------------------
(* Facts about the data.                                                   *)

\* The body of an accepted request is a well-formed transfer request.
LEMMA BodyType ==
  ASSUME TypeOK, NEW r \in Requests, pc[r] # "idle"
  PROVE  req[r] \in Intents /\ req[r] \in Intent
BY IntentsAssumption DEF TypeOK

\* A row a transaction inserts, once its amount has passed the edge checks.
LEMMA RowType ==
  ASSUME TypeOK, NEW r \in Requests, pc[r] # "idle", req[r].amount <= MaxSafe
  PROVE  Row(r) \in TransferRow
<1>1. req[r] \in Intent
  BY BodyType
<1> QED
  BY <1>1, LimitsAssumption DEF Row, TransferRow, Intent, TypeOK

\* An empty transaction is well typed.
LEMMA EmptyTxType == EmptyTx \in Tx
BY DEF EmptyTx, Tx

\* What a statement sees of a balance is a balance.
LEMMA VisibleType ==
  ASSUME TypeOK, NEW r \in Requests, NEW a \in Accounts
  PROVE  Visible(r, a) \in 0 .. MaxSafe
BY DEF TypeOK, Visible, Tx

-----------------------------------------------------------------------------
(* Sums.  The properties add amounts up with a fold that takes an element  *)
(* of its choice at every step.  A set of sets without a minimal member is *)
(* empty: that stands for an induction on the set.                         *)

Pick(s) == CHOOSE x \in s : TRUE

\* g sums w over every subset of U, element by element as MapThenSumSet does.
Sums(g, U) ==
  g = [s \in SUBSET U |-> IF s = {} THEN 0 ELSE Pick(s).amount + g[s \ {Pick(s)}]]

\* A set of finite sets that is not empty has a minimal member.
LEMMA MinimalSet ==
  ASSUME NEW U, IsFiniteSet(U), NEW T, T \subseteq SUBSET U, T # {}
  PROVE  \E s \in T : \A t \in T : ~(t \subseteq s /\ t # s)
<1>1. T \subseteq FiniteSubsetsOf(U)
  BY FS_Subset DEF FiniteSubsetsOf
<1>2. PICK s \in T : \A t \in T : <<t, s>> \notin StrictSubsetOrdering(U)
  BY <1>1, FS_StrictSubsetOrderingWellFounded, WFMin
<1> QED
  BY <1>2 DEF StrictSubsetOrdering

LEMMA SumsAre ==
  ASSUME NEW g, NEW U, Sums(g, U), NEW s \in SUBSET U, s # {}
  PROVE  g[s] = Pick(s).amount + g[s \ {Pick(s)}] /\ Pick(s) \in s
BY DEF Sums, Pick

LEMMA SumsType ==
  ASSUME NEW U, IsFiniteSet(U), \A x \in U : x.amount \in Int, NEW g, Sums(g, U)
  PROVE  g \in [SUBSET U -> Int]
<1> DEFINE T == {s \in SUBSET U : g[s] \notin Int}
<1>1. ASSUME T # {} PROVE FALSE
  <2>1. PICK s \in T : \A t \in T : ~(t \subseteq s /\ t # s)
    <3> HIDE DEF T
    <3>1. T \subseteq SUBSET U
      BY DEF T
    <3> QED
      BY <1>1, <3>1, MinimalSet
  <2>2. s # {}
    BY <2>1 DEF Sums
  <2>3. g[s \ {Pick(s)}] \in Int
    <3>1. Pick(s) \in s
      BY <2>2 DEF Pick
    <3> QED
      BY <2>1, <3>1
  <2> QED
    BY <2>1, <2>2, <2>3, SumsAre
<1> QED
  BY <1>1 DEF Sums

\* Whatever element is taken out first.
LEMMA SumsTake ==
  ASSUME NEW U, IsFiniteSet(U), \A x \in U : x.amount \in Int, NEW g, Sums(g, U),
         NEW r \in SUBSET U, NEW z \in r
  PROVE  g[r] = z.amount + g[r \ {z}]
<1> DEFINE T == {s \in SUBSET U : \E x \in s : g[s] # x.amount + g[s \ {x}]}
<1>1. ASSUME T # {} PROVE FALSE
  <2>1. PICK s \in T : \A t \in T : ~(t \subseteq s /\ t # s)
    <3> HIDE DEF T
    <3>1. T \subseteq SUBSET U
      BY DEF T
    <3> QED
      BY <1>1, <3>1, MinimalSet
  <2>2. PICK x \in s : g[s] # x.amount + g[s \ {x}]
    BY <2>1
  <2>3. s \in SUBSET U /\ \A t \in SUBSET s : t # s => \A y \in t : g[t] = y.amount + g[t \ {y}]
    BY <2>1
  <2> HIDE DEF T
  <2> DEFINE c == Pick(s)
  <2>4. c \in s /\ g[s] = c.amount + g[s \ {c}] /\ c # x
    <3>1. c \in s /\ g[s] = c.amount + g[s \ {c}]
      BY <2>2, <2>3, SumsAre
    <3> QED
      BY <2>2, <3>1
  <2> HIDE DEF c
  <2>5. (s \ {c}) \ {x} = s \ {c, x} /\ (s \ {x}) \ {c} = s \ {c, x}
    OBVIOUS
  <2>6. g[s \ {c}] = x.amount + g[s \ {c, x}]
    BY <2>2, <2>3, <2>4, <2>5
  <2>7. g[s \ {x}] = c.amount + g[s \ {c, x}]
    BY <2>2, <2>3, <2>4, <2>5
  <2>8. g[s \ {c, x}] \in Int /\ x.amount \in Int /\ c.amount \in Int
    <3>1. g \in [SUBSET U -> Int]
      BY SumsType
    <3>2. s \ {c, x} \in SUBSET U /\ x \in U /\ c \in U
      BY <2>2, <2>3, <2>4
    <3> QED
      BY <3>1, <3>2
  <2> QED
    BY <2>2, <2>4, <2>6, <2>7, <2>8
<1> QED
  BY <1>1

LEMMA SumsExist ==
  ASSUME NEW S, IsFiniteSet(S), \A x \in S : x.amount \in Int
  PROVE  \A U \in SUBSET S : \E g : Sums(g, U)
<1> DEFINE T == {U \in SUBSET S : ~\E g : Sums(g, U)}
<1>1. ASSUME T # {} PROVE FALSE
  <2>1. PICK U \in T : \A t \in T : ~(t \subseteq U /\ t # U)
    <3> HIDE DEF T
    <3>1. T \subseteq SUBSET S
      BY DEF T
    <3> QED
      BY <1>1, <3>1, MinimalSet
  <2>2. CASE U = {}
    <3> DEFINE g == [s \in SUBSET U |-> 0]
    <3>1. Sums(g, U)
      BY <2>2 DEF Sums
    <3> QED
      BY <2>1, <3>1
  <2>3. CASE U # {}
    <3>1. PICK x \in U : TRUE
      BY <2>3
    <3> DEFINE V == U \ {x}
    <3>2. PICK g : Sums(g, V)
      BY <2>1, <3>1
    <3>3. IsFiniteSet(V) /\ V \in SUBSET S
      BY <2>1, FS_Subset
    <3>4. /\ \A s \in SUBSET V : \A y \in s : g[s] = y.amount + g[s \ {y}]
          /\ g \in [SUBSET V -> Int]
      <4>1. \A y \in V : y.amount \in Int
        BY <2>1
      <4> HIDE DEF T, V
      <4> QED
        <5>1. g \in [SUBSET V -> Int]
          BY <3>2, <3>3, <4>1, SumsType
        <5>2. ASSUME NEW s \in SUBSET V, NEW y \in s PROVE g[s] = y.amount + g[s \ {y}]
          BY <3>2, <3>3, <4>1, SumsTake
        <5> QED
          BY <5>1, <5>2
    <3> DEFINE h == [s \in SUBSET U |-> IF x \in s THEN x.amount + g[s \ {x}] ELSE g[s]]
    <3>5. ASSUME NEW s \in SUBSET U, s # {}
          PROVE  h[s] = Pick(s).amount + h[s \ {Pick(s)}]
      <4> DEFINE c == Pick(s)
      <4>1. c \in s
        BY <3>5 DEF Pick
      <4> HIDE DEF c
      <4>2. CASE c = x
        BY <4>1, <4>2 DEF c
      <4>3. CASE c # x /\ x \in s
        <5>1. s \ {x} \in SUBSET V /\ c \in s \ {x}
          BY <4>1, <4>3
        <5>2. g[s \ {x}] = c.amount + g[(s \ {x}) \ {c}]
          BY <3>4, <5>1
        <5>3. (s \ {c}) \ {x} = (s \ {x}) \ {c}
          OBVIOUS
        <5>4. h[s \ {c}] = x.amount + g[(s \ {x}) \ {c}] /\ h[s] = x.amount + g[s \ {x}]
          BY <4>3, <5>3
        <5>5. x.amount \in Int /\ c.amount \in Int /\ g[(s \ {x}) \ {c}] \in Int
          BY <3>1, <3>3, <3>4, <2>1, <4>1
        <5> HIDE DEF h, V
        <5> QED
          BY <5>2, <5>4, <5>5 DEF c
      <4>4. CASE x \notin s
        BY <3>4, <4>1, <4>4 DEF c
      <4> QED
        BY <4>2, <4>3, <4>4 DEF c
    <3>6. h[{}] = 0
      BY <3>2 DEF Sums
    <3>7. Sums(h, U)
      <4>1. \A s \in SUBSET U : h[s] = IF s = {} THEN 0 ELSE Pick(s).amount + h[s \ {Pick(s)}]
        BY <3>5, <3>6
      <4>2. h = [s \in SUBSET U |-> h[s]]
        OBVIOUS
      <4> HIDE DEF h
      <4> QED
        BY <4>1, <4>2 DEF Sums
    <3> QED
      BY <2>1, <3>7
  <2> QED
    BY <2>2, <2>3
<1> QED
  BY <1>1

LEMMA TotalEntries == \A S : MapThenSumSet(EntryAmount, S) = Total(S)
BY DEF Total, MapThenSumSet, MapThenFoldSet, Amount, EntryAmount

\* Within a finite set Total is such a sum of its subsets.
LEMMA TotalIs ==
  ASSUME NEW U, IsFiniteSet(U), \A x \in U : x.amount \in Int
  PROVE  \E g : Sums(g, U) /\ \A S \in SUBSET U : Total(S) = g[S]
<1>1. PICK g : Sums(g, U)
  BY SumsExist
<1>2. ASSUME NEW S \in SUBSET U PROVE Total(S) = g[S]
  <2> DEFINE D(h) == [s \in SUBSET S |-> IF s = {} THEN 0 ELSE Pick(s).amount + h[s \ {Pick(s)}]]
             h == CHOOSE h : h = D(h)
  <2>1. Total(S) = h[S]
    BY DEF Total, Amount, MapThenSumSet, MapThenFoldSet, Pick
  <2>2. Sums([s \in SUBSET S |-> g[s]], S)
    BY <1>1 DEF Sums, Pick
  <2>3. Sums(h, S)
    BY <2>2 DEF Sums
  <2> HIDE DEF h
  <2> DEFINE T == {s \in SUBSET S : h[s] # g[s]}
  <2>4. ASSUME T # {} PROVE FALSE
    <3>1. PICK s \in T : \A t \in T : ~(t \subseteq s /\ t # s)
      <4> HIDE DEF T
      <4>1. T \subseteq SUBSET S /\ IsFiniteSet(S)
        BY FS_Subset DEF T
      <4> QED
        BY <2>4, <4>1, MinimalSet
    <3>2. s # {}
      BY <3>1, <1>1, <2>3 DEF Sums
    <3>3. Pick(s) \in s
      BY <3>2 DEF Pick
    <3>4. h[s \ {Pick(s)}] = g[s \ {Pick(s)}]
      BY <3>1, <3>3
    <3>5. h[s] = Pick(s).amount + h[s \ {Pick(s)}]
      BY <2>3, <3>1, <3>2, SumsAre
    <3>6. g[s] = Pick(s).amount + g[s \ {Pick(s)}]
      BY <1>1, <3>1, <3>2, SumsAre
    <3> QED
      BY <3>1, <3>4, <3>5, <3>6
  <2> QED
    BY <2>1, <2>4
<1> QED
  BY <1>1, <1>2

LEMMA TotalEmpty == Total({}) = 0
<1>1. IsFiniteSet({})
  BY FS_EmptySet
<1>2. PICK g : Sums(g, {}) /\ \A S \in SUBSET {} : Total(S) = g[S]
  BY <1>1, TotalIs
<1> QED
  BY <1>2 DEF Sums

LEMMA TotalType ==
  ASSUME NEW S, IsFiniteSet(S), \A x \in S : x.amount \in Int
  PROVE  Total(S) \in Int
<1>1. PICK g : Sums(g, S) /\ \A s \in SUBSET S : Total(s) = g[s]
  BY TotalIs
<1>2. g \in [SUBSET S -> Int]
  BY <1>1, SumsType
<1> QED
  BY <1>1, <1>2

LEMMA TotalAdd ==
  ASSUME NEW S, IsFiniteSet(S), \A x \in S : x.amount \in Int,
         NEW t, t \notin S, t.amount \in Int
  PROVE  Total(S \union {t}) = Total(S) + t.amount
<1> DEFINE U == S \union {t}
<1>1. IsFiniteSet(U) /\ \A x \in U : x.amount \in Int
  BY FS_AddElement
<1>2. t \in U /\ U \in SUBSET U /\ U \ {t} = S /\ S \in SUBSET U
  OBVIOUS
<1> HIDE DEF U
<1>3. PICK g : Sums(g, U) /\ \A s \in SUBSET U : Total(s) = g[s]
  BY <1>1, TotalIs
<1>4. g[U] = t.amount + g[U \ {t}]
  BY <1>1, <1>2, <1>3, SumsTake
<1>5. Total(U) = t.amount + Total(S)
  BY <1>2, <1>3, <1>4
<1>6. Total(S) \in Int
  BY TotalType
<1> QED
  BY <1>5, <1>6 DEF U

LEMMA TotalGrows ==
  ASSUME NEW U, IsFiniteSet(U), \A x \in U : x.amount \in Nat, NEW S \in SUBSET U
  PROVE  Total(S) <= Total(U)
<1>1. PICK g : Sums(g, U) /\ \A s \in SUBSET U : Total(s) = g[s]
  BY TotalIs
<1>2. g \in [SUBSET U -> Int]
  <2>1. \A x \in U : x.amount \in Int
    OBVIOUS
  <2> QED
    BY <1>1, <2>1, SumsType
<1> DEFINE T == {s \in SUBSET U : S \subseteq s /\ g[s] < g[S]}
<1>3. ASSUME T # {} PROVE FALSE
  <2>1. PICK s \in T : \A t \in T : ~(t \subseteq s /\ t # s)
    <3> HIDE DEF T
    <3>1. T \subseteq SUBSET U
      BY DEF T
    <3> QED
      BY <1>3, <3>1, MinimalSet
  <2>2. PICK x \in s : x \notin S
    <3>1. S \subseteq s /\ g[s] < g[S] /\ g[S] \in Int
      BY <1>2, <2>1
    <3>2. s # S
      BY <3>1
    <3> QED
      BY <3>1, <3>2
  <2>3. s \ {x} \in SUBSET U /\ S \subseteq s \ {x} /\ x \in U /\ s \in SUBSET U
    BY <2>1, <2>2
  <2>4. ~(g[s \ {x}] < g[S])
    BY <2>1, <2>2, <2>3
  <2>5. g[s] = x.amount + g[s \ {x}]
    BY <1>1, <2>2, <2>3, SumsTake
  <2>6. g[s] \in Int /\ g[s \ {x}] \in Int /\ g[S] \in Int /\ x.amount \in Nat
    BY <1>2, <2>3
  <2>7. g[s] < g[S]
    BY <2>1
  <2> HIDE DEF T
  <2> QED
    BY <2>4, <2>5, <2>6, <2>7
<1>4. ~(g[U] < g[S])
  BY <1>3
<1> QED
  BY <1>1, <1>2, <1>4

-----------------------------------------------------------------------------
(* Type correctness.                                                       *)

LEMMA InitType == Init => TypeOK
BY LimitsAssumption, EmptyTxType DEF Init, TypeOK

\* Moving a request on.
LEMMA GotoType ==
  ASSUME TypeOK, NEW r \in Requests, NEW label \in Labels \ {"idle"}, Goto(r, label),
         pc[r] # "idle"
  PROVE  /\ pc' \in [Requests -> Labels]
         /\ \A q \in Requests : pc'[q] # "idle" => pc[q] # "idle"
BY DEF TypeOK, Goto

\* Staging writes.
LEMMA StageType ==
  ASSUME TypeOK, NEW r \in Requests
  PROVE  /\ \A S \in SUBSET TransferRow : [tx EXCEPT ![r].transfers = S] \in [Requests -> Tx]
         /\ \A S \in SUBSET Entry : [tx EXCEPT ![r].entries = S] \in [Requests -> Tx]
         /\ \A S \in SUBSET Note, N \in SUBSET Wakeup :
              [tx EXCEPT ![r].notes = S, ![r].notify = N] \in [Requests -> Tx]
         /\ \A a \in Accounts, b \in 0 .. MaxSafe :
              [tx EXCEPT ![r].balance[a] = b] \in [Requests -> Tx]
<1> tx \in [Requests -> Tx]
  BY DEF TypeOK
<1> QED
  <2>1. \A x \in Tx, S \in SUBSET TransferRow : [x EXCEPT !.transfers = S] \in Tx
    BY DEF Tx
  <2>2. \A x \in Tx, S \in SUBSET Entry : [x EXCEPT !.entries = S] \in Tx
    BY DEF Tx
  <2>3. \A x \in Tx, S \in SUBSET Note, N \in SUBSET Wakeup :
          [x EXCEPT !.notes = S, !.notify = N] \in Tx
    BY DEF Tx
  <2>4. \A x \in Tx, a \in Accounts, b \in 0 .. MaxSafe : [x EXCEPT !.balance[a] = b] \in Tx
    BY DEF Tx
  <2>5. \A S \in SUBSET TransferRow : [tx EXCEPT ![r].transfers = S] \in [Requests -> Tx]
    BY <2>1
  <2>6. \A S \in SUBSET Entry : [tx EXCEPT ![r].entries = S] \in [Requests -> Tx]
    BY <2>2
  <2>7. \A S \in SUBSET Note, N \in SUBSET Wakeup :
          [tx EXCEPT ![r].notes = S, ![r].notify = N] \in [Requests -> Tx]
    BY <2>3
  <2>8. \A a \in Accounts, b \in 0 .. MaxSafe :
          [tx EXCEPT ![r].balance[a] = b] \in [Requests -> Tx]
    BY <2>4
  <2> QED
    BY <2>5, <2>6, <2>7, <2>8

\* Answering a request, and ending its transaction.
LEMMA AnswerType ==
  ASSUME TypeOK, NEW r \in Requests, NEW code \in Replies, Answer(r, code),
         pc[r] # "idle"
  PROVE  /\ pc' \in [Requests -> Labels]
         /\ reply' \in [Requests -> Replies \union {None}]
         /\ \A q \in Requests : pc'[q] # "idle" => pc[q] # "idle"
BY DEF TypeOK, Answer, Goto

LEMMA EndTxType ==
  ASSUME TypeOK, NEW r \in Requests, EndTx(r)
  PROVE  /\ lock' \in [Accounts -> Requests \union {None}]
         /\ tx' \in [Requests -> Tx]
BY EmptyTxType DEF TypeOK, EndTx

LEMMA RefuseType ==
  ASSUME TypeOK, NEW r \in Requests, NEW code \in Replies, Refuse(r, code), pc[r] # "idle"
  PROVE  TypeOK'
BY AnswerType DEF TypeOK, Refuse, tables, locals

LEMMA RollbackType ==
  ASSUME TypeOK, NEW r \in Requests, NEW code \in Replies, Rollback(r, code), pc[r] # "idle"
  PROVE  TypeOK'
BY AnswerType, EndTxType DEF TypeOK, Rollback, tables, locals

LEMMA ProceedType ==
  ASSUME TypeOK, NEW r \in Requests, NEW label \in Labels \ {"idle"},
         Proceed(r, label), pc[r] # "idle"
  PROVE  TypeOK'
BY DEF TypeOK, Proceed, Goto, tables, locals

\* Each action, and a step that changes nothing.
LEMMA NextType ==
  ASSUME TypeOK, \A r \in Requests : RequestInv(r), [Next]_vars
  PROVE  TypeOK'
<1>1. ASSUME NEW a \in Accounts, NEW deposit \in Deposits, CreateAccount(a, deposit)
      PROVE  TypeOK'
  <2>1. deposit \in 0 .. MaxSafe
    BY <1>1, LimitsAssumption DEF CreateAccount
  <2>2. entries' \subseteq Entry
    BY <1>1, <2>1 DEF CreateAccount, TypeOK, Entry
  <2> QED
    BY <1>1, <2>1, <2>2 DEF CreateAccount, TypeOK, locals
<1>2. ASSUME NEW r \in Requests, NEW i \in Intents, Arrive(r, i)
      PROVE  TypeOK'
  BY <1>2 DEF Arrive, Answer, Goto, EdgeVerdict, TypeOK, tables
<1>3. ASSUME NEW r \in Requests, Step(r)
      PROVE  TypeOK'
  <2> USE <1>3
  <2>0. RequestInv(r)
    OBVIOUS
  <2>1. CASE CheckSource(r)
    <3>1. SourceVerdict(req[r]) \in Replies \union {Pass}
      BY DEF SourceVerdict, AccountVerdict
    <3> QED
      BY <2>1, <3>1, RefuseType, ProceedType DEF CheckSource
  <2>2. CASE CheckDestination(r)
    <3>1. AccountVerdict(req[r].to, req[r]) \in Replies \union {Pass}
      BY DEF AccountVerdict
    <3> QED
      BY <2>2, <3>1, RefuseType, ProceedType DEF CheckDestination
  <2>3. CASE Lookup(r)
    <3>1. CASE Committed(req[r]) = {}
      BY <2>3, <3>1, RefuseType, ProceedType DEF Lookup
    <3>2. CASE Committed(req[r]) # {}
      <4>1. Goto(r, "replay") /\ existing' \in [Requests -> TransferRow \union {None}]
        BY <2>3, <3>2 DEF Lookup, Committed, TypeOK
      <4> QED
        BY <2>3, <3>2, <4>1, GotoType DEF Lookup, TypeOK, tables
    <3> QED
      BY <3>1, <3>2
  <2>4. CASE Replay(r)
    <3>1. CASE ReplayMatches(existing[r], req[r])
      <4>1. existing[r].id \in Requests
        BY <2>0, <2>4 DEF Replay, RequestInv, Committed, TypeOK, TransferRow
      <4> QED
        BY <2>4, <3>1, <4>1, AnswerType DEF Replay, TypeOK, tables
    <3>2. CASE ~ReplayMatches(existing[r], req[r])
      BY <2>4, <3>2, RefuseType DEF Replay
    <3> QED
      BY <3>1, <3>2
  <2>5. CASE Begin(r)
    BY <2>5 DEF Begin, Goto, TypeOK, tables
  <2>6. CASE LockFirst(r)
    <3>1. GetAccountForUpdate(r, First(req[r]), "lockSecond") /\ pc[r] = "lockFirst"
      BY <2>6 DEF LockFirst
    <3>2. First(req[r]) \in Accounts
      BY <3>1, BodyType DEF First, Intent
    <3>3. CASE First(req[r]) \notin open
      BY <3>1, <3>3, RollbackType DEF GetAccountForUpdate
    <3>4. CASE First(req[r]) \in open
      BY <3>1, <3>2, <3>4, GotoType DEF GetAccountForUpdate, First, Second, TypeOK, tables
    <3> QED
      BY <3>3, <3>4
  <2>7. CASE LockSecond(r)
    <3>1. GetAccountForUpdate(r, Second(req[r]), "relookup") /\ pc[r] = "lockSecond"
      BY <2>7 DEF LockSecond
    <3>2. Second(req[r]) \in Accounts
      BY <3>1, BodyType DEF Second, Intent
    <3>3. CASE Second(req[r]) \notin open
      BY <3>1, <3>3, RollbackType DEF GetAccountForUpdate
    <3>4. CASE Second(req[r]) \in open
      BY <3>1, <3>2, <3>4, GotoType DEF GetAccountForUpdate, First, Second, TypeOK, tables
    <3> QED
      BY <3>3, <3>4
  <2>8. CASE Relookup(r)
    <3>1. LockedVerdict(r) \in Replies \union {Pass}
      BY DEF LockedVerdict
    <3>2. ASSUME NEW t \in Committed(req[r]), Answer(r, "ok"),
                 answer' = [answer EXCEPT ![r] = t.id], EndTx(r),
                 UNCHANGED <<now, tables, req, began, toRow, existing>>
          PROVE  TypeOK'
      <4>1. t.id \in Requests
        BY DEF Committed, TypeOK, TransferRow
      <4> QED
        BY <2>8, <3>2, <4>1, AnswerType, EndTxType DEF Relookup, TypeOK, tables
    <3> QED
      BY <2>8, <3>1, <3>2, RollbackType, ProceedType DEF Relookup
  <2>9. CASE CheckDailyLimit(r)
    BY <2>9, RollbackType, ProceedType DEF CheckDailyLimit
  <2>10. CASE CreateTransfer(r)
    <3>1. CASE Committed(req[r]) # {}
      BY <2>10, <3>1, EndTxType DEF CreateTransfer, Goto, TypeOK, tables, locals
    <3>2. CASE Committed(req[r]) = {}
      <4>1. Row(r) \in TransferRow
        BY <2>0, <2>10, RowType DEF CreateTransfer, RequestInv
      <4>2. QED
        <5>1. tx' \in [Requests -> Tx]
          <6>1. {Row(r)} \in SUBSET TransferRow
            BY <4>1
          <6>2. tx' = [tx EXCEPT ![r].transfers = {Row(r)}]
            BY <2>10, <3>2 DEF CreateTransfer
          <6> QED
            BY <6>1, <6>2, StageType
        <5>2. Goto(r, "entries")
          BY <2>10, <3>2 DEF CreateTransfer
        <5> QED
          BY <2>10, <3>2, <5>1, <5>2, GotoType DEF CreateTransfer, TypeOK, tables, locals
    <3> QED
      BY <3>1, <3>2
  <2>11. CASE CreateEntries(r)
    <3>1. req[r] \in Intent
      BY <2>11, BodyType DEF CreateEntries
    <3>2. {[by |-> r, account |-> req[r].from, amount |-> -req[r].amount],
           [by |-> r, account |-> req[r].to, amount |-> req[r].amount]} \subseteq Entry
      BY <3>1 DEF Entry, Intent
    <3> QED
      BY <2>11, <3>2, GotoType, StageType DEF CreateEntries, TypeOK, tables, locals
  <2>12. ASSUME NEW a \in Accounts, NEW amount \in Int, NEW label \in Labels \ {"idle"},
                pc[r] # "idle", AddAccountBalance(r, a, amount, label)
         PROVE  TypeOK'
    <3>1. CASE Visible(r, a) + amount \notin 0 .. MaxSafe
      BY <2>12, <3>1, RollbackType DEF AddAccountBalance
    <3>2. CASE Visible(r, a) + amount \in 0 .. MaxSafe
      <4>1. tx' \in [Requests -> Tx]
        <5> DEFINE b == Visible(r, a) + amount
        <5>1. b \in 0 .. MaxSafe /\ tx' = [tx EXCEPT ![r].balance[a] = b]
          BY <2>12, <3>2 DEF AddAccountBalance
        <5> HIDE DEF b
        <5> QED
          BY <5>1, StageType
      <4>2. Goto(r, label)
        BY <2>12, <3>2 DEF AddAccountBalance
      <4> QED
        BY <2>12, <3>2, <4>1, <4>2, GotoType DEF AddAccountBalance, TypeOK, tables, locals
    <3> QED
      BY <3>1, <3>2
  <2>13. CASE Debit(r)
    <3>1. req[r].from \in Accounts /\ -req[r].amount \in Int
      BY <2>13, BodyType DEF Debit, Intent
    <3> QED
      BY <2>12, <2>13, <3>1 DEF Debit
  <2>14. CASE Credit(r)
    <3>1. req[r].to \in Accounts /\ req[r].amount \in Int
      BY <2>14, BodyType DEF Credit, Intent
    <3> QED
      BY <2>12, <2>14, <3>1 DEF Credit
  <2>15. CASE CreateNotifications(r)
    <3>1. req[r] \in Intent
      BY <2>15, BodyType DEF CreateNotifications
    <3>2. /\ Visible(r, req[r].from) \in 0 .. MaxSafe
          /\ Visible(r, req[r].to) \in 0 .. MaxSafe
      BY <3>1, VisibleType DEF Intent
    <3>3. {[transfer |-> r, account |-> req[r].from, direction |-> "sent",
            balance |-> Visible(r, req[r].from)],
           [transfer |-> r, account |-> req[r].to, direction |-> "received",
            balance |-> Visible(r, req[r].to)]} \subseteq Note
      BY <3>1, <3>2 DEF Note, Intent
    <3>4. {[transfer |-> r, owner |-> Owner[req[r].from]],
           [transfer |-> r, owner |-> Owner[req[r].to]]} \subseteq Wakeup
      BY <3>1, TablesAssumption DEF Wakeup, Intent
    <3> QED
      BY <2>15, <3>3, <3>4, GotoType, StageType DEF CreateNotifications, TypeOK, tables, locals
  <2>16. ASSUME ApplyTx(r)
         PROVE  /\ now' \in Nat
                /\ open' \subseteq Accounts
                /\ balance' \in [Accounts -> 0 .. MaxSafe]
                /\ transfers' \subseteq TransferRow /\ entries' \subseteq Entry
                /\ notifications' \subseteq Note /\ wakeups' \subseteq Wakeup
                /\ req' = req /\ began' = began /\ toRow' = toRow /\ existing' = existing
    BY <2>16, VisibleType DEF ApplyTx, TypeOK, Tx
  <2>17. CASE Commit(r)
    <3>1. EndTx(r) /\ Answer(r, "ok")
      BY <2>17 DEF Commit, ApplyTx
    <3> QED
      BY <2>16, <2>17, <3>1, AnswerType, EndTxType DEF Commit, TypeOK
  <2>18. CASE CommitUnacknowledged(r)
    <3>1. EndTx(r) /\ Answer(r, "failed")
      BY <2>18 DEF CommitUnacknowledged, ApplyTx
    <3> QED
      BY <2>16, <2>18, <3>1, AnswerType, EndTxType DEF CommitUnacknowledged, TypeOK
  <2> QED
    BY <2>1, <2>2, <2>3, <2>4, <2>5, <2>6, <2>7, <2>8, <2>9, <2>10, <2>11,
       <2>13, <2>14, <2>15, <2>17, <2>18 DEF Step
<1>4. ASSUME NEW r \in Requests, Fail(r)
      PROVE  TypeOK'
  BY <1>4, RollbackType DEF Fail
<1>5. CASE Tick
  BY <1>5 DEF Tick, TypeOK, tables, locals
<1>6. CASE UNCHANGED vars
  BY <1>6 DEF TypeOK, vars, tables, locals
<1> QED
  BY <1>1, <1>2, <1>3, <1>4, <1>5, <1>6 DEF Next, Quiescent

-----------------------------------------------------------------------------
(* What a step of one request leaves alone of the others.                  *)

Frame(q) ==
  /\ \A r \in Requests \ {q} :
       /\ pc'[r] = pc[r] /\ req'[r] = req[r] /\ began'[r] = began[r]
       /\ toRow'[r] = toRow[r] /\ existing'[r] = existing[r]
       /\ tx'[r] = tx[r] /\ reply'[r] = reply[r] /\ answer'[r] = answer[r]
  /\ \A a \in Accounts : lock[a] \notin {q, None} => lock'[a] = lock[a]
  /\ \A a \in open : lock[a] # q => balance'[a] = balance[a]
  /\ open \subseteq open'
  /\ transfers \subseteq transfers'
  /\ \A t \in transfers' \ transfers : lock[t.from] = q

\* Row locks, and the key's source among the locked rows, keep RequestInv of
\* every request but the one that takes the step.
LEMMA FramePreserves ==
  ASSUME TypeOK, NEW q, Frame(q), NEW r \in Requests \ {q}, RequestInv(r)
  PROVE  RequestInv(r)'
<1> DEFINE i == req[r]
<1>1. /\ pc'[r] = pc[r] /\ req'[r] = req[r] /\ began'[r] = began[r]
      /\ toRow'[r] = toRow[r] /\ existing'[r] = existing[r]
      /\ tx'[r] = tx[r] /\ reply'[r] = reply[r]
  BY DEF Frame
<1>2. r # None
  BY NoneAssumption
<1>3. \A a \in Accounts : lock[a] = r => lock'[a] = r
  BY <1>2 DEF Frame
<1>4. \A a \in open : lock[a] = r => balance'[a] = balance[a]
  BY <1>2 DEF Frame
<1>5. pc[r] # "idle" => i.from \in Accounts /\ i.to \in Accounts /\ First(i) \in {i.from, i.to}
  BY BodyType DEF Intent, First
<1>6. pc[r] = "idle" => reply'[r] = None
  BY <1>1 DEF RequestInv
<1>7. pc[r] \in Checked => {i.from, i.to} \subseteq open'
  BY DEF RequestInv, Frame
<1>8. pc[r] = "destination" => i.from \in open'
  BY DEF RequestInv, Frame
<1>9. pc[r] = "replay" => existing[r] \in Committed(i)'
  BY <1>1 DEF RequestInv, Frame, Committed, SameKey
<1>10. pc[r] = "lockSecond" =>
         lock'[First(i)] = r /\ (First(i) = i.to => toRow[r] = balance'[i.to])
  BY <1>3, <1>4, <1>5 DEF RequestInv
<1>11. pc[r] \in Locked =>
         /\ lock'[i.from] = r /\ lock'[i.to] = r
         /\ balance'[i.from] = balance[i.from] /\ balance'[i.to] = balance[i.to]
  BY <1>3, <1>4, <1>5 DEF RequestInv
<1>12. pc[r] \in Decided => Committed(i)' = {}
  <2> SUFFICES ASSUME pc[r] \in Decided, NEW t \in transfers', SameKey(t, i)
               PROVE  FALSE
    BY <1>1 DEF Committed, SameKey
  <2>1. t \notin transfers
    BY DEF RequestInv, Committed
  <2>2. lock[i.from] = q
    BY <2>1 DEF Frame, SameKey
  <2> QED
    BY <2>2 DEF RequestInv
<1>13. pc[r] \in Inserted => Row(r)' = Row(r)
  BY <1>1 DEF Row
<1>14. \A a \in Accounts : pc[r] \in Debited /\ a \in {i.from, i.to} => balance'[a] = balance[a]
  BY <1>11
<1>15. (tx[r].transfers = IF pc[r] \in Inserted THEN {Row(r)} ELSE {})'
  BY <1>1, <1>13 DEF RequestInv
<1>16. (\A a \in Accounts :
          tx[r].balance[a] =
            IF pc[r] \in Debited /\ a = i.from THEN balance[a] - i.amount
            ELSE IF pc[r] \in Credited /\ a = i.to THEN balance[a] + i.amount
            ELSE NoWrite)'
  BY <1>1, <1>14 DEF RequestInv
<1>17. /\ pc[r] \in Decided => balance'[i.to] + i.amount <= MaxSafe
       /\ pc[r] \in Debited => balance'[i.from] >= i.amount
  BY <1>11 DEF RequestInv
<1>18. /\ pc[r] \in Labels \ {"idle", "done"} =>
            reply[r] = None /\ i.from # i.to /\ i.amount <= MaxSafe
       /\ pc[r] = "destination" => Currency[i.from] = i.currency
       /\ pc[r] \in Checked =>
            Currency[i.from] = i.currency /\ Currency[i.to] = i.currency
       /\ pc[r] \in Locked => toRow[r] = balance[i.to]
  BY DEF RequestInv
<1>19. First(i)' = First(i) /\ Committed(i)' = Committed(req[r])'
  BY <1>1 DEF First
<1> QED
  BY <1>1, <1>6, <1>7, <1>8, <1>9, <1>10, <1>11, <1>12, <1>15, <1>16, <1>17, <1>18, <1>19
     DEF RequestInv

\* A step in which only the bookkeeping of r and its own locks change.
LEMMA LocalFrame ==
  ASSUME TypeOK, NEW r \in Requests, UNCHANGED tables,
         \A q \in Requests \ {r} :
           /\ pc'[q] = pc[q] /\ req'[q] = req[q] /\ began'[q] = began[q]
           /\ toRow'[q] = toRow[q] /\ existing'[q] = existing[q]
           /\ tx'[q] = tx[q] /\ reply'[q] = reply[q] /\ answer'[q] = answer[q],
         \A a \in Accounts : lock[a] \notin {r, None} => lock'[a] = lock[a]
  PROVE  Frame(r)
BY DEF Frame, tables

LEMMA RefuseFrame ==
  ASSUME TypeOK, NEW r \in Requests, NEW code, Refuse(r, code)
  PROVE  Frame(r)
BY LocalFrame DEF Refuse, Answer, Goto, TypeOK, locals

LEMMA RollbackFrame ==
  ASSUME TypeOK, NEW r \in Requests, NEW code, Rollback(r, code)
  PROVE  Frame(r)
BY LocalFrame DEF Rollback, Answer, EndTx, Goto, TypeOK, locals

LEMMA ProceedFrame ==
  ASSUME TypeOK, NEW r \in Requests, NEW label, Proceed(r, label)
  PROVE  Frame(r)
BY LocalFrame DEF Proceed, Goto, TypeOK, locals

\* What COMMIT changes: the balances and the key of the rows it has locked.
LEMMA ApplyTxFrame ==
  ASSUME TypeOK, NEW r \in Requests, pc[r] = "commit", RequestInv(r), ApplyTx(r),
         NEW code, Answer(r, code),
         \A q \in Requests \ {r} : answer'[q] = answer[q]
  PROVE  Frame(r)
<1>1. \A q \in Requests \ {r} :
        /\ pc'[q] = pc[q] /\ req'[q] = req[q] /\ began'[q] = began[q]
        /\ toRow'[q] = toRow[q] /\ existing'[q] = existing[q]
        /\ tx'[q] = tx[q] /\ reply'[q] = reply[q] /\ answer'[q] = answer[q]
  BY DEF ApplyTx, EndTx, Answer, Goto, TypeOK
<1>2. \A a \in Accounts : lock[a] \notin {r, None} => lock'[a] = lock[a]
  BY DEF ApplyTx, EndTx
<1>3. lock[req[r].from] = r /\ lock[req[r].to] = r
  BY DEF RequestInv
<1>4. \A a \in open : lock[a] # r => balance'[a] = balance[a]
  BY <1>3 DEF ApplyTx, Visible, RequestInv, TypeOK
<1>5. \A t \in transfers' \ transfers : lock[t.from] = r
  BY <1>3 DEF ApplyTx, RequestInv, Row
<1> QED
  BY <1>1, <1>2, <1>4, <1>5 DEF Frame, ApplyTx

LEMMA StepFrame ==
  ASSUME TypeOK, NEW r \in Requests, RequestInv(r), Step(r)
  PROVE  Frame(r)
<1>1. CASE CheckSource(r)
  BY <1>1, RefuseFrame, ProceedFrame DEF CheckSource
<1>2. CASE CheckDestination(r)
  BY <1>2, RefuseFrame, ProceedFrame DEF CheckDestination
<1>3. CASE Lookup(r)
  <2>1. CASE Committed(req[r]) = {}
    BY <1>3, <2>1, RefuseFrame, ProceedFrame DEF Lookup
  <2>2. CASE Committed(req[r]) # {}
    BY <1>3, <2>2, LocalFrame DEF Lookup, Goto, TypeOK
  <2> QED
    BY <2>1, <2>2
<1>4. CASE Replay(r)
  <2>1. CASE ReplayMatches(existing[r], req[r])
    BY <1>4, <2>1, LocalFrame DEF Replay, Answer, Goto, TypeOK
  <2>2. CASE ~ReplayMatches(existing[r], req[r])
    BY <1>4, <2>2, RefuseFrame DEF Replay
  <2> QED
    BY <2>1, <2>2
<1>5. CASE Begin(r)
  BY <1>5, LocalFrame DEF Begin, Goto, TypeOK
<1>6. ASSUME NEW a \in Accounts, NEW label, GetAccountForUpdate(r, a, label)
      PROVE  Frame(r)
  <2>1. CASE a \notin open
    BY <1>6, <2>1, RollbackFrame DEF GetAccountForUpdate
  <2>2. CASE a \in open
    BY <1>6, <2>2, LocalFrame DEF GetAccountForUpdate, Goto, TypeOK
  <2> QED
    BY <2>1, <2>2
<1>7. CASE LockFirst(r) \/ LockSecond(r)
  <2>1. First(req[r]) \in Accounts /\ Second(req[r]) \in Accounts
    BY <1>7, BodyType DEF LockFirst, LockSecond, First, Second, Intent
  <2> QED
    BY <1>6, <1>7, <2>1 DEF LockFirst, LockSecond
<1>8. CASE Relookup(r)
  <2>1. CASE Committed(req[r]) = {}
    BY <1>8, <2>1, RollbackFrame, ProceedFrame DEF Relookup
  <2>2. CASE Committed(req[r]) # {}
    <3>1. PICK t \in Committed(req[r]) :
            \/ /\ Answer(r, "ok") /\ EndTx(r)
               /\ answer' = [answer EXCEPT ![r] = t.id]
               /\ UNCHANGED <<now, tables, req, began, toRow, existing>>
            \/ Rollback(r, "idempotency_conflict")
      BY <1>8, <2>2 DEF Relookup
    <3> QED
      BY <3>1, RollbackFrame, LocalFrame DEF Answer, EndTx, Goto, TypeOK
  <2> QED
    BY <2>1, <2>2
<1>9. CASE CheckDailyLimit(r)
  BY <1>9, RollbackFrame, ProceedFrame DEF CheckDailyLimit
<1>10. CASE CreateTransfer(r)
  <2>1. CASE Committed(req[r]) # {}
    BY <1>10, <2>1, LocalFrame DEF CreateTransfer, EndTx, Goto, TypeOK, locals
  <2>2. CASE Committed(req[r]) = {}
    BY <1>10, <2>2, LocalFrame DEF CreateTransfer, Goto, TypeOK, locals
  <2> QED
    BY <2>1, <2>2
<1>11. CASE CreateEntries(r)
  BY <1>11, LocalFrame DEF CreateEntries, Goto, TypeOK, locals
<1>12. ASSUME NEW a, NEW amount, NEW label, AddAccountBalance(r, a, amount, label)
       PROVE  Frame(r)
  <2>1. CASE Visible(r, a) + amount \notin 0 .. MaxSafe
    BY <1>12, <2>1, RollbackFrame DEF AddAccountBalance
  <2>2. CASE Visible(r, a) + amount \in 0 .. MaxSafe
    BY <1>12, <2>2, LocalFrame DEF AddAccountBalance, Goto, TypeOK, locals
  <2> QED
    BY <2>1, <2>2
<1>13. CASE Debit(r) \/ Credit(r)
  BY <1>12, <1>13 DEF Debit, Credit
<1>14. CASE CreateNotifications(r)
  BY <1>14, LocalFrame DEF CreateNotifications, Goto, TypeOK, locals
<1>15. CASE Commit(r)
  BY <1>15, ApplyTxFrame DEF Commit, TypeOK
<1>16. CASE CommitUnacknowledged(r)
  BY <1>16, ApplyTxFrame DEF CommitUnacknowledged, TypeOK
<1> QED
  BY <1>1, <1>2, <1>3, <1>4, <1>5, <1>7, <1>8, <1>9, <1>10, <1>11, <1>13, <1>14,
     <1>15, <1>16 DEF Step

\* Whoever takes a step: a request, or something that leaves it alone.
LEMMA Movers ==
  ASSUME TypeOK, \A q \in Requests : RequestInv(q), [Next]_vars, NEW r \in Requests
  PROVE  \/ Step(r) \/ Fail(r) \/ \E i \in Intents : Arrive(r, i)
         \/ \E q : q # r /\ Frame(q)
<1>1. ASSUME NEW a \in Accounts, NEW deposit \in Deposits, CreateAccount(a, deposit)
      PROVE  Frame(None)
  BY <1>1 DEF CreateAccount, Frame, TypeOK, locals
<1>2. CASE Tick \/ Quiescent \/ UNCHANGED vars
  <2>1. Frame(None)
    BY <1>2 DEF Tick, Quiescent, Frame, vars, tables, locals
  <2> QED
    BY <2>1, NoneAssumption
<1>3. ASSUME NEW q \in Requests, NEW i \in Intents, Arrive(q, i)
      PROVE  Frame(q)
  BY <1>3, LocalFrame DEF Arrive, Answer, Goto, TypeOK
<1>4. ASSUME NEW q \in Requests, Step(q) \/ Fail(q)
      PROVE  Frame(q)
  BY <1>4, StepFrame, RollbackFrame DEF Fail
<1> QED
  BY <1>1, <1>2, <1>3, <1>4, NoneAssumption DEF Next

\* Requests that take no step are left alone by every step.
LEMMA OthersKeepInv ==
  ASSUME TypeOK, \A r \in Requests : RequestInv(r), NEW r \in Requests, Next
  PROVE  \/ RequestInv(r)'
         \/ Step(r) \/ Fail(r) \/ \E i \in Intents : Arrive(r, i)
<1>1. \/ Step(r) \/ Fail(r) \/ \E i \in Intents : Arrive(r, i)
      \/ \E q : q # r /\ Frame(q)
  BY Movers
<1> QED
  BY <1>1, FramePreserves

-----------------------------------------------------------------------------
(* What a step of a request keeps of its own invariant.                    *)

\* An answered request whose transaction is over owes nothing.
LEMMA DoneInv ==
  ASSUME TypeOK', NEW r \in Requests, pc'[r] = "done", tx'[r] = EmptyTx
  PROVE  RequestInv(r)'
BY DEF RequestInv, EmptyTx

\* No write is staged before the insert: the transaction is empty as far as
\* transfers and balances go.
Unwritten(r) ==
  tx[r].transfers = {} /\ \A a \in Accounts : tx[r].balance[a] = NoWrite

LEMMA UnwrittenBefore ==
  ASSUME NEW r \in Requests, RequestInv(r), pc[r] \notin Inserted
  PROVE  Unwritten(r)
BY DEF RequestInv, Unwritten

LEMMA DoneUnwrittenInv ==
  ASSUME NEW r \in Requests, pc'[r] = "done", Unwritten(r)'
  PROVE  RequestInv(r)'
BY DEF RequestInv, Unwritten

LEMMA RefuseInv ==
  ASSUME TypeOK, NEW r \in Requests, RequestInv(r), pc[r] \notin Inserted,
         NEW code, Refuse(r, code)
  PROVE  RequestInv(r)'
<1>1. Unwritten(r)'
  BY UnwrittenBefore DEF Unwritten, Refuse
<1> QED
  BY <1>1, DoneUnwrittenInv DEF Refuse, Answer, Goto, TypeOK

LEMMA RollbackInv ==
  ASSUME TypeOK, NEW r \in Requests, NEW code, Answer(r, code), EndTx(r)
  PROVE  RequestInv(r)'
<1>1. Unwritten(r)'
  BY DEF Unwritten, EndTx, EmptyTx, TypeOK
<1> QED
  BY <1>1, DoneUnwrittenInv DEF Answer, Goto, TypeOK

\* Statements before the insert move a request on without staging anything.
LEMMA EarlyInv ==
  ASSUME TypeOK, NEW r \in Requests, RequestInv(r), Step(r),
         pc[r] \in {"source", "destination", "lookup", "resolve", "replay", "begin",
                    "lockFirst", "lockSecond", "relookup", "limit"}
  PROVE  RequestInv(r)'
<1> DEFINE i == req[r]
<1>0. /\ Unwritten(r) /\ i \in Intent
      /\ reply[r] = None /\ i.from # i.to /\ i.amount <= MaxSafe
  BY UnwrittenBefore, BodyType DEF RequestInv
<1>1. CASE CheckSource(r)
  <2>1. CASE SourceVerdict(i) # Pass
    BY <1>1, <2>1, RefuseInv DEF CheckSource
  <2>2. CASE SourceVerdict(i) = Pass
    <3>1. i.from \in open /\ Currency[i.from] = i.currency
      BY <2>2 DEF SourceVerdict, AccountVerdict
    <3> QED
      BY <1>0, <1>1, <2>2, <3>1
         DEF CheckSource, Proceed, Goto, RequestInv, Unwritten, TypeOK, tables, locals
  <2> QED
    BY <2>1, <2>2
<1>2. CASE CheckDestination(r)
  <2>1. CASE AccountVerdict(i.to, i) # Pass
    BY <1>2, <2>1, RefuseInv DEF CheckDestination
  <2>2. CASE AccountVerdict(i.to, i) = Pass
    <3>1. i.to \in open /\ Currency[i.to] = i.currency
      BY <2>2 DEF AccountVerdict
    <3> QED
      BY <1>0, <1>2, <2>2, <3>1
         DEF CheckDestination, Proceed, Goto, RequestInv, Unwritten, TypeOK, tables, locals
  <2> QED
    BY <2>1, <2>2
<1>3. CASE Lookup(r)
  <2>1. CASE Committed(i) = {} /\ pc[r] = "lookup"
    BY <1>0, <1>3, <2>1
       DEF Lookup, Proceed, Goto, RequestInv, Unwritten, TypeOK, tables, locals
  <2>2. CASE Committed(i) = {} /\ pc[r] # "lookup"
    BY <1>3, <2>2, RefuseInv DEF Lookup
  <2>3. CASE Committed(i) # {}
    <3>1. PICK t \in Committed(i) :
            /\ existing' = [existing EXCEPT ![r] = t]
            /\ Goto(r, "replay")
            /\ UNCHANGED <<now, tables, lock, req, began, toRow, answer, tx, reply>>
      BY <1>3, <2>3 DEF Lookup
    <3> QED
      BY <1>0, <1>3, <3>1
         DEF Lookup, Goto, RequestInv, Unwritten, TypeOK, tables, Committed, SameKey
  <2> QED
    BY <2>1, <2>2, <2>3
<1>4. CASE Replay(r)
  <2>1. CASE ReplayMatches(existing[r], i)
    <3>1. Unwritten(r)'
      BY <1>0, <1>4, <2>1 DEF Replay, Unwritten
    <3> QED
      BY <1>4, <2>1, <3>1, DoneUnwrittenInv DEF Replay, Answer, Goto, TypeOK
  <2>2. CASE ~ReplayMatches(existing[r], i)
    BY <1>4, <2>2, RefuseInv DEF Replay
  <2> QED
    BY <2>1, <2>2
<1>5. CASE Begin(r)
  BY <1>0, <1>5 DEF Begin, Goto, RequestInv, Unwritten, TypeOK, tables
<1>6. CASE LockFirst(r)
  <2>1. First(i) \in {i.from, i.to} /\ First(i) \in open
    BY <1>0, <1>6 DEF First, LockFirst, RequestInv
  <2>2. /\ pc'[r] = "lockSecond" /\ lock'[First(i)] = r
        /\ (First(i) = i.to => toRow'[r] = balance[i.to])
        /\ UNCHANGED <<now, tables, req, began, existing, answer, tx, reply>>
    BY <1>0, <1>6, <2>1 DEF LockFirst, GetAccountForUpdate, Goto, TypeOK, Intent
  <2> QED
    BY <1>0, <1>6, <2>2 DEF RequestInv, LockFirst, Unwritten, First, tables
<1>7. CASE LockSecond(r)
  <2>1. {First(i), Second(i)} = {i.from, i.to} /\ Second(i) \in open
    BY <1>0, <1>7 DEF First, Second, LockSecond, RequestInv
  <2>2. /\ pc'[r] = "relookup" /\ lock'[Second(i)] = r /\ lock'[First(i)] = r
        /\ toRow'[r] = IF Second(i) = i.to THEN balance[i.to] ELSE toRow[r]
        /\ UNCHANGED <<now, tables, req, began, existing, answer, tx, reply>>
    <3>1. /\ First(i) \in Accounts /\ Second(i) \in Accounts /\ First(i) # Second(i)
          /\ lock[First(i)] = r
      BY <1>0, <1>7, <2>1 DEF LockSecond, RequestInv, Intent
    <3>2. GetAccountForUpdate(r, Second(i), "relookup")
      BY <1>7 DEF LockSecond
    <3>3. lock' = [lock EXCEPT ![Second(i)] = r]
      BY <2>1, <3>2 DEF GetAccountForUpdate
    <3> QED
      BY <1>0, <2>1, <3>1, <3>2, <3>3 DEF GetAccountForUpdate, Goto, TypeOK
  <2>3. toRow'[r] = balance[i.to] /\ lock'[i.from] = r /\ lock'[i.to] = r
    BY <1>0, <1>7, <2>1, <2>2 DEF LockSecond, RequestInv
  <2> QED
    BY <1>0, <1>7, <2>2, <2>3 DEF RequestInv, LockSecond, Unwritten, tables
<1>8. CASE Relookup(r)
  <2>1. CASE Committed(i) # {}
    BY <1>8, <2>1, RollbackInv DEF Relookup, Rollback
  <2>2. CASE Committed(i) = {} /\ LockedVerdict(r) # Pass
    BY <1>8, <2>2, RollbackInv DEF Relookup, Rollback
  <2>3. CASE Committed(i) = {} /\ LockedVerdict(r) = Pass
    <3>1. ~(toRow[r] > MaxSafe - i.amount)
      BY <2>3 DEF LockedVerdict
    <3>2. i.to \in Accounts /\ balance[i.to] \in Nat /\ i.amount \in Nat /\ MaxSafe \in Nat
      BY <1>0, LimitsAssumption DEF TypeOK, Intent
    <3>3. balance[i.to] + i.amount <= MaxSafe
      BY <1>8, <3>1, <3>2 DEF RequestInv, Relookup
    <3>4. Proceed(r, "limit")
      BY <1>8, <2>3 DEF Relookup
    <3> QED
      BY <1>0, <1>8, <2>3, <3>3, <3>4
         DEF Relookup, Proceed, Goto, RequestInv, Unwritten, TypeOK, tables, locals, Committed
  <2> QED
    BY <2>1, <2>2, <2>3
<1>9. CASE CheckDailyLimit(r)
  <2>1. CASE WithinDailyLimit(i)
    BY <1>0, <1>9, <2>1
       DEF CheckDailyLimit, Proceed, Goto, RequestInv, Unwritten, TypeOK, tables, locals, Committed
  <2>2. CASE ~WithinDailyLimit(i)
    BY <1>9, <2>2, RollbackInv DEF CheckDailyLimit, Rollback
  <2> QED
    BY <2>1, <2>2
<1> QED
  BY <1>1, <1>2, <1>3, <1>4, <1>5, <1>6, <1>7, <1>8, <1>9
     DEF Step, CreateTransfer, CreateEntries, Debit, Credit, CreateNotifications,
         Commit, CommitUnacknowledged

\* The inserts and updates: what is staged is what RequestInv says is staged.
LEMMA LateInv ==
  ASSUME TypeOK, NEW r \in Requests, RequestInv(r), Step(r),
         pc[r] \in {"insert", "entries", "debit", "credit", "notify", "commit"}
  PROVE  RequestInv(r)'
<1> DEFINE i == req[r]
<1>0. /\ i \in Intent /\ i.from \in Accounts /\ i.to \in Accounts /\ i.from # i.to
      /\ i.amount \in Nat \ {0} /\ MaxSafe \in Nat
      /\ balance[i.from] \in 0 .. MaxSafe /\ balance[i.to] \in 0 .. MaxSafe
      /\ lock[i.from] = r /\ lock[i.to] = r /\ Committed(i) = {}
      /\ tx[r] \in Tx
  BY BodyType, LimitsAssumption DEF RequestInv, Intent, TypeOK
<1>1. CASE CreateTransfer(r)
  <2>1. Unwritten(r)
    BY <1>1, UnwrittenBefore DEF CreateTransfer
  <2>2. /\ tx' = [tx EXCEPT ![r].transfers = {Row(r)}]
        /\ Goto(r, "entries")
        /\ UNCHANGED <<now, tables, lock, locals, reply>>
    BY <1>0, <1>1 DEF CreateTransfer
  <2>3. tx'[r].transfers = {Row(r)} /\ tx'[r].balance = tx[r].balance
    BY <1>0, <2>2 DEF TypeOK, Tx
  <2> QED
    BY <1>0, <1>1, <2>1, <2>2, <2>3
       DEF CreateTransfer, Goto, RequestInv, Unwritten, Row, TypeOK, tables, locals, Committed
<1>2. CASE CreateEntries(r)
  <2>1. tx'[r].transfers = tx[r].transfers /\ tx'[r].balance = tx[r].balance
    BY <1>2 DEF CreateEntries, TypeOK, Tx
  <2> QED
    BY <1>0, <1>2, <2>1
       DEF CreateEntries, Goto, RequestInv, Row, TypeOK, tables, locals, Committed
<1>3. ASSUME NEW a \in Accounts, NEW amount \in Int, NEW label \in Labels,
             AddAccountBalance(r, a, amount, label),
             Visible(r, a) + amount \in 0 .. MaxSafe,
             lock[a] = r
      PROVE  /\ pc'[r] = label
             /\ tx'[r].transfers = tx[r].transfers
             /\ tx'[r].balance = [tx[r].balance EXCEPT ![a] = Visible(r, a) + amount]
             /\ \A c \in Accounts : lock[c] = r => lock'[c] = r
             /\ UNCHANGED <<now, tables, locals, reply>>
  BY <1>0, <1>3 DEF AddAccountBalance, Goto, TypeOK, Tx
<1>4. CASE Debit(r)
  <2>1. CASE Visible(r, i.from) + (-i.amount) \notin 0 .. MaxSafe
    BY <1>4, <2>1, RollbackInv DEF Debit, AddAccountBalance, Rollback
  <2>2. CASE Visible(r, i.from) + (-i.amount) \in 0 .. MaxSafe
    <3>1. tx[r].balance = [a \in Accounts |-> NoWrite]
      BY <1>0, <1>4 DEF Debit, RequestInv, Tx
    <3>2. Visible(r, i.from) = balance[i.from]
      BY <1>0, <3>1 DEF Visible
    <3>3. /\ pc'[r] = "credit"
          /\ tx'[r].transfers = tx[r].transfers
          /\ tx'[r].balance = [tx[r].balance EXCEPT ![i.from] = balance[i.from] - i.amount]
          /\ lock'[i.from] = r /\ lock'[i.to] = r
          /\ UNCHANGED <<now, tables, locals, reply>>
      <4>1. AddAccountBalance(r, i.from, -i.amount, "credit") /\ -i.amount \in Int
            /\ lock[i.from] = r /\ i.from \in Accounts
        BY <1>0, <1>4 DEF Debit
      <4>2. Visible(r, i.from) + (-i.amount) = balance[i.from] - i.amount
        BY <1>0, <3>2
      <4> HIDE DEF i
      <4> QED
        BY <1>0, <1>3, <2>2, <4>1, <4>2
    <3>4. balance[i.from] >= i.amount
      BY <1>0, <2>2, <3>2
    <3> QED
      BY <1>0, <1>4, <3>1, <3>3, <3>4 DEF Debit, RequestInv, Row, tables, locals, Committed
  <2> QED
    BY <2>1, <2>2
<1>5. CASE Credit(r)
  <2>1. Visible(r, i.to) = balance[i.to]
    BY <1>0, <1>5 DEF Credit, RequestInv, Visible
  <2>2. balance[i.to] + i.amount \in 0 .. MaxSafe
    BY <1>0, <1>5 DEF Credit, RequestInv
  <2>3. /\ pc'[r] = "notify"
        /\ tx'[r].transfers = tx[r].transfers
        /\ tx'[r].balance = [tx[r].balance EXCEPT ![i.to] = balance[i.to] + i.amount]
        /\ lock'[i.from] = r /\ lock'[i.to] = r
        /\ UNCHANGED <<now, tables, locals, reply>>
    <3>1. AddAccountBalance(r, i.to, i.amount, "notify") /\ i.amount \in Int
          /\ Visible(r, i.to) + i.amount \in 0 .. MaxSafe
          /\ lock[i.to] = r /\ lock[i.from] = r /\ i.to \in Accounts /\ i.from \in Accounts
      BY <1>0, <1>5, <2>1, <2>2 DEF Credit
    <3> HIDE DEF i
    <3> QED
      BY <1>3, <2>1, <3>1
  <2>4. pc[r] = "credit"
    BY <1>5 DEF Credit
  <2>5. Committed(i)' = Committed(i) /\ Row(r)' = Row(r) /\ i' = i
    BY <2>3 DEF Committed, Row, tables, locals
  <2>6. /\ reply'[r] = None /\ toRow'[r] = balance[i.to]
        /\ balance' = balance /\ open' = open /\ {i.from, i.to} \subseteq open
        /\ i.amount <= MaxSafe
        /\ Currency[i.from] = i.currency /\ Currency[i.to] = i.currency
        /\ balance[i.to] + i.amount <= MaxSafe /\ balance[i.from] >= i.amount
    BY <2>3, <2>4 DEF RequestInv, tables, locals
  <2>7. tx[r].transfers = {Row(r)}
    BY <2>4 DEF RequestInv
  <2>8. \A a \in Accounts :
          tx[r].balance[a] = IF a = i.from THEN balance[a] - i.amount ELSE NoWrite
    BY <1>0, <2>4 DEF RequestInv
  <2>9. tx[r].balance \in [Accounts -> (0 .. MaxSafe) \union {NoWrite}]
    BY <1>0 DEF Tx
  <2> HIDE DEF i
  <2>10. \A a \in Accounts :
           tx'[r].balance[a] = IF a = i.from THEN balance[a] - i.amount
                               ELSE IF a = i.to THEN balance[a] + i.amount ELSE NoWrite
    BY <1>0, <2>3, <2>8, <2>9
  <2> QED
    BY <1>0, <2>3, <2>4, <2>5, <2>6, <2>7, <2>10 DEF RequestInv, i
<1>6. CASE CreateNotifications(r)
  <2>1. tx'[r].transfers = tx[r].transfers /\ tx'[r].balance = tx[r].balance
    BY <1>6 DEF CreateNotifications, TypeOK, Tx
  <2> QED
    <3>1. /\ pc[r] = "notify" /\ pc'[r] = "commit"
          /\ UNCHANGED <<now, tables, lock, locals, reply>>
      BY <1>6 DEF CreateNotifications, Goto, TypeOK
    <3>2. Committed(i)' = Committed(i) /\ Row(r)' = Row(r) /\ i' = i
      BY <3>1 DEF Committed, Row, tables, locals
    <3>3. /\ reply'[r] = None /\ lock'[i.from] = r /\ lock'[i.to] = r /\ toRow'[r] = balance[i.to]
          /\ balance' = balance /\ open' = open /\ {i.from, i.to} \subseteq open
          /\ i.amount <= MaxSafe
          /\ Currency[i.from] = i.currency /\ Currency[i.to] = i.currency
          /\ balance[i.to] + i.amount <= MaxSafe /\ balance[i.from] >= i.amount
      BY <3>1 DEF RequestInv, tables, locals
    <3>4. tx[r].transfers = {Row(r)}
      BY <3>1 DEF RequestInv
    <3>5. \A a \in Accounts :
            tx[r].balance[a] = IF a = i.from THEN balance[a] - i.amount
                               ELSE IF a = i.to THEN balance[a] + i.amount ELSE NoWrite
      BY <3>1 DEF RequestInv
    <3> HIDE DEF i
    <3> QED
      BY <1>0, <2>1, <3>1, <3>2, <3>3, <3>4, <3>5 DEF RequestInv, i
<1>7. CASE Commit(r) \/ CommitUnacknowledged(r)
  BY <1>7, RollbackInv DEF Commit, CommitUnacknowledged, ApplyTx
<1> QED
  BY <1>1, <1>2, <1>4, <1>5, <1>6, <1>7
     DEF Step, CheckSource, CheckDestination, Lookup, Replay, Begin, LockFirst,
         LockSecond, Relookup, CheckDailyLimit

LEMMA ArriveInv ==
  ASSUME TypeOK, NEW r \in Requests, RequestInv(r), NEW i \in Intents, Arrive(r, i)
  PROVE  RequestInv(r)'
<1>1. Unwritten(r)'
  BY UnwrittenBefore DEF Arrive, Unwritten
<1>2. CASE EdgeVerdict(i) # Pass
  BY <1>1, <1>2, DoneUnwrittenInv DEF Arrive, Answer, Goto, TypeOK
<1>3. CASE EdgeVerdict(i) = Pass
  <2>1. i.from # i.to /\ ~(i.amount > MaxSafe)
    BY <1>3 DEF EdgeVerdict
  <2>2. i.amount <= MaxSafe
    BY <2>1, IntentsAssumption, LimitsAssumption DEF Intent
  <2>3. pc'[r] = "source" /\ req'[r] = i /\ reply'[r] = None
    BY <1>3 DEF Arrive, Goto, RequestInv, TypeOK
  <2> QED
    BY <1>1, <2>1, <2>2, <2>3 DEF RequestInv, Unwritten
<1> QED
  BY <1>2, <1>3

\* RequestInv of every request is preserved.
LEMMA RequestsKeepInv ==
  ASSUME TypeOK, \A r \in Requests : RequestInv(r), [Next]_vars
  PROVE  \A r \in Requests : RequestInv(r)'
<1> SUFFICES ASSUME NEW r \in Requests
             PROVE  RequestInv(r)'
  OBVIOUS
<1>1. CASE Step(r)
  BY <1>1, EarlyInv, LateInv
     DEF Step, CheckSource, CheckDestination, Lookup, Replay, Begin, LockFirst,
         LockSecond, Relookup, CheckDailyLimit, CreateTransfer, CreateEntries,
         Debit, Credit, CreateNotifications, Commit, CommitUnacknowledged
<1>2. CASE Fail(r)
  BY <1>2, RollbackInv DEF Fail, Rollback
<1>3. ASSUME NEW i \in Intents, Arrive(r, i)
      PROVE  RequestInv(r)'
  BY <1>3, ArriveInv
<1>4. CASE UNCHANGED vars
  <2>1. Frame(None)
    BY <1>4 DEF Frame, vars, tables, locals
  <2> QED
    BY <2>1, FramePreserves, NoneAssumption
<1> QED
  BY <1>1, <1>2, <1>3, <1>4, OthersKeepInv

-----------------------------------------------------------------------------
(* The tables change only when a transaction with its rows staged commits. *)

LEMMA TablesChange ==
  ASSUME TypeOK, \A r \in Requests : RequestInv(r), [Next]_vars
  PROVE  \/ UNCHANGED tables
         \/ \E a \in Accounts, deposit \in Deposits : CreateAccount(a, deposit)
         \/ \E r \in Requests :
              /\ pc[r] = "commit" /\ ApplyTx(r)
              /\ transfers' = transfers \union {Row(r)}
              /\ \/ Answer(r, "ok") /\ answer' = [answer EXCEPT ![r] = r]
                 \/ Answer(r, "failed") /\ answer' = answer
<1>1. ASSUME NEW r \in Requests, Step(r), ~Commit(r), ~CommitUnacknowledged(r)
      PROVE  UNCHANGED tables
  BY <1>1 DEF Step, CheckSource, CheckDestination, Lookup, Replay, Begin, LockFirst,
       LockSecond, GetAccountForUpdate, Relookup, CheckDailyLimit, CreateTransfer,
       CreateEntries, Debit, Credit, AddAccountBalance, CreateNotifications,
       Refuse, Rollback, Proceed, tables
<1>2. ASSUME NEW r \in Requests, Commit(r) \/ CommitUnacknowledged(r)
      PROVE  /\ pc[r] = "commit" /\ ApplyTx(r)
             /\ transfers' = transfers \union {Row(r)}
             /\ \/ Answer(r, "ok") /\ answer' = [answer EXCEPT ![r] = r]
                \/ Answer(r, "failed") /\ answer' = answer
  BY <1>2 DEF Commit, CommitUnacknowledged, ApplyTx, RequestInv
<1>3. ASSUME NEW r \in Requests, Fail(r) \/ \E i \in Intents : Arrive(r, i)
      PROVE  UNCHANGED tables
  BY <1>3 DEF Fail, Rollback, Arrive, tables
<1>4. CASE Tick \/ Quiescent \/ UNCHANGED vars
  BY <1>4 DEF Tick, Quiescent, vars, tables
<1> QED
  BY <1>1, <1>2, <1>3, <1>4 DEF Next

LEMMA TransfersChange ==
  ASSUME TypeOK, \A r \in Requests : RequestInv(r), [Next]_vars
  PROVE  \/ UNCHANGED transfers
         \/ \E r \in Requests :
              /\ pc[r] = "commit" /\ ApplyTx(r)
              /\ transfers' = transfers \union {Row(r)}
              /\ \/ Answer(r, "ok") /\ answer' = [answer EXCEPT ![r] = r]
                 \/ Answer(r, "failed") /\ answer' = answer
BY TablesChange DEF CreateAccount, tables

\* An answered request stays answered, with the same answer.
LEMMA AnsweredStays ==
  ASSUME TypeOK, \A r \in Requests : RequestInv(r), [Next]_vars,
         NEW r \in Requests, pc[r] = "done"
  PROVE  pc'[r] = "done" /\ req'[r] = req[r] /\ reply'[r] = reply[r] /\ answer'[r] = answer[r]
<1>1. ASSUME NEW q, Frame(q), q # r
      PROVE  pc'[r] = pc[r] /\ req'[r] = req[r] /\ reply'[r] = reply[r] /\ answer'[r] = answer[r]
  BY <1>1 DEF Frame
<1>2. ASSUME NEW q \in Requests, Step(q)
      PROVE  Frame(q) /\ q # r
  BY <1>2, StepFrame
     DEF Step, CheckSource, CheckDestination, Lookup, Replay, Begin, LockFirst,
         LockSecond, Relookup, CheckDailyLimit, CreateTransfer, CreateEntries,
         Debit, Credit, CreateNotifications, Commit, CommitUnacknowledged
<1>3. ASSUME NEW q \in Requests, Fail(q)
      PROVE  Frame(q) /\ q # r
  BY <1>3, RollbackFrame DEF Fail
<1>4. ASSUME NEW q \in Requests, NEW i \in Intents, Arrive(q, i)
      PROVE  Frame(q) /\ q # r
  BY <1>4, LocalFrame DEF Arrive, Answer, Goto, TypeOK
<1>5. ASSUME \E a \in Accounts, deposit \in Deposits : CreateAccount(a, deposit)
      PROVE  UNCHANGED <<pc, req, reply, answer>>
  BY <1>5 DEF CreateAccount, locals
<1>6. CASE Tick \/ Quiescent \/ UNCHANGED vars
  BY <1>6 DEF Tick, Quiescent, vars, locals
<1> QED
  BY <1>1, <1>2, <1>3, <1>4, <1>5, <1>6 DEF Next

\* A request becomes "ok" only by committing or by replaying.
LEMMA OkStep ==
  ASSUME TypeOK, \A r \in Requests : RequestInv(r), [Next]_vars,
         NEW r \in Requests, pc[r] # "done", reply'[r] = "ok"
  PROVE  \/ Commit(r)
         \/ \E t \in Committed(req[r]) :
              /\ ReplayMatches(t, req[r]) /\ answer'[r] = t.id
              /\ req' = req /\ transfers' = transfers
<1>1. reply[r] # "ok" /\ reply[r] = None
  <2>1. pc[r] \in Labels
    BY DEF TypeOK
  <2>2. reply[r] = None
    BY <2>1 DEF RequestInv
  <2> QED
    BY <2>2, NoneAssumption
<1>2. ASSUME NEW q, Frame(q), q # r
      PROVE  reply'[r] # "ok"
  BY <1>1, <1>2 DEF Frame
<1>3. ASSUME NEW q \in Requests, Step(q) \/ Fail(q), q # r
      PROVE  FALSE
  BY <1>2, <1>3, StepFrame, RollbackFrame DEF Fail
<1>4. ASSUME NEW q \in Requests, NEW i \in Intents, Arrive(q, i)
      PROVE  FALSE
  BY <1>1, <1>4 DEF Arrive, Answer, EdgeVerdict, TypeOK
<1>5. ASSUME \/ \E a \in Accounts, deposit \in Deposits : CreateAccount(a, deposit)
             \/ Tick \/ Quiescent \/ UNCHANGED vars
      PROVE  FALSE
  BY <1>1, <1>5 DEF CreateAccount, Tick, Quiescent, vars
<1>6. ~Fail(r)
  BY DEF Fail, Rollback, Answer, TypeOK
<1>7. Step(r)
  BY <1>3, <1>4, <1>5, <1>6 DEF Next
<1>8. ASSUME Replay(r) \/ Relookup(r)
      PROVE  \E t \in Committed(req[r]) :
               /\ ReplayMatches(t, req[r]) /\ answer'[r] = t.id
               /\ req' = req /\ transfers' = transfers
  <2>1. CASE Replay(r)
    <3>1. ~Refuse(r, "idempotency_conflict")
      BY DEF Refuse, Answer, TypeOK
    <3>2. /\ ReplayMatches(existing[r], req[r])
          /\ answer' = [answer EXCEPT ![r] = existing[r].id]
          /\ UNCHANGED <<now, tables, lock, req, began, toRow, existing, tx>>
      BY <2>1, <3>1 DEF Replay
    <3>3. existing[r] \in Committed(req[r])
      BY <2>1 DEF Replay, RequestInv
    <3> QED
      BY <3>2, <3>3 DEF tables, TypeOK
  <2>2. CASE Relookup(r)
    <3>1. LockedVerdict(r) # "ok"
      BY DEF LockedVerdict
    <3>2. ASSUME NEW code, code # "ok", Rollback(r, code)
          PROVE  FALSE
      BY <3>2 DEF Rollback, Answer, TypeOK
    <3>3. ~Proceed(r, "limit")
      BY <1>1 DEF Proceed
    <3>4. PICK t \in Committed(req[r]) :
            /\ ReplayMatches(t, req[r])
            /\ answer' = [answer EXCEPT ![r] = t.id]
            /\ UNCHANGED <<now, tables, req, began, toRow, existing>>
      BY <2>2, <3>1, <3>2, <3>3 DEF Relookup
    <3> QED
      BY <3>4 DEF tables, TypeOK
  <2> QED
    BY <1>8, <2>1, <2>2
<1>9. ~CheckSource(r) /\ ~CheckDestination(r) /\ ~Lookup(r)
  BY <1>1 DEF CheckSource, CheckDestination, Lookup, Refuse, Answer, Proceed,
       SourceVerdict, AccountVerdict, TypeOK
<1>10. ~Begin(r) /\ ~LockFirst(r) /\ ~LockSecond(r) /\ ~CheckDailyLimit(r)
  BY <1>1 DEF Begin, LockFirst, LockSecond, GetAccountForUpdate, CheckDailyLimit,
       Rollback, Answer, Proceed, TypeOK
<1>11. ~CreateTransfer(r) /\ ~CreateEntries(r) /\ ~CreateNotifications(r)
  BY <1>1 DEF CreateTransfer, CreateEntries, CreateNotifications
<1>12. ~Debit(r) /\ ~Credit(r)
  BY <1>1 DEF Debit, Credit, AddAccountBalance, Rollback, Answer, TypeOK
<1>13. ~CommitUnacknowledged(r)
  BY DEF CommitUnacknowledged, Answer, TypeOK
<1> QED
  BY <1>7, <1>8, <1>9, <1>10, <1>11, <1>12, <1>13 DEF Step

-----------------------------------------------------------------------------
(* The invariant.                                                          *)

LEMMA InitInv == Init => InductiveInv
<1> SUFFICES ASSUME Init
             PROVE  InductiveInv
  OBVIOUS
<1>1. TypeOK
  BY InitType
<1>2. \A r \in Requests : RequestInv(r)
  BY DEF Init, RequestInv, EmptyTx
<1> QED
  BY <1>1, <1>2, NoneAssumption
     DEF Init, InductiveInv, OncePerKey, RefusedMovesNothing, ReplyTruth

LEMMA NextInv == InductiveInv /\ [Next]_vars => InductiveInv'
<1> SUFFICES ASSUME InductiveInv, [Next]_vars
             PROVE  InductiveInv'
  OBVIOUS
<1>1. TypeOK /\ \A r \in Requests : RequestInv(r)
  BY DEF InductiveInv
<1>2. TypeOK'
  BY <1>1, NextType
<1>3. \A r \in Requests : RequestInv(r)'
  BY <1>1, RequestsKeepInv
<1>4. ASSUME NEW r \in Requests, pc[r] = "commit", ApplyTx(r),
             transfers' = transfers \union {Row(r)},
             Answer(r, "ok") \/ Answer(r, "failed")
      PROVE  /\ \A t \in transfers' : pc'[t.id] = "done"
             /\ OncePerKey'
             /\ RefusedMovesNothing'
  <2>1. pc'[r] = "done" /\ reply'[r] \in {"ok", "failed"}
    BY <1>1, <1>4 DEF Answer, Goto, TypeOK
  <2>2. \A t \in transfers : ~SameKey(t, Row(r)) /\ ~SameKey(Row(r), t)
    <3>1. Committed(req[r]) = {}
      BY <1>1, <1>4 DEF RequestInv
    <3>2. Row(r).from = req[r].from /\ Row(r).key = req[r].key
      BY DEF Row
    <3> QED
      BY <3>1, <3>2 DEF Committed, SameKey
  <2>3. Row(r).id = r
    BY DEF Row
  <2>4. \A t \in transfers :
          t.id \in Requests /\ pc'[t.id] = "done" /\ reply'[t.id] \in {"ok", "failed"}
    BY <1>1, AnsweredStays DEF InductiveInv, RefusedMovesNothing, TypeOK, TransferRow
  <2> QED
    BY <1>4, <2>1, <2>2, <2>3, <2>4
       DEF InductiveInv, OncePerKey, RefusedMovesNothing, SameKey
<1>5. ASSUME UNCHANGED transfers
      PROVE  /\ \A t \in transfers' : pc'[t.id] = "done"
             /\ OncePerKey'
             /\ RefusedMovesNothing'
  <2>1. \A t \in transfers :
          t.id \in Requests /\ pc'[t.id] = "done" /\ reply'[t.id] = reply[t.id]
    BY <1>1, AnsweredStays DEF InductiveInv, TypeOK, TransferRow
  <2> QED
    BY <1>5, <2>1 DEF InductiveInv, OncePerKey, RefusedMovesNothing, SameKey
<1>6. ReplyTruth'
  <2> SUFFICES ASSUME NEW r \in Requests, reply'[r] = "ok"
               PROVE  \E t \in transfers' : /\ SameKey(t, req'[r]) /\ t.id = answer'[r]
                                            /\ ReplayMatches(t, req'[r])
    BY DEF ReplyTruth, Committed, ReplayMatches
  <2>0. transfers \subseteq transfers'
    BY <1>1, TransfersChange
  <2>1. CASE pc[r] = "done"
    BY <1>1, <2>0, <2>1, AnsweredStays DEF InductiveInv, ReplyTruth, Committed, SameKey, ReplayMatches
  <2>2. CASE Commit(r)
    <3>1. Row(r) \in transfers' /\ answer'[r] = r /\ req'[r] = req[r]
      <4>1. tx[r].transfers = {Row(r)}
        BY <1>1, <2>2 DEF Commit, RequestInv
      <4> QED
        BY <1>1, <2>2, <4>1 DEF Commit, ApplyTx, TypeOK
    <3>2. SameKey(Row(r), req[r]) /\ ReplayMatches(Row(r), req[r]) /\ Row(r).id = r
      BY <1>1, <2>2 DEF Commit, RequestInv, Row, SameKey, ReplayMatches
    <3> QED
      BY <3>1, <3>2
  <2>3. CASE pc[r] # "done" /\ ~Commit(r)
    BY <1>1, <2>3, OkStep DEF Committed
  <2> QED
    BY <2>1, <2>2, <2>3
<1>7. /\ \A t \in transfers' : pc'[t.id] = "done"
      /\ OncePerKey'
      /\ RefusedMovesNothing'
  BY <1>1, <1>4, <1>5, TransfersChange
<1> QED
  BY <1>2, <1>3, <1>6, <1>7 DEF InductiveInv

\* The inductive invariant of the request handlers and TransferTx.
THEOREM InvariantHolds == Spec => []InductiveInv
<1> QED
  BY InitInv, NextInv, PTL DEF Spec

\* The state is well typed; in particular no balance leaves 0 .. MaxSafe.
THEOREM TypeCorrect == Spec => []TypeOK
<1>1. InductiveInv => TypeOK
  BY DEF InductiveInv
<1> QED
  BY <1>1, InvariantHolds, PTL

\* At most one transfer is committed for a source account and a key.
THEOREM AtMostOncePerKey == Spec => []OncePerKey
<1>1. InductiveInv => OncePerKey
  BY DEF InductiveInv
<1> QED
  BY <1>1, InvariantHolds, PTL

\* "ok" always names a committed transfer that is the one asked for, and a
\* refused attempt has left no transfer behind.
THEOREM AnswersAreReliable == Spec => []AnswersHold
<1>1. InductiveInv => AnswersHold
  BY DEF InductiveInv, AnswersHold
<1> QED
  BY <1>1, InvariantHolds, PTL

\* The row locks decide a key before the unique index is asked, and keep the
\* rows of a transaction that has passed its checks for itself.
THEOREM LocksDecide == Spec => []DecidedUnderLock
<1>1. ASSUME InductiveInv
      PROVE  DecidedUnderLock
  <2> SUFFICES ASSUME NEW r \in Requests, pc[r] \in Decided
               PROVE  /\ Committed(req[r]) = {}
                      /\ toRow[r] = balance[req[r].to]
                      /\ \A q \in Requests \ {r} :
                           pc[q] \in Locked =>
                             {req[q].from, req[q].to} \cap {req[r].from, req[r].to} = {}
    BY DEF DecidedUnderLock
  <2>1. RequestInv(r)
    BY <1>1 DEF InductiveInv
  <2>2. ASSUME NEW q \in Requests \ {r}, pc[q] \in Locked
        PROVE  {req[q].from, req[q].to} \cap {req[r].from, req[r].to} = {}
    <3>1. RequestInv(q)
      BY <1>1 DEF InductiveInv
    <3> QED
      BY <2>1, <2>2, <3>1 DEF RequestInv
  <2> QED
    BY <2>1, <2>2 DEF RequestInv
<1> QED
  BY <1>1, InvariantHolds, PTL

\* A key moves money at most once, whichever of its attempts come together:
\* the lock of the source account decides, never the unique index.
THEOREM KeysSpentOnce == Spec => []OnceUnderLock
<1>1. OncePerKey /\ DecidedUnderLock => OnceUnderLock
  BY DEF OnceUnderLock
<1> QED
  BY <1>1, AtMostOncePerKey, LocksDecide, PTL

-----------------------------------------------------------------------------
(* A retry of a committed transfer is never refused for mutable reasons.   *)

LEMMA MutableRefusalStep ==
  ASSUME InductiveInv, [Next]_vars, NEW r \in Requests,
         reply[r] = None, reply'[r] \in MutableRefusals
  PROVE  Committed(req[r]) = {}
<1>1. TypeOK /\ RequestInv(r) /\ \A q \in Requests : RequestInv(q)
  BY DEF InductiveInv
<1>2. reply'[r] # reply[r]
  BY NoneAssumption
<1>3. ASSUME NEW q, Frame(q), q # r
      PROVE  FALSE
  BY <1>2, <1>3 DEF Frame
<1>4. ASSUME NEW q \in Requests, Step(q) \/ Fail(q), q # r
      PROVE  FALSE
  BY <1>1, <1>3, <1>4, StepFrame, RollbackFrame DEF Fail
<1>5. ASSUME NEW q \in Requests, NEW i \in Intents, Arrive(q, i)
      PROVE  FALSE
  BY <1>1, <1>2, <1>5 DEF Arrive, Answer, EdgeVerdict, TypeOK
<1>6. ASSUME \/ \E a \in Accounts, deposit \in Deposits : CreateAccount(a, deposit)
             \/ Tick \/ Quiescent \/ UNCHANGED vars
      PROVE  FALSE
  BY <1>2, <1>6 DEF CreateAccount, Tick, Quiescent, vars
<1>7. ~Fail(r)
  BY <1>1 DEF Fail, Rollback, Answer, TypeOK
<1>8. Step(r)
  BY <1>4, <1>5, <1>6, <1>7 DEF Next
<1>9. ASSUME NEW code \in Replies \ MutableRefusals, Answer(r, code)
      PROVE  FALSE
  BY <1>1, <1>9 DEF Answer, TypeOK
<1>10. ~Replay(r) /\ ~Commit(r) /\ ~CommitUnacknowledged(r) /\ ~Lookup(r)
  BY <1>2, <1>9 DEF Replay, Commit, CommitUnacknowledged, Lookup, Refuse, Proceed
<1>11. ~CheckSource(r) /\ ~CheckDestination(r)
  <2>1. /\ SourceVerdict(req[r]) \in (Replies \ MutableRefusals) \union {Pass}
        /\ AccountVerdict(req[r].to, req[r]) \in (Replies \ MutableRefusals) \union {Pass}
    BY DEF SourceVerdict, AccountVerdict
  <2> QED
    BY <1>2, <1>9, <2>1 DEF CheckSource, CheckDestination, Refuse, Proceed
<1>12. ~Begin(r) /\ ~LockFirst(r) /\ ~LockSecond(r)
  BY <1>2, <1>9 DEF Begin, LockFirst, LockSecond, GetAccountForUpdate, Rollback
<1>13. Relookup(r) => Committed(req[r]) = {}
  BY <1>9 DEF Relookup, Rollback
<1>14. ASSUME CheckDailyLimit(r) \/ CreateTransfer(r) \/ CreateEntries(r) \/ Debit(r)
              \/ Credit(r) \/ CreateNotifications(r)
       PROVE  Committed(req[r]) = {}
  BY <1>1, <1>14 DEF CheckDailyLimit, CreateTransfer, CreateEntries, Debit, Credit,
       CreateNotifications, RequestInv
<1> QED
  BY <1>8, <1>10, <1>11, <1>12, <1>13, <1>14 DEF Step

\* Once a transfer is committed, no attempt with its key is refused for lack
\* of funds, headroom or daily allowance.
THEOREM RetriesAreReplayed == Spec => RetryNeverRefused
<1>1. InductiveInv /\ [Next]_vars =>
        [\A r \in Requests :
           reply[r] = None /\ reply'[r] \in MutableRefusals => Committed(req[r]) = {}]_vars
  BY MutableRefusalStep
<1> QED
  BY <1>1, InvariantHolds, PTL DEF Spec, RetryNeverRefused

-----------------------------------------------------------------------------
(* Refinement: Transfers implements Ledger.                                *)

Movement(r) == [from |-> req[r].from, key |-> req[r].key,
                to |-> req[r].to, amount |-> req[r].amount]

\* A commit is one Move of the abstract ledger.
LEMMA CommitIsMove ==
  ASSUME InductiveInv, NEW r \in Requests, pc[r] = "commit", ApplyTx(r),
         transfers' = transfers \union {Row(r)}
  PROVE  \E m \in L!Movement : L!Move(m)
<1> DEFINE i == req[r]
           m == Movement(r)
<1>1. /\ TypeOK /\ RequestInv(r)
      /\ i \in Intent
  BY BodyType DEF InductiveInv
<1>2. /\ i.from \in Accounts /\ i.to \in Accounts /\ i.from # i.to
      /\ i.amount \in 1 .. MaxSafe /\ i.key \in Keys
      /\ {i.from, i.to} \subseteq open /\ Currency[i.from] = Currency[i.to]
      /\ balance[i.from] \in 0 .. MaxSafe /\ balance[i.to] \in 0 .. MaxSafe
      /\ balance[i.from] >= i.amount /\ balance[i.to] + i.amount <= MaxSafe
  BY <1>1, LimitsAssumption DEF RequestInv, Intent, TypeOK
<1>3. m \in L!Movement
  BY <1>2 DEF L!Movement, Movement
<1>4. L!Fresh(m)
  BY <1>1 DEF L!Fresh, Moved, Movement, RequestInv, Committed, SameKey
<1>5. balance' = [balance EXCEPT ![i.from] = @ - i.amount, ![i.to] = @ + i.amount]
  <2>1. \A a \in Accounts :
          balance'[a] = IF a = i.from THEN balance[a] - i.amount
                        ELSE IF a = i.to THEN balance[a] + i.amount ELSE balance[a]
    <3> SUFFICES ASSUME NEW a \in Accounts
                 PROVE  Visible(r, a) = IF a = i.from THEN balance[a] - i.amount
                          ELSE IF a = i.to THEN balance[a] + i.amount ELSE balance[a]
      BY DEF ApplyTx
    <3> QED
      BY <1>1, <1>2 DEF Visible, RequestInv, NoWrite
  <2>2. balance' = [a \in Accounts |-> balance'[a]]
    BY DEF ApplyTx
  <2>3. balance \in [Accounts -> 0 .. MaxSafe]
    BY <1>1 DEF TypeOK
  <2> QED
    BY <1>2, <2>1, <2>2, <2>3
<1>6. Moved' = Moved \union {m}
  <2>1. [from |-> Row(r).from, key |-> Row(r).key, to |-> Row(r).to,
         amount |-> Row(r).amount] = m
    BY DEF Row, Movement
  <2>2. \A x : x \in Moved' <=> x \in Moved \/ x = m
    BY <2>1 DEF Moved
  <2> QED
    BY <2>2
<1>7. open' = open
  BY DEF ApplyTx
<1> QED
  BY <1>2, <1>3, <1>4, <1>5, <1>6, <1>7 DEF L!Move, Movement

\* TransferTx under concurrency, failures and retries behaves like a ledger
\* that moves money in one step, at most once for a key.
THEOREM Refinement == Spec => ImplementsLedger
<1>1. Init => L!LedgerInit
  BY DEF Init, L!LedgerInit, Moved
<1>2. ASSUME InductiveInv, [Next]_vars
      PROVE  [L!LedgerNext]_<<open, balance, Moved>>
  <2>1. TypeOK /\ \A r \in Requests : RequestInv(r)
    BY <1>2 DEF InductiveInv
  <2>2. CASE UNCHANGED <<open, balance, transfers>>
    BY <2>2 DEF Moved
  <2>3. ASSUME NEW a \in Accounts, NEW deposit \in Deposits, CreateAccount(a, deposit)
        PROVE  L!LedgerNext
    <3>1. deposit \in 0 .. MaxSafe
      BY <2>3, LimitsAssumption DEF CreateAccount
    <3>2. L!OpenAccount(a, deposit)
      BY <2>3 DEF CreateAccount, L!OpenAccount, Moved
    <3> QED
      BY <3>1, <3>2 DEF L!LedgerNext
  <2>4. ASSUME NEW r \in Requests, pc[r] = "commit", ApplyTx(r),
               transfers' = transfers \union {Row(r)}
        PROVE  L!LedgerNext
    BY <1>2, <2>4, CommitIsMove DEF L!LedgerNext
  <2> QED
    BY <1>2, <2>1, <2>2, <2>3, <2>4, TablesChange DEF tables
<1> QED
  BY <1>1, <1>2, InvariantHolds, PTL DEF Spec, ImplementsLedger, L!LedgerSpec, L!ledgerVars

-----------------------------------------------------------------------------
(* The books: what a transaction will record, and what is recorded.        *)

\* The rows a transaction adds for its two accounts.
Paid(r) == [by |-> r, account |-> req[r].from, amount |-> -req[r].amount]
Got(r) == [by |-> r, account |-> req[r].to, amount |-> req[r].amount]
SentNote(r) == [transfer |-> r, account |-> req[r].from, direction |-> "sent",
                balance |-> balance[req[r].from] - req[r].amount]
ReceivedNote(r) == [transfer |-> r, account |-> req[r].to, direction |-> "received",
                    balance |-> balance[req[r].to] + req[r].amount]
WakeOf(r, a) == [transfer |-> r, owner |-> Owner[a]]

\* What a transaction has staged besides its transfer and its balances: the
\* balances in the notes are the ones it leaves.
Writes(r) ==
  /\ tx[r].entries = IF pc[r] \in Debited \union {"debit"} THEN {Paid(r), Got(r)} ELSE {}
  /\ tx[r].notes = IF pc[r] = "commit" THEN {SentNote(r), ReceivedNote(r)} ELSE {}
  /\ tx[r].notify = IF pc[r] = "commit"
                      THEN {WakeOf(r, req[r].from), WakeOf(r, req[r].to)} ELSE {}

\* What a request has been found to obey, and still does.
Obeys(r) ==
  LET i == req[r] IN
  /\ pc[r] \in Labels \ {"idle", "done"} /\ MaxPerTransfer[i.currency] > 0 =>
       i.amount <= MaxPerTransfer[i.currency]
  /\ pc[r] \in Checked \union {"destination"} => Owner[i.from] = i.caller

\* The day's transfers leave room for the one that was checked, for as long as
\* its source is locked.
LeavesRoom(r) ==
  LET i == req[r] IN
  pc[r] \in Inserted \union {"insert"} /\ DailyLimit[i.currency] > 0 =>
    Total(Outgoing(i.from, now - Window)) + i.amount <= DailyLimit[i.currency]

\* Rows are recorded by requests that are over, for accounts that are open.
Recorded ==
  /\ IsFiniteSet(transfers) /\ IsFiniteSet(entries)
  /\ \A e \in entries : e.account \in open /\ (e.by # None => pc[e.by] = "done")
  /\ \A n \in notifications : pc[n.transfer] = "done"
  /\ \A w \in wakeups : \E t \in transfers : t.id = w.transfer

BooksInv ==
  /\ \A r \in Requests : Writes(r) /\ Obeys(r) /\ LeavesRoom(r)
  /\ Recorded /\ PolicyObeyed
  /\ BooksBalance /\ DailyCap

\* A step of a request that leaves the staged rows as they are, before there
\* are any or after, or that ends the transaction.
LEMMA NothingStaged ==
  ASSUME TypeOK, NEW r \in Requests, Writes(r),
         tx'[r] = EmptyTx \/ (tx'[r] = tx[r] /\ pc[r] \notin Debited \union {"debit"}),
         pc'[r] \notin Debited \union {"debit"}
  PROVE  Writes(r)'
<1>1. tx'[r].entries = {} /\ tx'[r].notes = {} /\ tx'[r].notify = {}
  BY DEF Writes, EmptyTx
<1> QED
  BY <1>1 DEF Writes

LEMMA OwnWrites ==
  ASSUME TypeOK, NEW r \in Requests, RequestInv(r), Writes(r), Step(r)
  PROVE  Writes(r)'
<1> DEFINE i == req[r]
<1>0. tx \in [Requests -> Tx] /\ tx[r] \in Tx /\ pc \in [Requests -> Labels]
  BY DEF TypeOK
<1>1. ASSUME NEW code \in Replies, Rollback(r, code) PROVE Writes(r)'
  BY <1>0, <1>1, NothingStaged DEF Rollback, Answer, Goto, EndTx
<1>2. CASE /\ pc[r] \in {"source", "destination", "lookup", "resolve", "replay", "begin",
                         "lockFirst", "lockSecond", "relookup", "limit"}
           /\ UNCHANGED tx
           /\ pc'[r] \notin Debited \union {"debit"}
  BY <1>2, NothingStaged
<1>3. CASE CheckSource(r) \/ CheckDestination(r) \/ Lookup(r) \/ Replay(r) \/ Begin(r)
  <2>1. UNCHANGED tx
    BY <1>3 DEF CheckSource, CheckDestination, Lookup, Replay, Begin, Refuse, Proceed
  <2>2. pc'[r] \in {"done", "destination", "lookup", "begin", "replay", "lockFirst"}
    BY <1>0, <1>3 DEF CheckSource, CheckDestination, Lookup, Replay, Begin, Refuse, Proceed,
                      Answer, Goto
  <2>3. pc[r] \in {"source", "destination", "lookup", "resolve", "replay", "begin"}
    BY <1>3 DEF CheckSource, CheckDestination, Lookup, Replay, Begin
  <2> QED
    BY <1>2, <2>1, <2>2, <2>3
<1>4. CASE LockFirst(r) \/ LockSecond(r)
  <2>1. PICK a, label : GetAccountForUpdate(r, a, label) /\ label \in {"lockSecond", "relookup"}
    BY <1>4 DEF LockFirst, LockSecond
  <2>2. CASE a \in open
    BY <1>0, <1>2, <1>4, <2>1, <2>2 DEF GetAccountForUpdate, Goto, LockFirst, LockSecond
  <2> QED
    BY <1>1, <2>1, <2>2 DEF GetAccountForUpdate
<1>5. CASE Relookup(r)
  <2>1. CASE Answer(r, "ok") /\ EndTx(r)
    BY <1>0, <2>1, NothingStaged DEF Answer, Goto, EndTx
  <2>2. CASE Proceed(r, "limit")
    BY <1>0, <1>2, <1>5, <2>2 DEF Proceed, Goto, Relookup
  <2>3. LockedVerdict(r) \in Replies \union {Pass}
    BY DEF LockedVerdict
  <2> QED
    BY <1>1, <1>5, <2>1, <2>2, <2>3 DEF Relookup
<1>6. CASE CheckDailyLimit(r)
  <2>1. CASE Proceed(r, "insert")
    BY <1>0, <1>2, <1>6, <2>1 DEF Proceed, Goto, CheckDailyLimit
  <2> QED
    BY <1>1, <1>6, <2>1 DEF CheckDailyLimit
<1>7. CASE CreateTransfer(r)
  <2>1. CASE EndTx(r) /\ Goto(r, "resolve")
    BY <1>0, <2>1, NothingStaged DEF Goto, EndTx
  <2>2. CASE tx' = [tx EXCEPT ![r].transfers = {Row(r)}] /\ Goto(r, "entries")
    <3>1. /\ pc[r] = "insert" /\ pc'[r] = "entries" /\ tx'[r].entries = tx[r].entries
          /\ tx'[r].notes = tx[r].notes /\ tx'[r].notify = tx[r].notify
      BY <1>0, <1>7, <2>2 DEF Goto, Tx, CreateTransfer
    <3> QED
      BY <3>1 DEF Writes
  <2> QED
    BY <1>7, <2>1, <2>2 DEF CreateTransfer
<1>8. CASE CreateEntries(r)
  <2>1. /\ pc[r] = "entries" /\ pc'[r] = "debit" /\ req' = req
        /\ tx'[r].entries = {Paid(r), Got(r)}
        /\ tx'[r].notes = tx[r].notes /\ tx'[r].notify = tx[r].notify
    BY <1>0, <1>8 DEF CreateEntries, Goto, Tx, Paid, Got, locals
  <2> QED
    BY <2>1 DEF Writes, Paid, Got
<1>9. CASE Debit(r) \/ Credit(r)
  <2>1. PICK a, amount, label :
          /\ AddAccountBalance(r, a, amount, label)
          /\ pc[r] \in {"debit", "credit"} /\ label \in {"credit", "notify"}
    BY <1>9 DEF Debit, Credit
  <2>2. CASE Visible(r, a) + amount \in 0 .. MaxSafe
    <3>1. /\ pc'[r] = label /\ req' = req /\ tx'[r].entries = tx[r].entries
          /\ tx'[r].notes = tx[r].notes /\ tx'[r].notify = tx[r].notify
      BY <1>0, <2>1, <2>2 DEF AddAccountBalance, Goto, Tx, locals
    <3> QED
      BY <2>1, <3>1 DEF Writes, Paid, Got
  <2> QED
    BY <1>1, <2>1, <2>2 DEF AddAccountBalance
<1>10. CASE CreateNotifications(r)
  <2>0. i \in Intent /\ i.from # i.to /\ i.from \in Accounts /\ i.to \in Accounts
    BY <1>10, BodyType DEF CreateNotifications, RequestInv, Intent
  <2>1. /\ Visible(r, i.from) = balance[i.from] - i.amount
        /\ Visible(r, i.to) = balance[i.to] + i.amount
    <3>1. /\ balance[i.from] \in 0 .. MaxSafe /\ balance[i.to] \in 0 .. MaxSafe
          /\ balance[i.from] >= i.amount /\ i.amount \in Nat /\ MaxSafe \in Nat
      BY <1>10, <2>0, LimitsAssumption DEF CreateNotifications, RequestInv, TypeOK, Intent
    <3>2. /\ tx[r].balance[i.from] = balance[i.from] - i.amount
          /\ tx[r].balance[i.to] = balance[i.to] + i.amount
      BY <1>10, <2>0 DEF CreateNotifications, RequestInv
    <3> QED
      BY <3>1, <3>2 DEF Visible, NoWrite
  <2>2. /\ pc[r] = "notify" /\ pc'[r] = "commit" /\ req' = req /\ balance' = balance
        /\ tx'[r].entries = tx[r].entries
        /\ tx'[r].notes = {SentNote(r), ReceivedNote(r)}
        /\ tx'[r].notify = {WakeOf(r, i.from), WakeOf(r, i.to)}
    BY <1>0, <1>10, <2>1
       DEF CreateNotifications, Goto, Tx, locals, tables, SentNote, ReceivedNote, WakeOf
  <2> QED
    BY <2>2 DEF Writes, Paid, Got, SentNote, ReceivedNote, WakeOf
<1>11. CASE Commit(r) \/ CommitUnacknowledged(r)
  BY <1>0, <1>11, NothingStaged
     DEF Commit, CommitUnacknowledged, ApplyTx, Answer, Goto, EndTx
<1> QED
  BY <1>3, <1>4, <1>5, <1>6, <1>7, <1>8, <1>9, <1>10, <1>11 DEF Step

\* What is staged for a request stays so when another takes a step.
LEMMA NextWrites ==
  ASSUME TypeOK, \A q \in Requests : RequestInv(q), [Next]_vars, NEW r \in Requests, Writes(r)
  PROVE  Writes(r)'
<1>0. tx \in [Requests -> Tx] /\ pc \in [Requests -> Labels] /\ RequestInv(r)
  BY DEF TypeOK
<1>1. ASSUME NEW q, q # r, Frame(q) PROVE Writes(r)'
  <2>1. pc'[r] = pc[r] /\ req'[r] = req[r] /\ tx'[r] = tx[r]
    BY <1>1 DEF Frame
  <2>2. pc[r] = "commit" =>
          balance'[req[r].from] = balance[req[r].from] /\ balance'[req[r].to] = balance[req[r].to]
    BY <1>0, <1>1 DEF Frame, RequestInv
  <2> QED
    BY <2>1, <2>2 DEF Writes, Paid, Got, SentNote, ReceivedNote, WakeOf
<1>2. CASE Fail(r)
  BY <1>0, <1>2, NothingStaged DEF Fail, Rollback, Answer, Goto, EndTx
<1>3. ASSUME NEW i \in Intents, Arrive(r, i) PROVE Writes(r)'
  BY <1>0, <1>3, NothingStaged DEF Arrive, Answer, Goto
<1> QED
  BY <1>0, <1>1, <1>2, <1>3, OwnWrites, Movers

\* A step of a request keeps its body.
LEMMA BodyStays ==
  ASSUME NEW r \in Requests, Step(r) \/ Fail(r)
  PROVE  req' = req
BY DEF Step, CheckSource, CheckDestination, Lookup, Replay, Begin, LockFirst, LockSecond,
   GetAccountForUpdate, Relookup, CheckDailyLimit, CreateTransfer, CreateEntries, Debit, Credit,
   AddAccountBalance, CreateNotifications, Commit, CommitUnacknowledged, ApplyTx, Fail, Refuse,
   Rollback, Proceed, locals

\* The checks at the edge are passed once, and hold from then on.
LEMMA NextObeys ==
  ASSUME TypeOK, \A q \in Requests : RequestInv(q), [Next]_vars, NEW r \in Requests, Obeys(r)
  PROVE  Obeys(r)'
<1>0. pc \in [Requests -> Labels] /\ RequestInv(r)
  BY DEF TypeOK
<1>1. ASSUME NEW q, q # r, Frame(q) PROVE Obeys(r)'
  <2>1. pc'[r] = pc[r] /\ req'[r] = req[r]
    BY <1>1 DEF Frame
  <2> QED
    BY <2>1 DEF Obeys
<1>2. CASE Step(r) /\ pc[r] # "source"
  <2>1. req'[r] = req[r] /\ pc[r] \in Checked \union {"destination"}
    BY <1>2, BodyStays DEF Step, CheckSource, CheckDestination, Lookup, Replay, Begin, LockFirst,
       LockSecond, Relookup, CheckDailyLimit, CreateTransfer, CreateEntries, Debit, Credit,
       CreateNotifications, Commit, CommitUnacknowledged
  <2> QED
    BY <2>1 DEF Obeys
<1>3. CASE CheckSource(r)
  <2>1. CASE Refuse(r, SourceVerdict(req[r]))
    BY <1>0, <2>1 DEF Refuse, Answer, Goto, Obeys
  <2>2. CASE SourceVerdict(req[r]) = Pass /\ Proceed(r, "destination")
    <3>1. Owner[req[r].from] = req[r].caller /\ req' = req /\ pc[r] = "source"
      BY <1>3, <2>2 DEF SourceVerdict, Proceed, locals, CheckSource
    <3> QED
      BY <3>1 DEF Obeys
  <2> QED
    BY <1>3, <2>1, <2>2 DEF CheckSource
<1>4. CASE Fail(r)
  BY <1>0, <1>4 DEF Fail, Rollback, Answer, Goto, Obeys
<1>5. ASSUME NEW i \in Intents, Arrive(r, i) PROVE Obeys(r)'
  <2>1. CASE pc'[r] = "done"
    BY <2>1 DEF Obeys
  <2>2. CASE EdgeVerdict(i) = Pass /\ pc'[r] = "source" /\ req'[r] = i
    <3>1. ~(MaxPerTransfer[i.currency] > 0 /\ i.amount > MaxPerTransfer[i.currency])
      BY <2>2 DEF EdgeVerdict
    <3>2. i.amount \in Nat /\ MaxPerTransfer[i.currency] \in Nat
      BY IntentsAssumption, LimitsAssumption DEF Intent
    <3> QED
      BY <2>2, <3>1, <3>2 DEF Obeys
  <2> QED
    BY <1>0, <1>5, <2>1, <2>2 DEF Arrive, Answer, Goto, TypeOK
<1>6. Step(r) /\ pc[r] = "source" => CheckSource(r)
  BY DEF Step, CheckDestination, Lookup, Replay, Begin, LockFirst,
     LockSecond, Relookup, CheckDailyLimit, CreateTransfer, CreateEntries, Debit, Credit,
     CreateNotifications, Commit, CommitUnacknowledged
<1> QED
  BY <1>1, <1>2, <1>3, <1>4, <1>5, <1>6, Movers

LEMMA ClockStep ==
  ASSUME TypeOK, [Next]_vars
  PROVE  /\ now \in Nat
         /\ \/ now' = now
            \/ now' = now + 1 /\ UNCHANGED <<tables, pc, req>>
<1>0. now \in Nat
  BY DEF TypeOK
<1>1. ASSUME NEW r \in Requests, Step(r) PROVE now' = now
  BY <1>1 DEF Step, CheckSource, CheckDestination, Lookup, Replay, Begin, LockFirst, LockSecond,
     GetAccountForUpdate, Relookup, CheckDailyLimit, CreateTransfer, CreateEntries, Debit, Credit,
     AddAccountBalance, CreateNotifications, Commit, CommitUnacknowledged, ApplyTx, Refuse,
     Rollback, Proceed
<1>2. ASSUME NEW r \in Requests, Fail(r) \/ \E i \in Intents : Arrive(r, i) PROVE now' = now
  BY <1>2 DEF Fail, Rollback, Arrive
<1>3. ASSUME NEW a \in Accounts, NEW deposit \in Deposits, CreateAccount(a, deposit)
      PROVE  now' = now
  BY <1>3 DEF CreateAccount
<1>4. CASE Quiescent \/ UNCHANGED vars
  BY <1>0, <1>4 DEF Quiescent, vars
<1>5. CASE Tick
  BY <1>0, <1>5 DEF Tick, locals
<1> QED
  BY <1>0, <1>1, <1>2, <1>3, <1>4, <1>5 DEF Next

\* What the day's transfers out of an account add up to, and that it does not
\* grow while nothing more is transferred out.
LEMMA DayType ==
  ASSUME TypeOK, IsFiniteSet(transfers), NEW a \in Accounts
  PROVE  Total(Outgoing(a, now - Window)) \in Nat
<1>1. IsFiniteSet(Outgoing(a, now - Window)) /\ IsFiniteSet({})
  BY FS_Subset, FS_EmptySet DEF Outgoing
<1>2. \A t \in Outgoing(a, now - Window) : t.amount \in Nat
  BY LimitsAssumption DEF Outgoing, TypeOK, TransferRow
<1>3. Total({}) <= Total(Outgoing(a, now - Window))
  BY <1>1, <1>2, TotalGrows
<1>4. Total(Outgoing(a, now - Window)) \in Int
  BY <1>1, <1>2, TotalType
<1> QED
  BY <1>3, <1>4, TotalEmpty

LEMMA DayShrinks ==
  ASSUME TypeOK, IsFiniteSet(transfers), NEW a \in Accounts,
         NEW S, S \subseteq Outgoing(a, now - Window)
  PROVE  Total(S) <= Total(Outgoing(a, now - Window))
<1>1. IsFiniteSet(Outgoing(a, now - Window))
  BY FS_Subset DEF Outgoing
<1>2. \A t \in Outgoing(a, now - Window) : t.amount \in Nat
  BY LimitsAssumption DEF Outgoing, TypeOK, TransferRow
<1> QED
  BY <1>1, <1>2, TotalGrows

LEMMA OutgoingShrinks ==
  ASSUME TypeOK, [Next]_vars, NEW a \in Accounts, \A t \in transfers' \ transfers : t.from # a
  PROVE  Outgoing(a, now - Window)' \subseteq Outgoing(a, now - Window)
<1>1. now - Window <= now' - Window /\ now - Window \in Int /\ now' - Window \in Int
  BY ClockStep, ClockAssumption
<1>2. transfers \subseteq TransferRow /\ \A t \in transfers : t.created \in Nat
  BY DEF TypeOK, TransferRow
<1> QED
  BY <1>1, <1>2 DEF Outgoing

\* The history that was checked is that of the commit, or the clock has left
\* some of it behind.
LEMMA NextRoom ==
  ASSUME TypeOK, TypeOK', \A q \in Requests : RequestInv(q), IsFiniteSet(transfers), [Next]_vars,
         NEW r \in Requests, LeavesRoom(r)
  PROVE  LeavesRoom(r)'
<1> DEFINE i == req[r]
           Late == Inserted \union {"insert"}
<1>0. pc \in [Requests -> Labels] /\ RequestInv(r)
  BY DEF TypeOK
<1>1. ASSUME pc[r] \in Late \union {"limit"}
      PROVE  /\ i \in Intent /\ i.from \in Accounts /\ i.amount \in Nat \ {0}
             /\ i.currency \in Currencies /\ DailyLimit[i.currency] \in 0 .. MaxSafe
             /\ MaxSafe \in Nat
  BY <1>1, BodyType, LimitsAssumption DEF Intent
<1>2. ASSUME pc[r] \in Late, pc'[r] \in Late, req'[r] = req[r],
             \A t \in transfers' \ transfers : t.from # i.from
      PROVE  LeavesRoom(r)'
  <2>1. Total(Outgoing(i.from, now - Window)') <= Total(Outgoing(i.from, now - Window))
    BY <1>1, <1>2, OutgoingShrinks, DayShrinks
  <2>2. Total(Outgoing(i.from, now - Window)') \in Int
        /\ Total(Outgoing(i.from, now - Window)) \in Int
    <3>1. IsFiniteSet(Outgoing(i.from, now - Window)')
      BY <1>1, <1>2, OutgoingShrinks, FS_Subset DEF Outgoing
    <3>2. \A t \in Outgoing(i.from, now - Window)' : t.amount \in Int
      BY LimitsAssumption DEF Outgoing, TypeOK, TransferRow
    <3> QED
      BY <1>1, <1>2, <3>1, <3>2, TotalType, DayType
  <2>3. DailyLimit[i.currency] > 0 =>
          Total(Outgoing(i.from, now - Window)) + i.amount <= DailyLimit[i.currency]
    BY <1>2 DEF LeavesRoom
  <2>4. DailyLimit[i.currency] > 0 =>
          Total(Outgoing(i.from, now - Window)') + i.amount <= DailyLimit[i.currency]
    BY <1>1, <1>2, <2>1, <2>2, <2>3
  <2> QED
    BY <1>2, <2>4 DEF LeavesRoom
<1>3. ASSUME NEW q, q # r, Frame(q), pc'[r] \in Late PROVE LeavesRoom(r)'
  <2>1. pc'[r] = pc[r] /\ req'[r] = req[r]
    BY <1>3 DEF Frame
  <2>2. \A t \in transfers' \ transfers : t.from # i.from
    BY <1>0, <1>3, <2>1 DEF Frame, RequestInv
  <2> QED
    BY <1>2, <1>3, <2>1, <2>2
<1>4. CASE CheckDailyLimit(r) /\ pc'[r] \in Late
  <2>1. /\ WithinDailyLimit(i) /\ pc[r] = "limit"
        /\ UNCHANGED <<transfers, now, req>>
    BY <1>0, <1>4 DEF CheckDailyLimit, Rollback, Answer, Goto, Proceed, tables, locals
  <2>2. CASE DailyLimit[i.currency] > 0
    <3> DEFINE out == Total(Outgoing(i.from, now - Window))
               room == DailyLimit[i.currency] - i.amount
    <3>1. out \in Nat
      BY <1>1, <2>1, DayType
    <3>2. i.amount <= DailyLimit[i.currency] /\ SumOutgoingTransfersSince(i.from) <= room
      BY <2>1, <2>2 DEF WithinDailyLimit
    <3>3. SumOutgoingTransfersSince(i.from) = IF out <= MaxSafe THEN out ELSE MaxSafe
      <4> HIDE DEF out
      <4>1. SumOutgoingTransfersSince(i.from) = Min({out, MaxSafe})
        BY DEF SumOutgoingTransfersSince, out
      <4>2. MaxSafe \in Nat
        BY LimitsAssumption
      <4> QED
        BY <3>1, <4>1, <4>2 DEF Min
    <3>4. room < MaxSafe /\ room \in Int
      BY <1>1, <2>1
    <3>5. out <= room
      <4> HIDE DEF out, room
      <4>1. MaxSafe \in Nat
        BY LimitsAssumption
      <4> QED
        BY <3>1, <3>2, <3>3, <3>4, <4>1
    <3>6. out + i.amount <= DailyLimit[i.currency]
      <4> HIDE DEF out
      <4> QED
        BY <1>1, <2>1, <3>1, <3>5
    <3> QED
      BY <2>1, <3>6 DEF LeavesRoom, Outgoing, Total
  <2> QED
    BY <2>1, <2>2 DEF LeavesRoom
<1>5. CASE Step(r) /\ ~CheckDailyLimit(r) /\ pc'[r] \in Late
  <2>1. pc[r] \in Late /\ UNCHANGED <<transfers, req>>
    <3>1. CASE CheckSource(r) \/ CheckDestination(r) \/ Lookup(r) \/ Replay(r) \/ Begin(r)
               \/ LockFirst(r) \/ LockSecond(r) \/ Relookup(r)
      BY <1>0, <1>5, <3>1 DEF CheckSource, CheckDestination, Lookup, Replay, Begin, LockFirst,
         LockSecond, GetAccountForUpdate, Relookup, Refuse, Rollback, Proceed, Answer, Goto
    <3>2. CASE CreateTransfer(r) \/ CreateEntries(r) \/ Debit(r) \/ Credit(r)
               \/ CreateNotifications(r)
      BY <3>2 DEF CreateTransfer, CreateEntries, Debit, Credit, AddAccountBalance, Rollback,
         CreateNotifications, tables, locals
    <3>3. ~Commit(r) /\ ~CommitUnacknowledged(r)
      BY <1>0, <1>5 DEF Commit, CommitUnacknowledged, Answer, Goto
    <3> QED
      BY <1>5, <3>1, <3>2, <3>3 DEF Step
  <2> QED
    BY <1>2, <1>5, <2>1
<1>6. ASSUME Fail(r) \/ \E b \in Intents : Arrive(r, b)
      PROVE  pc'[r] \notin Late
  BY <1>0, <1>6 DEF Fail, Rollback, Arrive, Answer, Goto
<1>7. CASE pc'[r] \notin Late
  BY <1>7 DEF LeavesRoom
<1> QED
  BY <1>3, <1>4, <1>5, <1>6, <1>7, Movers

\* What a commit records, none of which was there before.
LEMMA CommitRecords ==
  ASSUME InductiveInv, BooksInv, NEW r \in Requests, pc[r] = "commit", ApplyTx(r),
         transfers' = transfers \union {Row(r)}
  PROVE  /\ entries' = entries \union {Paid(r), Got(r)}
         /\ notifications' = notifications \union {SentNote(r), ReceivedNote(r)}
         /\ wakeups' = wakeups \union {WakeOf(r, req[r].from), WakeOf(r, req[r].to)}
         /\ Paid(r) \notin entries /\ Got(r) \notin entries /\ Row(r) \notin transfers
         /\ SentNote(r) \notin notifications /\ ReceivedNote(r) \notin notifications
         /\ UNCHANGED <<open, now, req>>
         /\ req[r] \in Intent /\ req[r].from # req[r].to /\ {req[r].from, req[r].to} \subseteq open
         /\ Currency[req[r].from] = req[r].currency /\ Currency[req[r].to] = req[r].currency
         /\ \A a \in Accounts :
              balance'[a] = IF a = req[r].from THEN balance[a] - req[r].amount
                            ELSE IF a = req[r].to THEN balance[a] + req[r].amount ELSE balance[a]
<1> DEFINE i == req[r]
<1>1. TypeOK /\ RequestInv(r) /\ Writes(r) /\ Recorded
  BY DEF InductiveInv, BooksInv
<1>2. /\ entries' = entries \union {Paid(r), Got(r)}
      /\ notifications' = notifications \union {SentNote(r), ReceivedNote(r)}
      /\ wakeups' = wakeups \union {WakeOf(r, i.from), WakeOf(r, i.to)}
      /\ UNCHANGED <<open, now, req>>
  BY <1>1 DEF ApplyTx, Writes
<1>3. /\ Paid(r) \notin entries /\ Got(r) \notin entries
      /\ SentNote(r) \notin notifications /\ ReceivedNote(r) \notin notifications
  BY <1>1, NoneAssumption DEF Recorded, Paid, Got, SentNote, ReceivedNote
<1>4. Row(r) \notin transfers
  BY DEF InductiveInv, Row
<1>5. /\ i \in Intent /\ i.from # i.to /\ {i.from, i.to} \subseteq open
      /\ Currency[i.from] = i.currency /\ Currency[i.to] = i.currency
  BY <1>1, BodyType DEF RequestInv
<1>6. i.from \in Accounts /\ i.to \in Accounts /\ i.amount \in Nat \ {0} /\ MaxSafe \in Nat
      /\ balance[i.from] \in 0 .. MaxSafe /\ balance[i.to] \in 0 .. MaxSafe
      /\ balance[i.from] >= i.amount
  BY <1>1, <1>5, LimitsAssumption DEF RequestInv, Intent, TypeOK
<1>7. \A a \in Accounts :
        balance'[a] = IF a = i.from THEN balance[a] - i.amount
                      ELSE IF a = i.to THEN balance[a] + i.amount ELSE balance[a]
  <2> SUFFICES ASSUME NEW a \in Accounts
               PROVE  Visible(r, a) = IF a = i.from THEN balance[a] - i.amount
                        ELSE IF a = i.to THEN balance[a] + i.amount ELSE balance[a]
    BY DEF ApplyTx
  <2> QED
    BY <1>1, <1>6 DEF Visible, RequestInv, NoWrite
<1> QED
  BY <1>2, <1>3, <1>4, <1>5, <1>7

LEMMA NextRecorded ==
  ASSUME InductiveInv, BooksInv, [Next]_vars
  PROVE  Recorded'
<1>1. TypeOK /\ (\A r \in Requests : RequestInv(r)) /\ Recorded
  BY DEF InductiveInv, BooksInv
<1>2. \A q \in Requests : pc[q] = "done" => pc'[q] = "done"
  BY <1>1, AnsweredStays
<1>3. /\ \A e \in entries : e.by # None => e.by \in Requests /\ pc'[e.by] = "done"
      /\ \A n \in notifications : n.transfer \in Requests /\ pc'[n.transfer] = "done"
  BY <1>1, <1>2 DEF Recorded, TypeOK, Entry, Note
<1>4. CASE UNCHANGED tables
  BY <1>1, <1>3, <1>4 DEF Recorded, tables
<1>5. ASSUME NEW a \in Accounts, NEW deposit \in Deposits, CreateAccount(a, deposit)
      PROVE  Recorded'
  <2> DEFINE e == [by |-> None, account |-> a, amount |-> deposit]
  <2>1. /\ open' = open \union {a} /\ (entries' = entries \/ entries' = entries \union {e})
        /\ UNCHANGED <<transfers, notifications, wakeups>>
    BY <1>5 DEF CreateAccount
  <2>2. IsFiniteSet(entries')
    BY <1>1, <2>1, FS_AddElement DEF Recorded
  <2> QED
    BY <1>1, <1>3, <2>1, <2>2 DEF Recorded
<1>6. ASSUME NEW r \in Requests, pc[r] = "commit", ApplyTx(r),
             transfers' = transfers \union {Row(r)},
             Answer(r, "ok") \/ Answer(r, "failed")
      PROVE  Recorded'
  <2>1. pc'[r] = "done"
    BY <1>1, <1>6 DEF Answer, Goto, TypeOK
  <2>2. /\ entries' = (entries \union {Paid(r)}) \union {Got(r)}
        /\ notifications' = notifications \union {SentNote(r), ReceivedNote(r)}
        /\ wakeups' = wakeups \union {WakeOf(r, req[r].from), WakeOf(r, req[r].to)}
        /\ open' = open /\ {req[r].from, req[r].to} \subseteq open
    BY <1>6, CommitRecords
  <2>3. IsFiniteSet(entries')
    BY <1>1, <2>2, FS_AddElement DEF Recorded
  <2>4. IsFiniteSet(transfers')
    BY <1>1, <1>6, FS_AddElement DEF Recorded
  <2>5. \A e \in entries' : e.account \in open' /\ (e.by # None => pc'[e.by] = "done")
    BY <1>1, <1>3, <2>1, <2>2 DEF Recorded, Paid, Got
  <2>6. \A n \in notifications' : pc'[n.transfer] = "done"
    BY <1>3, <2>1, <2>2 DEF SentNote, ReceivedNote
  <2>7. \A w \in wakeups' : \E t \in transfers' : t.id = w.transfer
    <3>1. Row(r) \in transfers' /\ Row(r).id = r
      BY <1>6 DEF Row
    <3>2. \A w \in wakeups' : w \in wakeups \/ w.transfer = r
      BY <2>2 DEF WakeOf
    <3>3. \A w \in wakeups : \E t \in transfers' : t.id = w.transfer
      BY <1>1, <1>6 DEF Recorded
    <3> QED
      BY <3>1, <3>2, <3>3
  <2> QED
    BY <2>3, <2>4, <2>5, <2>6, <2>7 DEF Recorded
<1> QED
  BY <1>1, <1>4, <1>5, <1>6, TablesChange

LEMMA NextPolicy ==
  ASSUME InductiveInv, BooksInv, [Next]_vars
  PROVE  PolicyObeyed'
<1>1. TypeOK /\ (\A r \in Requests : RequestInv(r)) /\ PolicyObeyed
  BY DEF InductiveInv, BooksInv
<1>2. open \subseteq open'
  BY <1>1, TablesChange DEF tables, CreateAccount, ApplyTx
<1>3. ASSUME NEW t \in transfers
      PROVE  LET i == req'[t.id] IN
             /\ i.caller = Owner[t.from] /\ {t.from, t.to} \subseteq open'
             /\ Currency[t.from] = i.currency /\ Currency[t.to] = i.currency
             /\ MaxPerTransfer[i.currency] > 0 => t.amount <= MaxPerTransfer[i.currency]
  <2>1. t.id \in Requests /\ pc[t.id] = "done"
    BY <1>1 DEF InductiveInv, TypeOK, TransferRow
  <2>2. req'[t.id] = req[t.id]
    BY <1>1, <2>1, AnsweredStays
  <2> QED
    BY <1>1, <1>2, <2>2 DEF PolicyObeyed
<1>4. ASSUME NEW r \in Requests, pc[r] = "commit", ApplyTx(r),
             transfers' = transfers \union {Row(r)}
      PROVE  PolicyObeyed'
  <2>1. /\ {req[r].from, req[r].to} \subseteq open' /\ req' = req
        /\ Currency[req[r].from] = req[r].currency /\ Currency[req[r].to] = req[r].currency
    BY <1>4, CommitRecords
  <2>2. Obeys(r)
    BY DEF BooksInv
  <2>3. /\ Row(r).id = r /\ Row(r).from = req[r].from /\ Row(r).to = req[r].to
        /\ Row(r).amount = req[r].amount
    BY DEF Row
  <2> HIDE DEF Labels
  <2>4. LET t == Row(r)
            i == req'[t.id]
        IN  /\ i.caller = Owner[t.from] /\ {t.from, t.to} \subseteq open'
            /\ Currency[t.from] = i.currency /\ Currency[t.to] = i.currency
            /\ MaxPerTransfer[i.currency] > 0 => t.amount <= MaxPerTransfer[i.currency]
    BY <1>4, <2>1, <2>2, <2>3 DEF Obeys, Labels
  <2> QED
    BY <1>3, <1>4, <2>4 DEF PolicyObeyed
<1>5. CASE UNCHANGED transfers
  BY <1>3, <1>5 DEF PolicyObeyed
<1> QED
  BY <1>1, <1>4, <1>5, TransfersChange

LEMMA NextDailyCap ==
  ASSUME InductiveInv, BooksInv, TypeOK', [Next]_vars
  PROVE  DailyCap'
<1>1. /\ TypeOK /\ \A r \in Requests : RequestInv(r)
      /\ Recorded /\ PolicyObeyed /\ DailyCap /\ IsFiniteSet(transfers)
  BY DEF InductiveInv, BooksInv, Recorded
<1> SUFFICES ASSUME NEW a \in open', DailyLimit[Currency[a]] > 0
             PROVE  Total(Outgoing(a, now - Window)') <= DailyLimit[Currency[a]]
  BY DEF DailyCap
<1>2. a \in Accounts /\ DailyLimit[Currency[a]] \in Nat
  BY LimitsAssumption, TablesAssumption DEF TypeOK
<1> DEFINE limit == DailyLimit[Currency[a]]
           before == Outgoing(a, now - Window)
           after == Outgoing(a, now - Window)'
<1>3. Total(before) <= limit
  <2>1. CASE a \in open
    BY <1>1, <2>1 DEF DailyCap
  <2>2. CASE a \notin open
    <3>1. before = {}
      BY <1>1, <2>2 DEF Outgoing, PolicyObeyed
    <3> QED
      BY <1>2, <3>1, TotalEmpty
  <2> QED
    BY <2>1, <2>2
<1>4. Total(before) \in Nat
  BY <1>1, <1>2, DayType
<1>5. ASSUME \A t \in transfers' \ transfers : t.from # a
      PROVE  Total(after) <= limit
  <2>1. after \subseteq before
    BY <1>1, <1>2, <1>5, OutgoingShrinks
  <2>2. Total(after) <= Total(before)
    BY <1>1, <1>2, <2>1, DayShrinks
  <2>3. IsFiniteSet(after) /\ \A t \in after : t.amount \in Int
    <3>1. IsFiniteSet(before)
      BY <1>1, FS_Subset DEF Outgoing
    <3>2. \A t \in before : t.amount \in Int
      BY <1>1, LimitsAssumption DEF Outgoing, TypeOK, TransferRow
    <3> HIDE DEF before, after
    <3> QED
      BY <2>1, <3>1, <3>2, FS_Subset
  <2>4. Total(after) \in Int
    <3> HIDE DEF after
    <3> QED
      BY <2>3, TotalType
  <2> HIDE DEF before, after
  <2> QED
    BY <1>2, <1>3, <1>4, <2>2, <2>4
<1>6. ASSUME NEW r \in Requests, pc[r] = "commit", ApplyTx(r),
             transfers' = transfers \union {Row(r)}, req[r].from = a
      PROVE  Total(after) <= limit
  <2>1. /\ now' = now /\ Row(r) \notin transfers /\ req[r].amount \in Nat
        /\ Currency[a] = req[r].currency
    BY <1>6, CommitRecords DEF Intent
  <2>2. LeavesRoom(r)
    BY DEF BooksInv
  <2>3. Total(before) + req[r].amount <= limit
    BY <1>6, <2>1, <2>2 DEF LeavesRoom
  <2>4. after \subseteq before \union {Row(r)} /\ before \subseteq transfers
    BY <1>6, <2>1 DEF Outgoing
  <2>5. IsFiniteSet(before) /\ \A t \in before : t.amount \in Nat
    <3>1. \A t \in transfers : t.amount \in Nat
      BY <1>1, LimitsAssumption DEF TypeOK, TransferRow
    <3> HIDE DEF before
    <3> QED
      BY <1>1, <2>4, <3>1, FS_Subset
  <2>6. Row(r).amount = req[r].amount
    BY DEF Row
  <2> HIDE DEF before, after
  <2>7. Total(before \union {Row(r)}) = Total(before) + req[r].amount
    BY <2>1, <2>4, <2>5, <2>6, TotalAdd
  <2>8. IsFiniteSet(before \union {Row(r)}) /\ \A t \in before \union {Row(r)} : t.amount \in Nat
    BY <2>1, <2>5, <2>6, FS_AddElement
  <2>9. Total(after) <= Total(before \union {Row(r)})
    BY <2>4, <2>8, TotalGrows
  <2>10. Total(after) \in Int
    <3>1. IsFiniteSet(after) /\ \A t \in after : t.amount \in Int
      BY <2>4, <2>8, FS_Subset
    <3> QED
      BY <3>1, TotalType
  <2> QED
    BY <1>2, <1>4, <2>1, <2>3, <2>7, <2>9, <2>10
<1>7. CASE UNCHANGED transfers
  BY <1>5, <1>7
<1>8. ASSUME NEW r \in Requests, pc[r] = "commit", ApplyTx(r),
             transfers' = transfers \union {Row(r)}, req[r].from # a
      PROVE  Total(after) <= limit
  BY <1>5, <1>8 DEF Row
<1> QED
  BY <1>1, <1>6, <1>7, <1>8, TransfersChange

\* The entries and transfers that concern an account.
EntriesOf(a) == {e \in entries : e.account = a}
Openings(a) == {e \in entries : e.account = a /\ e.by = None}
Incoming(a) == {t \in transfers : t.to = a}
Leaving(a) == {t \in transfers : t.from = a}

LEMMA BooksAre ==
  BooksBalance <=>
    \A a \in open : /\ balance[a] = Total(EntriesOf(a))
                    /\ balance[a] = Total(Openings(a)) + Total(Incoming(a)) - Total(Leaving(a))
BY TotalEntries DEF BooksBalance, LedgerMatches, TransfersExplainBalances, EntriesOf, Openings,
   Incoming, Leaving

LEMMA PartsSummable ==
  ASSUME TypeOK, Recorded, NEW a
  PROVE  /\ IsFiniteSet(EntriesOf(a)) /\ \A e \in EntriesOf(a) : e.amount \in Int
         /\ IsFiniteSet(Openings(a)) /\ \A e \in Openings(a) : e.amount \in Int
         /\ IsFiniteSet(Incoming(a)) /\ \A t \in Incoming(a) : t.amount \in Int
         /\ IsFiniteSet(Leaving(a)) /\ \A t \in Leaving(a) : t.amount \in Int
<1>1. (\A e \in entries : e.amount \in Int) /\ (\A t \in transfers : t.amount \in Int)
  BY LimitsAssumption DEF TypeOK, Entry, TransferRow
<1>2. /\ EntriesOf(a) \subseteq entries /\ Openings(a) \subseteq entries
      /\ Incoming(a) \subseteq transfers /\ Leaving(a) \subseteq transfers
  BY DEF EntriesOf, Openings, Incoming, Leaving
<1>3. IsFiniteSet(entries) /\ IsFiniteSet(transfers)
  BY DEF Recorded
<1> QED
  BY <1>1, <1>2, <1>3, FS_Subset

LEMMA PartsTotal ==
  ASSUME TypeOK, Recorded, NEW a
  PROVE  /\ Total(EntriesOf(a)) \in Int /\ Total(Openings(a)) \in Int
         /\ Total(Incoming(a)) \in Int /\ Total(Leaving(a)) \in Int
BY PartsSummable, TotalType

\* A commit adds one entry to each of its accounts, and its transfer to the
\* incoming ones of one and the outgoing ones of the other.
LEMMA CommitKeepsBooks ==
  ASSUME InductiveInv, BooksInv, NEW r \in Requests, pc[r] = "commit", ApplyTx(r),
         transfers' = transfers \union {Row(r)}
  PROVE  BooksBalance'
<1> DEFINE i == req[r]
<1>1. TypeOK /\ Recorded /\ BooksBalance
  BY DEF InductiveInv, BooksInv
<1>2. /\ entries' = entries \union {Paid(r), Got(r)}
      /\ Paid(r) \notin entries /\ Got(r) \notin entries /\ Row(r) \notin transfers
      /\ open' = open /\ i.from # i.to /\ i \in Intent
      /\ \A a \in Accounts :
           balance'[a] = IF a = i.from THEN balance[a] - i.amount
                         ELSE IF a = i.to THEN balance[a] + i.amount ELSE balance[a]
  BY CommitRecords
<1>3. i.amount \in Int /\ -i.amount \in Int /\ r # None
  BY <1>2, NoneAssumption DEF Intent
<1>4. /\ Paid(r).account = i.from /\ Paid(r).amount = -i.amount /\ Paid(r).by = r
      /\ Got(r).account = i.to /\ Got(r).amount = i.amount /\ Got(r).by = r
      /\ Row(r).from = i.from /\ Row(r).to = i.to /\ Row(r).amount = i.amount
  BY DEF Paid, Got, Row
<1> SUFFICES ASSUME NEW a \in open
             PROVE  /\ balance'[a] = Total(EntriesOf(a)')
                    /\ balance'[a] = Total(Openings(a)') + Total(Incoming(a)') - Total(Leaving(a)')
  <2>1. BooksBalance' <=>
          \A a \in open' : /\ balance'[a] = Total(EntriesOf(a)')
                           /\ balance'[a] = Total(Openings(a)') + Total(Incoming(a)')
                                              - Total(Leaving(a)')
    BY TotalEntries DEF BooksBalance, LedgerMatches, TransfersExplainBalances, EntriesOf, Openings,
       Incoming, Leaving
  <2> QED
    BY <1>2, <2>1
<1>5. /\ balance[a] = Total(EntriesOf(a))
      /\ balance[a] = Total(Openings(a)) + Total(Incoming(a)) - Total(Leaving(a))
      /\ a \in Accounts /\ balance[a] \in Int
  BY <1>1, BooksAre, LimitsAssumption DEF TypeOK
<1>6. Openings(a)' = Openings(a)
  BY <1>2, <1>3, <1>4 DEF Openings
<1>7. CASE a = i.from
  <2>1. /\ EntriesOf(a)' = EntriesOf(a) \union {Paid(r)} /\ Paid(r) \notin EntriesOf(a)
        /\ Leaving(a)' = Leaving(a) \union {Row(r)} /\ Row(r) \notin Leaving(a)
        /\ Incoming(a)' = Incoming(a)
    BY <1>2, <1>4, <1>7 DEF EntriesOf, Leaving, Incoming
  <2>2. Total(EntriesOf(a)') = Total(EntriesOf(a)) - i.amount
    <3>1. Total(EntriesOf(a) \union {Paid(r)}) = Total(EntriesOf(a)) + Paid(r).amount
      BY <1>1, <1>3, <1>4, <2>1, PartsSummable, TotalAdd
    <3> QED
      BY <1>1, <1>3, <1>4, <2>1, <3>1, PartsTotal
  <2>3. Total(Leaving(a)') = Total(Leaving(a)) + i.amount
    BY <1>1, <1>3, <1>4, <2>1, PartsSummable, TotalAdd
  <2> QED
    BY <1>1, <1>2, <1>3, <1>5, <1>6, <1>7, <2>1, <2>2, <2>3, PartsTotal
<1>8. CASE a = i.to
  <2>1. /\ EntriesOf(a)' = EntriesOf(a) \union {Got(r)} /\ Got(r) \notin EntriesOf(a)
        /\ Incoming(a)' = Incoming(a) \union {Row(r)} /\ Row(r) \notin Incoming(a)
        /\ Leaving(a)' = Leaving(a)
    BY <1>2, <1>4, <1>8 DEF EntriesOf, Leaving, Incoming
  <2>2. Total(EntriesOf(a)') = Total(EntriesOf(a)) + i.amount
    BY <1>1, <1>3, <1>4, <2>1, PartsSummable, TotalAdd
  <2>3. Total(Incoming(a)') = Total(Incoming(a)) + i.amount
    BY <1>1, <1>3, <1>4, <2>1, PartsSummable, TotalAdd
  <2> QED
    BY <1>1, <1>2, <1>3, <1>5, <1>6, <1>8, <2>1, <2>2, <2>3, PartsTotal
<1>9. CASE a \notin {i.from, i.to}
  <2>1. EntriesOf(a)' = EntriesOf(a) /\ Incoming(a)' = Incoming(a) /\ Leaving(a)' = Leaving(a)
    BY <1>2, <1>4, <1>9 DEF EntriesOf, Leaving, Incoming
  <2> QED
    BY <1>2, <1>5, <1>6, <1>9, <2>1
<1> QED
  BY <1>7, <1>8, <1>9

\* An account is opened with its opening entry and without a past.
LEMMA OpeningKeepsBooks ==
  ASSUME InductiveInv, BooksInv, NEW b \in Accounts, NEW deposit \in Deposits,
         CreateAccount(b, deposit)
  PROVE  BooksBalance'
<1> DEFINE e == [by |-> None, account |-> b, amount |-> deposit]
<1>1. TypeOK /\ Recorded /\ BooksBalance /\ PolicyObeyed
  BY DEF InductiveInv, BooksInv
<1>2. /\ b \notin open /\ open' = open \union {b} /\ transfers' = transfers
      /\ balance' = [balance EXCEPT ![b] = deposit] /\ deposit \in Int
      /\ entries' = IF deposit # 0 THEN entries \union {e} ELSE entries
  BY LimitsAssumption DEF CreateAccount
<1>3. e.by = None /\ e.account = b /\ e.amount = deposit
  OBVIOUS
<1> HIDE DEF e
<1> SUFFICES ASSUME NEW a \in open'
             PROVE  /\ balance'[a] = Total(EntriesOf(a)')
                    /\ balance'[a] = Total(Openings(a)') + Total(Incoming(a)') - Total(Leaving(a)')
  BY TotalEntries DEF BooksBalance, LedgerMatches, TransfersExplainBalances, EntriesOf, Openings,
     Incoming, Leaving
<1>4. Incoming(a)' = Incoming(a) /\ Leaving(a)' = Leaving(a)
  BY <1>2 DEF Incoming, Leaving
<1>5. CASE a # b
  <2>1. EntriesOf(a)' = EntriesOf(a) /\ Openings(a)' = Openings(a)
    BY <1>2, <1>3, <1>5 DEF EntriesOf, Openings
  <2>2. a \in open /\ balance'[a] = balance[a]
    BY <1>1, <1>2, <1>5 DEF TypeOK
  <2> QED
    BY <1>1, <1>4, <2>1, <2>2, BooksAre
<1>6. CASE a = b
  <2>1. EntriesOf(a) = {} /\ Openings(a) = {}
    BY <1>1, <1>2, <1>6 DEF Recorded, EntriesOf, Openings
  <2>2. Incoming(a) = {} /\ Leaving(a) = {}
    BY <1>1, <1>2, <1>6 DEF PolicyObeyed, Incoming, Leaving
  <2>3. balance'[a] = deposit
    BY <1>1, <1>2, <1>6 DEF TypeOK
  <2>4. CASE deposit = 0
    <3>1. EntriesOf(a)' = {} /\ Openings(a)' = {}
      BY <1>2, <2>1, <2>4 DEF EntriesOf, Openings
    <3> QED
      BY <1>4, <2>2, <2>3, <2>4, <3>1, TotalEmpty
  <2>5. CASE deposit # 0
    <3>1. EntriesOf(a)' = {e} /\ Openings(a)' = {e}
      BY <1>2, <1>3, <1>6, <2>1, <2>5 DEF EntriesOf, Openings
    <3>2. Total({} \union {e}) = Total({}) + e.amount
      BY <1>2, <1>3, FS_EmptySet, TotalAdd
    <3>3. Total({e}) = deposit
      BY <1>2, <1>3, <3>2, TotalEmpty
    <3> QED
      BY <1>2, <1>4, <2>2, <2>3, <3>1, <3>3, TotalEmpty
  <2> QED
    BY <2>4, <2>5
<1> QED
  BY <1>5, <1>6

LEMMA NextBooks ==
  ASSUME InductiveInv, BooksInv, [Next]_vars
  PROVE  BooksBalance'
<1>1. TypeOK /\ (\A r \in Requests : RequestInv(r)) /\ BooksBalance
  BY DEF InductiveInv, BooksInv
<1>2. CASE UNCHANGED tables
  BY <1>1, <1>2 DEF BooksBalance, LedgerMatches, TransfersExplainBalances, tables
<1> QED
  BY <1>1, <1>2, CommitKeepsBooks, OpeningKeepsBooks, TablesChange

LEMMA InitBooks == Init => BooksInv
<1> SUFFICES ASSUME Init
             PROVE  BooksInv
  OBVIOUS
<1>1. \A r \in Requests : Writes(r) /\ Obeys(r) /\ LeavesRoom(r)
  BY DEF Init, Writes, Obeys, LeavesRoom, EmptyTx
<1>2. Recorded
  BY FS_EmptySet DEF Init, Recorded
<1> QED
  BY <1>1, <1>2
     DEF Init, BooksInv, PolicyObeyed, BooksBalance, LedgerMatches, TransfersExplainBalances, DailyCap

LEMMA NextBooksInv == InductiveInv /\ BooksInv /\ [Next]_vars => BooksInv'
<1> SUFFICES ASSUME InductiveInv, BooksInv, [Next]_vars
             PROVE  BooksInv'
  OBVIOUS
<1>1. TypeOK'
  BY NextInv DEF InductiveInv
<1>2. TypeOK /\ \A r \in Requests : RequestInv(r)
  BY DEF InductiveInv
<1>3. ASSUME NEW r \in Requests
      PROVE  Writes(r)' /\ Obeys(r)' /\ LeavesRoom(r)'
  <2>1. Writes(r) /\ Obeys(r) /\ LeavesRoom(r) /\ IsFiniteSet(transfers)
    BY DEF BooksInv, Recorded
  <2> QED
    BY <1>1, <1>2, <2>1, NextWrites, NextObeys, NextRoom
<1>4. Recorded' /\ PolicyObeyed' /\ BooksBalance' /\ DailyCap'
  BY <1>1, NextRecorded, NextPolicy, NextBooks, NextDailyCap
<1> QED
  BY <1>3, <1>4 DEF BooksInv

\* What a transaction has staged is what its request asked for, and what is
\* recorded is the sum of what was committed.
THEOREM BooksInvariant == Spec => []BooksInv
<1> QED
  BY InitBooks, NextBooksInv, InvariantHolds, PTL DEF Spec

\* Money is neither made nor lost: every balance is the sum of the account's
\* entries, and of its opening deposit and its transfers.
THEOREM BooksAlwaysBalance == Spec => []BooksBalance
<1>1. BooksInv => BooksBalance
  BY DEF BooksInv
<1> QED
  BY <1>1, BooksInvariant, PTL

\* The sum checked under the source's lock bounds what is committed in any
\* window of the clock, however the requests' transactions overlap.
THEOREM DailyCapKept == Spec => []DailyCap
<1>1. BooksInv => DailyCap
  BY DEF BooksInv
<1> QED
  BY <1>1, BooksInvariant, PTL

\* A committed transfer obeyed the policy its request was checked against.
THEOREM PolicyKept == Spec => []PolicyObeyed
<1>1. BooksInv => PolicyObeyed
  BY DEF BooksInv
<1> QED
  BY <1>1, BooksInvariant, PTL

LEMMA NotesOfStep ==
  ASSUME InductiveInv, BooksInv, [Next]_vars
  PROVE  /\ \A n \in notifications' \ notifications :
              /\ n.balance = balance'[n.account]
              /\ [transfer |-> n.transfer, owner |-> Owner[n.account]] \in wakeups'
         /\ \A t \in transfers' \ transfers :
              \E s, d \in notifications' \ notifications :
                /\ s.transfer = t.id /\ s.account = t.from /\ s.direction = "sent"
                /\ d.transfer = t.id /\ d.account = t.to /\ d.direction = "received"
<1>1. TypeOK /\ \A r \in Requests : RequestInv(r)
  BY DEF InductiveInv
<1>2. CASE UNCHANGED <<transfers, notifications>>
  BY <1>2
<1>3. CASE \E r \in Requests :
             pc[r] = "commit" /\ ApplyTx(r) /\ transfers' = transfers \union {Row(r)}
  <2>1. PICK r \in Requests :
          pc[r] = "commit" /\ ApplyTx(r) /\ transfers' = transfers \union {Row(r)}
    BY <1>3
  <2>2. /\ notifications' = notifications \union {SentNote(r), ReceivedNote(r)}
        /\ wakeups' = wakeups \union {WakeOf(r, req[r].from), WakeOf(r, req[r].to)}
        /\ SentNote(r) \notin notifications /\ ReceivedNote(r) \notin notifications
        /\ req[r].from # req[r].to /\ req[r].from \in Accounts /\ req[r].to \in Accounts
        /\ \A a \in Accounts :
             balance'[a] = IF a = req[r].from THEN balance[a] - req[r].amount
                           ELSE IF a = req[r].to THEN balance[a] + req[r].amount ELSE balance[a]
    BY <1>1, <2>1, CommitRecords DEF TypeOK
  <2>3. ASSUME NEW n \in {SentNote(r), ReceivedNote(r)}
        PROVE  /\ n.balance = balance'[n.account]
               /\ [transfer |-> n.transfer, owner |-> Owner[n.account]] \in wakeups'
    BY <2>2 DEF SentNote, ReceivedNote, WakeOf
  <2>4. ASSUME NEW t \in transfers' \ transfers
        PROVE  /\ SentNote(r).transfer = t.id /\ SentNote(r).account = t.from
               /\ SentNote(r).direction = "sent"
               /\ ReceivedNote(r).transfer = t.id /\ ReceivedNote(r).account = t.to
               /\ ReceivedNote(r).direction = "received"
    BY <2>1 DEF SentNote, ReceivedNote, Row
  <2> QED
    BY <2>2, <2>3, <2>4
<1>4. ASSUME NEW a \in Accounts, NEW deposit \in Deposits, CreateAccount(a, deposit)
      PROVE  UNCHANGED <<transfers, notifications>>
  BY <1>4 DEF CreateAccount
<1> QED
  BY <1>1, <1>2, <1>3, <1>4, TablesChange DEF tables

\* A commit publishes its transfer, the two notes with the balances it leaves
\* and the wake-ups of their owners in one step, and nothing else does.
THEOREM NotesMatchCommit == Spec => NotificationsMatchCommit
<1>1. InductiveInv /\ BooksInv /\ [Next]_vars =>
        [/\ \A n \in notifications' \ notifications :
              /\ n.balance = balance'[n.account]
              /\ [transfer |-> n.transfer, owner |-> Owner[n.account]] \in wakeups'
         /\ \A t \in transfers' \ transfers :
              \E s, d \in notifications' \ notifications :
                /\ s.transfer = t.id /\ s.account = t.from /\ s.direction = "sent"
                /\ d.transfer = t.id /\ d.account = t.to /\ d.direction = "received"
         /\ \A w \in wakeups' : \E t \in transfers' : t.id = w.transfer]_vars
  <2> SUFFICES ASSUME InductiveInv, BooksInv, [Next]_vars
               PROVE  /\ \A n \in notifications' \ notifications :
                           /\ n.balance = balance'[n.account]
                           /\ [transfer |-> n.transfer, owner |-> Owner[n.account]] \in wakeups'
                      /\ \A t \in transfers' \ transfers :
                           \E s, d \in notifications' \ notifications :
                             /\ s.transfer = t.id /\ s.account = t.from /\ s.direction = "sent"
                             /\ d.transfer = t.id /\ d.account = t.to
                             /\ d.direction = "received"
                      /\ \A w \in wakeups' : \E t \in transfers' : t.id = w.transfer
    OBVIOUS
  <2>1. \A w \in wakeups' : \E t \in transfers' : t.id = w.transfer
    BY NextRecorded DEF Recorded
  <2> QED
    BY <2>1, NotesOfStep
<1> QED
  BY <1>1, BooksInvariant, InvariantHolds, PTL DEF Spec, NotificationsMatchCommit
=============================================================================
