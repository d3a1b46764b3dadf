------------------------ MODULE NotificationsProofs -------------------------
(***************************************************************************)
(* Proofs about Notifications: the history a tab shows at rest is the one  *)
(* the database holds, marks count what they leave unread, and a row has   *)
(* one toast.                                                              *)
(*                                                                         *)
(* The invariant says of each page that is read, asked for or shown what   *)
(* it still lacks, and who will see to it: a wake-up, a queued round, the  *)
(* round under way, the answer to the mark, or the error that is shown.    *)
(***************************************************************************)
EXTENDS Notifications, FiniteSetTheorems, WellFoundedInduction, TLAPS

USE IdsAssumption, BoundsAssumption

-----------------------------------------------------------------------------
(* Finite sets of rows.                                                    *)

\* A set of rows is finite, so that its size is a number.
LEMMA RowsFinite ==
  ASSUME NEW S, S \subseteq Ids
  PROVE  IsFiniteSet(S) /\ Cardinality(S) \in Nat
BY FS_Subset, FS_CardinalityType

\* More rows are counted as more.
LEMMA MoreRows ==
  ASSUME NEW S, NEW T, S \subseteq T, T \subseteq Ids
  PROVE  Cardinality(S) \in Nat /\ Cardinality(T) \in Nat /\ Cardinality(S) <= Cardinality(T)
BY FS_Subset, FS_CardinalityType

\* A set of numbers that is not empty has a least one.
LEMMA LeastExists ==
  ASSUME NEW S, S \subseteq Nat, S # {}
  PROVE  \E x \in S : \A y \in S : x <= y
<1> DEFINE R == OpToRel(<, Nat)
<1>1. \A x, y \in S : y < x => <<y, x>> \in R
  BY DEF OpToRel
<1>2. IsWellFoundedOn(R, Nat)
  BY NatLessThanWellFounded
<1> HIDE DEF R
<1>3. \E x \in S : \A y \in S : <<y, x>> \notin R
  BY <1>2, WFMin
<1>4. \A x, y \in S : ~(y < x) => x <= y
  OBVIOUS
<1> QED
  BY <1>1, <1>3, <1>4

\* Min returns it.
LEMMA MinIsLeast ==
  ASSUME NEW S, S \subseteq Nat, S # {}
  PROVE  Min(S) \in S /\ \A y \in S : Min(S) <= y
BY LeastExists DEF Min

Newer(S, i) == {j \in S : j > i}
Newest(S) == {i \in S : Cardinality(Newer(S, i)) < PageSize}

\* A page of the newest rows has no gap.
LEMMA NewestUpward ==
  ASSUME NEW S, S \subseteq Ids, NEW i \in Newest(S), NEW j \in S, j >= i
  PROVE  j \in Newest(S)
<1>1. Newer(S, j) \subseteq Newer(S, i) /\ Newer(S, i) \subseteq Ids
  <2>1. i \in S /\ \A k \in S : k \in Nat
    BY DEF Newest
  <2>2. \A k \in S : k > j => k > i
    BY <2>1
  <2> QED
    BY <2>2 DEF Newer
<1>2. Cardinality(Newer(S, j)) <= Cardinality(Newer(S, i)) /\ Cardinality(Newer(S, j)) \in Nat
      /\ Cardinality(Newer(S, i)) \in Nat
  BY <1>1, MoreRows
<1> QED
  BY <1>2 DEF Newest

\* A page is not empty if there are rows.
LEMMA NewestExists ==
  ASSUME NEW S, S \subseteq Ids, S # {}
  PROVE  Newest(S) # {}
<1> DEFINE Sizes == {Cardinality(Newer(S, i)) : i \in S}
<1>1. \A i \in S : Newer(S, i) \subseteq Ids
  BY DEF Newer
<1>2. \A i \in S : Cardinality(Newer(S, i)) \in Nat
  BY <1>1, RowsFinite
<1>3. Sizes \subseteq Nat
  <2>1. \A n \in Sizes : \E i \in S : n = Cardinality(Newer(S, i))
    BY Zenon
  <2> QED
    BY <1>2, <2>1
<1>4. PICK i \in S : \A j \in S : Cardinality(Newer(S, i)) <= Cardinality(Newer(S, j))
  <2>1. PICK n \in Sizes : \A k \in Sizes : n <= k
    <3>1. \A j \in S : Cardinality(Newer(S, j)) \in Sizes
      BY Zenon
    <3>2. Sizes # {}
      BY <3>1
    <3> QED
      BY <1>3, <3>2, LeastExists
  <2> QED
    BY <2>1
<1>5. ASSUME NEW j \in Newer(S, i)
      PROVE  FALSE
  <2>1. j \in S /\ j \in Nat /\ i \in Nat /\ j > i
    BY DEF Newer
  <2>2. Newer(S, j) \subseteq Newer(S, i) /\ j \notin Newer(S, j)
    <3>1. \A k \in S : k > j => k > i
      BY <2>1
    <3>2. ~(j > j)
      BY <2>1
    <3> QED
      BY <2>1, <3>1, <3>2 DEF Newer
  <2>3. IsFiniteSet(Newer(S, i))
    BY <1>1, RowsFinite
  <2>4. Cardinality(Newer(S, j)) <= Cardinality(Newer(S, i))
        /\ (Cardinality(Newer(S, i)) = Cardinality(Newer(S, j)) => Newer(S, i) = Newer(S, j))
    BY <2>2, <2>3, FS_Subset
  <2> QED
    BY <1>2, <1>4, <2>1, <2>2, <2>4
<1>6. Cardinality(Newer(S, i)) = 0
  BY <1>5, FS_EmptySet
<1> QED
  BY <1>6 DEF Newest

\* Rows that do not fit on a page are older than all of it.
LEMMA NewestLeavesOlder ==
  ASSUME NEW S, S \subseteq Ids, Cardinality(S) > PageSize
  PROVE  /\ Min(Newest(S)) \in Newest(S)
         /\ \A i \in Newest(S) : i >= Min(Newest(S))
         /\ \E i \in S : i < Min(Newest(S))
<1>0. S # {} /\ Cardinality(S) \in Nat /\ IsFiniteSet(S)
  <2>1. Cardinality(S) \in Nat /\ IsFiniteSet(S)
    BY RowsFinite
  <2>2. Cardinality(S) # 0
    BY <2>1
  <2> QED
    BY <2>1, <2>2, FS_EmptySet, Zenon
<1>1. Newest(S) \subseteq Nat /\ Newest(S) # {}
  BY <1>0, NewestExists DEF Newest
<1>2. Min(Newest(S)) \in Newest(S) /\ \A i \in Newest(S) : i >= Min(Newest(S))
  BY <1>1, MinIsLeast
<1>3. PICK m \in S : \A i \in S : m <= i
  BY <1>0, LeastExists
<1>4. m \notin Newest(S)
  <2>1. Newer(S, m) = S \ {m}
    <3>1. \A i \in S : i > m <=> i # m
      BY <1>3
    <3> QED
      BY <3>1 DEF Newer
  <2>2. Cardinality(S \ {m}) = Cardinality(S) - 1
    BY <1>0, <1>3, FS_RemoveElement
  <2>3. ~(Cardinality(Newer(S, m)) < PageSize)
    BY <2>1, <2>2, <1>0
  <2> QED
    BY <2>3 DEF Newest
<1>5. m < Min(Newest(S))
  BY <1>1, <1>2, <1>3, <1>4 DEF Newest
<1> QED
  BY <1>2, <1>5

\* Rows that fit on a page are all of it.
LEMMA NewestIsAll ==
  ASSUME NEW S, S \subseteq Ids, ~(Cardinality(S) > PageSize)
  PROVE  Newest(S) = S
<1>1. ASSUME NEW i \in S
      PROVE  Cardinality(Newer(S, i)) < PageSize
  <2>1. IsFiniteSet(S) /\ Cardinality(S) \in Nat
    BY RowsFinite
  <2>2. Newer(S, i) \subseteq S \ {i} /\ S \ {i} \subseteq Ids
    BY DEF Newer
  <2>3. Cardinality(Newer(S, i)) <= Cardinality(S \ {i}) /\ Cardinality(Newer(S, i)) \in Nat
    BY <2>2, MoreRows
  <2>4. Cardinality(S \ {i}) = Cardinality(S) - 1
    BY <2>1, FS_RemoveElement
  <2> QED
    BY <2>1, <2>3, <2>4
<1> QED
  BY <1>1 DEF Newest


-----------------------------------------------------------------------------
(* The invariant.                                                          *)

Both == {"mine", "other"}
Page == [rows : SUBSET Ids, read : SUBSET Ids, count : Nat, next : Ids \union {None}]
RoundType ==
  [step : {"asked", "answered", "accounts"}, reason : Reasons, rows : SUBSET Ids, read : SUBSET Ids,
   pages : Nat, cursor : Ids \union {None}, reply : Page, mutated : BOOLEAN]
MoreType ==
  [step : {"asked", "answered"}, cursor : Ids, reply : Page, superseded : BOOLEAN,
   mutated : BOOLEAN]
MarkType ==
  [step : {"asked", "answered"}, all : BOOLEAN, ids : SUBSET Ids, held : SUBSET Ids,
   wasRead : SUBSET Ids, wasCount : Nat, count : Nat, overtaken : BOOLEAN]
Recovering == [step |-> "recovering"]
Todo == [all : BOOLEAN, ids : SUBSET Ids]

Types ==
  /\ round = Off \/ round \in RoundType
  /\ more \in {Off, Waiting} \/ more \in MoreType
  /\ mark \in {Off, Recovering} \/ mark \in MarkType
  /\ tx \in [Both -> [step : {"none", "marked", "counted"}, ids : SUBSET Ids, count : Nat]]
  /\ todo \in Seq(Todo)
  /\ \A k \in 1 .. Len(todo) : todo[k].ids \subseteq committed

\* The rows below hi, down to lo.
Between(hi, lo) ==
  {i \in committed : (hi = None \/ i < hi) /\ (lo = None \/ i >= lo)}

\* The tab is going to read again.
Told == wake \/ queued # "none"
Reading == round.step \in {"asked", "answered"}
Cover == Told \/ Reading \/ error

\* The rows that are not flagged as read though this tab has marked them.
Lag(rows, flags) == (rows \intersect read) \ (flags \union elsewhere)

\* The answer to the mark will see to these.
Excused(rows) == rows = {} \/ (mark.step = "answered" /\ (mark.all \/ rows \subseteq mark.ids))

\* p is what was read below hi, and if it is not what would be read now, it
\* will be dropped or read again.
PageInv(p, hi, dropped) ==
  /\ p.rows \subseteq Between(hi, p.next) /\ p.read \subseteq p.rows \intersect read
  /\ p.next # None => p.next \in p.rows /\ \E i \in committed : i < p.next
  /\ dropped \/ Told \/ Between(hi, p.next) \subseteq p.rows
  /\ dropped \/ queued # "none" \/ Excused(Lag(p.rows, p.read))
  /\ dropped \/ Told \/ mark.step = "answered" \/ elsewhere # {} \/ p.count = Unread

\* What a round has read so far.
Above(c) == IF c = None THEN {} ELSE Between(None, c)

RoundInv ==
  /\ round = Off => queued = "none"
  /\ round # Off => ~error
  /\ Reading =>
       /\ round.rows \subseteq Above(round.cursor) /\ round.read \subseteq round.rows \intersect read
       /\ Told \/ Above(round.cursor) \subseteq round.rows
       /\ round.mutated \/ queued # "none" \/ Excused(Lag(round.rows, round.read))
  /\ round.step = "answered" => PageInv(round.reply, round.cursor, round.mutated)

MoreInv ==
  InFlight(more) =>
    /\ ~more.superseded => round = Off /\ cursor = more.cursor
    /\ more.step = "answered" =>
         PageInv(more.reply, more.cursor, more.superseded \/ more.mutated)

\* The page that is shown.
ShownInv ==
  /\ shown \subseteq Between(None, cursor)
  /\ cursor # None => cursor \in shown /\ \E i \in committed : i < cursor
  /\ Cover \/ Between(None, cursor) \subseteq shown
  /\ seen \subseteq shown
  /\ seen \subseteq read \union IF InFlight(mark) THEN mark.held ELSE {}
  /\ queued # "none" \/ Reading \/ error \/ Excused(Lag(shown, seen))
  /\ InFlight(mark) \/ Cover \/ regressed \/ elsewhere # {} \/ count = Unread

\* The mutation under way and its transaction.
MarkInv ==
  /\ \A v, w \in Both : Open(v) /\ Open(w) => v = w
  /\ InFlight(mark) => /\ mark.ids \subseteq committed /\ mark.held \subseteq mark.ids
                       /\ mark.wasRead \subseteq read
  /\ Open("mine") => /\ mark.step = "asked"
                     /\ IF mark.all THEN mark.ids \subseteq read \union tx["mine"].ids
                                    ELSE mark.ids = tx["mine"].ids
  /\ tx["mine"].step = "counted" =>
       \/ mark.overtaken \/ Cover
       \/ tx["mine"].count = Cardinality(committed \ (read \union tx["mine"].ids))
  /\ mark.step = "answered" =>
       /\ mark.ids \subseteq read
       /\ mark.overtaken \/ Cover \/ elsewhere # {} \/ mark.count = Unread

NotificationsInv ==
  /\ TypeOK /\ Types /\ RoundInv /\ MoreInv /\ ShownInv /\ MarkInv
  /\ ToastOnce /\ MarksCountMarks

-----------------------------------------------------------------------------
(* Facts about the state.                                                  *)

\* What the three processes are, by their steps.
LEMMA Steps ==
  ASSUME Types
  PROVE  /\ round = Off <=> round.step = "off"
         /\ round # Off <=> round \in RoundType
         /\ more = Off <=> more.step = "off"
         /\ more = Waiting <=> more.step = "waiting"
         /\ InFlight(more) <=> more \in MoreType
         /\ mark = Off <=> mark.step = "off"
         /\ mark = Recovering <=> mark.step = "recovering"
         /\ InFlight(mark) <=> mark \in MarkType
         /\ more \in {Off, Waiting} \/ more \in MoreType
         /\ mark \in {Off, Recovering} \/ mark \in MarkType
<1>1. round = Off \/ round \in RoundType
  BY DEF Types
<1>2. more \in {Off, Waiting} \/ more \in MoreType
  BY DEF Types
<1>3. mark \in {Off, Recovering} \/ mark \in MarkType
  BY DEF Types
<1>4. /\ round = Off <=> round.step = "off"
      /\ round # Off <=> round \in RoundType
  BY <1>1 DEF Off, RoundType
<1>5. /\ more = Off <=> more.step = "off"
      /\ more = Waiting <=> more.step = "waiting"
      /\ InFlight(more) <=> more \in MoreType
  BY <1>2 DEF Off, Waiting, InFlight, MoreType
<1>6. /\ mark = Off <=> mark.step = "off"
      /\ mark = Recovering <=> mark.step = "recovering"
      /\ InFlight(mark) <=> mark \in MarkType
  BY <1>3 DEF Off, Recovering, InFlight, MarkType
<1> QED
  BY <1>2, <1>3, <1>4, <1>5, <1>6

\* What the database answers now.
LEMMA PageNow ==
  ASSUME TypeOK, NEW c \in Ids \union {None}
  PROVE  /\ PageBelow(c) \in Page
         /\ PageBelow(c).rows = Between(c, PageBelow(c).next)
         /\ PageBelow(c).read = PageBelow(c).rows \intersect read
         /\ PageBelow(c).count = Unread
         /\ PageBelow(c).next # None =>
              /\ PageBelow(c).next \in PageBelow(c).rows
              /\ \E i \in committed : i < PageBelow(c).next
<1> DEFINE older == {i \in committed : c = None \/ i < c}
           next == IF Cardinality(older) > PageSize THEN Min(Newest(older)) ELSE None
<1>1. committed \subseteq Ids /\ older \subseteq Ids /\ older \subseteq committed
  BY DEF TypeOK
<1>2. Newest(older) = {i \in older : Cardinality({j \in older : j > i}) < PageSize}
  BY Zenon DEF Newest, Newer
<1>3. /\ PageBelow(c).rows = Newest(older)
      /\ PageBelow(c).read = Newest(older) \intersect read
      /\ PageBelow(c).count = Unread
      /\ PageBelow(c).next = next
      /\ PageBelow(c) = [rows |-> Newest(older), read |-> Newest(older) \intersect read,
                         count |-> Unread, next |-> next]
  BY <1>2 DEF PageBelow
<1>4. Unread \in Nat
  BY <1>1, RowsFinite DEF Unread
<1>5. Newest(older) \subseteq older
  BY DEF Newest
<1>6. CASE Cardinality(older) > PageSize
  <2>1. /\ next \in Newest(older)
        /\ \A i \in Newest(older) : i >= next
        /\ \E i \in older : i < next
    BY <1>1, <1>6, NewestLeavesOlder
  <2>2. ASSUME NEW i \in older, i >= next
        PROVE  i \in Newest(older)
    BY <1>1, <2>1, <2>2, NewestUpward
  <2>3. next \in Ids /\ next # None
    BY <1>1, <1>5, <2>1
  <2> HIDE DEF next
  <2>4. Newest(older) = Between(c, next)
    BY <1>5, <2>1, <2>2, <2>3 DEF Between
  <2>5. PageBelow(c) \in Page
    BY <1>1, <1>3, <1>4, <1>5, <2>3 DEF Page
  <2> HIDE DEF older
  <2> QED
    BY <1>1, <1>3, <2>1, <2>4, <2>5
<1>7. CASE ~(Cardinality(older) > PageSize)
  <2>1. Newest(older) = older
    BY <1>1, <1>7, NewestIsAll
  <2>2. next = None
    BY <1>7
  <2> HIDE DEF next
  <2>3. older = Between(c, next)
    BY <2>2 DEF Between
  <2>4. PageBelow(c) \in Page
    BY <1>1, <1>3, <1>4, <1>5, <2>2 DEF Page
  <2> HIDE DEF older
  <2> QED
    BY <1>3, <2>1, <2>2, <2>3, <2>4
<1> QED
  BY <1>6, <1>7

-----------------------------------------------------------------------------
(* The actions.                                                            *)

\* A new row: whatever is read or shown without it will be read again.
LEMMA TransferKeeps ==
  ASSUME NotificationsInv, Transfer
  PROVE  NotificationsInv'
<1> USE DEF NotificationsInv
<1>1. PICK i \in Ids \ committed : committed' = committed \union {i}
  BY DEF Transfer
<1>2. /\ wake' = TRUE
      /\ UNCHANGED <<read, tx, elsewhere, shown, seen, count, cursor, loadedPages, hasBaseline, error,
                     known, pendingLive, toasted, round, queued, more, mark, todo, regressed>>
  BY DEF Transfer, page, toasts, mutations
<1>3. committed \subseteq committed' /\ committed' \subseteq Ids
  BY <1>1 DEF TypeOK
<1>4. TypeOK' /\ Types' /\ ToastOnce'
  <2>1. TypeOK'
    BY <1>2, <1>3 DEF TypeOK
  <2>2. Types'
    BY <1>2, <1>3 DEF Types
  <2> QED
    BY <1>2, <2>1, <2>2 DEF ToastOnce
<1>5. RoundInv'
  BY <1>2, <1>3 DEF RoundInv, Reading, Told, Above, Between, PageInv, Lag, Excused
<1>6. MoreInv'
  BY <1>2, <1>3 DEF MoreInv, InFlight, Told, Between, PageInv, Lag, Excused
<1>7. ShownInv'
  BY <1>2, <1>3 DEF ShownInv, Cover, Reading, Told, Between, Lag, Excused, InFlight
<1>8. MarkInv'
  BY <1>2, <1>3 DEF MarkInv, Open, Cover, Told, InFlight, Both
<1>9. MarksCountMarks'
  <2>1. ASSUME NEW w \in DOMAIN tx, tx[w].step = "counted"
        PROVE  tx[w].count <= Cardinality(committed' \ (read \union tx[w].ids))
    <3>1. /\ committed \ (read \union tx[w].ids) \subseteq committed' \ (read \union tx[w].ids)
          /\ committed' \ (read \union tx[w].ids) \subseteq Ids
      BY <1>3
    <3>2. tx[w].count \in Nat
      BY DEF Types
    <3>3. tx[w].count <= Cardinality(committed \ (read \union tx[w].ids))
      BY <2>1 DEF MarksCountMarks
    <3> QED
      BY <3>1, <3>2, <3>3, MoreRows
  <2> QED
    BY <1>2, <2>1 DEF MarksCountMarks
<1> QED
  BY <1>4, <1>5, <1>6, <1>7, <1>8, <1>9

\* What a transaction is once it has marked its rows.
LEMMA MarkedTx ==
  ASSUME NEW ids, NEW t, t = [NoTx EXCEPT !.step = "marked", !.ids = ids]
  PROVE  t = [step |-> "marked", ids |-> ids, count |-> 0]
BY DEF NoTx

\* A request begins its transaction: the owner is locked for the other tab.
LEMMA BeginMarkKeeps ==
  ASSUME NotificationsInv, BeginMark
  PROVE  NotificationsInv'
<1> USE DEF NotificationsInv
<1> DEFINE ids == IF mark.all THEN committed \ read ELSE mark.ids
<1>1. /\ mark.step = "asked" /\ \A w \in Both : ~Open(w)
      /\ tx' = [tx EXCEPT !["mine"] = [step |-> "marked", ids |-> ids, count |-> 0]]
      /\ UNCHANGED <<committed, read, elsewhere, shown, seen, count, cursor, loadedPages, hasBaseline,
                     error, known, pendingLive, toasted, round, queued, more, mark, todo, wake,
                     regressed>>
  <2>1. MarkIn("mine", ids)
    BY DEF BeginMark
  <2> HIDE DEF ids
  <2>2. tx' = [tx EXCEPT !["mine"] = [step |-> "marked", ids |-> ids, count |-> 0]]
    BY <2>1, MarkedTx, Zenon DEF MarkIn
  <2>3. \A w \in Both : ~Open(w)
    BY <2>1 DEF MarkIn, OwnerFree, Types, Both
  <2> QED
    BY <2>2, <2>3 DEF BeginMark, page, toasts, mutations, world
<1>2. mark \in MarkType /\ mark.ids \subseteq committed /\ committed \subseteq Ids
  BY <1>1, Steps DEF MarkInv, InFlight, TypeOK
<1>3. ids \subseteq committed
  BY <1>2
<1>4. /\ tx' \in [Both -> [step : {"none", "marked", "counted"}, ids : SUBSET Ids, count : Nat]]
      /\ tx'["mine"] = [step |-> "marked", ids |-> ids, count |-> 0] /\ tx'["other"] = tx["other"]
      /\ DOMAIN tx = Both /\ DOMAIN tx' = Both /\ tx["other"].step = "none"
  <2> HIDE DEF ids
  <2> QED
    BY <1>1, <1>2, <1>3 DEF Types, Both, Open
<1>5. mark.ids \subseteq read \union ids
  BY <1>2
<1>6. mark.all \/ mark.ids = ids
  OBVIOUS
<1> HIDE DEF ids
<1>7. TypeOK' /\ Types' /\ ToastOnce'
  <2>1. TypeOK'
    BY <1>1, <1>3, <1>4 DEF TypeOK, Both
  <2>2. Types'
    BY <1>1, <1>4 DEF Types
  <2> QED
    BY <1>1, <2>1, <2>2 DEF ToastOnce
<1>8. RoundInv'
  BY <1>1 DEF RoundInv, Reading, Told, Above, Between, PageInv, Lag, Excused, Unread
<1>9. MoreInv'
  BY <1>1 DEF MoreInv, InFlight, Told, Between, PageInv, Lag, Excused, Unread
<1>10. ShownInv'
  BY <1>1 DEF ShownInv, Cover, Reading, Told, Between, Lag, Excused, InFlight, Unread
<1>11. MarkInv'
  BY <1>1, <1>4, <1>5, <1>6 DEF MarkInv, Open, Cover, Reading, Told, InFlight, Both, Unread
<1>12. MarksCountMarks'
  BY <1>1, <1>4 DEF MarksCountMarks, Both
<1> QED
  BY <1>7, <1>8, <1>9, <1>10, <1>11, <1>12

\* The same for another tab, whose marks this tab is not told of.
LEMMA MarkElsewhereKeeps ==
  ASSUME NotificationsInv, MarkElsewhere
  PROVE  NotificationsInv'
<1> USE DEF NotificationsInv
<1>1. PICK ids \in {{i} : i \in committed} \union {committed \ read} : MarkIn("other", ids)
  BY DEF MarkElsewhere
<1>2. /\ \A w \in Both : ~Open(w)
      /\ tx' = [tx EXCEPT !["other"] = [step |-> "marked", ids |-> ids, count |-> 0]]
      /\ UNCHANGED <<committed, read, elsewhere, shown, seen, count, cursor, loadedPages, hasBaseline,
                     error, known, pendingLive, toasted, round, queued, more, mark, todo, wake,
                     regressed>>
  BY <1>1 DEF MarkElsewhere, MarkIn, OwnerFree, NoTx, Types, Both, page, toasts, mutations
<1>3. ids \subseteq committed /\ committed \subseteq Ids
  BY DEF TypeOK
<1>4. /\ tx' \in [Both -> [step : {"none", "marked", "counted"}, ids : SUBSET Ids, count : Nat]]
      /\ tx'["other"] = [step |-> "marked", ids |-> ids, count |-> 0] /\ tx'["mine"] = tx["mine"]
      /\ DOMAIN tx = Both /\ DOMAIN tx' = Both /\ tx["mine"].step = "none"
  BY <1>2, <1>3 DEF Types, Both, Open
<1>5. TypeOK' /\ Types' /\ ToastOnce'
  <2>1. TypeOK'
    BY <1>2, <1>3, <1>4 DEF TypeOK, Both
  <2>2. Types'
    BY <1>2, <1>4 DEF Types
  <2> QED
    BY <1>2, <2>1, <2>2 DEF ToastOnce
<1>6. RoundInv'
  BY <1>2 DEF RoundInv, Reading, Told, Above, Between, PageInv, Lag, Excused, Unread
<1>7. MoreInv'
  BY <1>2 DEF MoreInv, InFlight, Told, Between, PageInv, Lag, Excused, Unread
<1>8. ShownInv'
  BY <1>2 DEF ShownInv, Cover, Reading, Told, Between, Lag, Excused, InFlight, Unread
<1>9. MarkInv'
  BY <1>2, <1>4 DEF MarkInv, Open, Cover, Reading, Told, InFlight, Both, Unread
<1>10. MarksCountMarks'
  BY <1>2, <1>4 DEF MarksCountMarks, Both
<1> QED
  BY <1>5, <1>6, <1>7, <1>8, <1>9, <1>10

\* The transaction counts what it leaves unread.
LEMMA CountUnreadKeeps ==
  ASSUME NotificationsInv, NEW w \in Both, CountUnread(w)
  PROVE  NotificationsInv'
<1> USE DEF NotificationsInv
<1> DEFINE left == Cardinality(committed \ (read \union tx[w].ids))
<1>1. /\ tx[w].step = "marked"
      /\ tx' = [tx EXCEPT ![w].step = "counted", ![w].count = left]
      /\ UNCHANGED <<committed, read, elsewhere, shown, seen, count, cursor, loadedPages, hasBaseline,
                     error, known, pendingLive, toasted, round, queued, more, mark, todo, wake,
                     regressed>>
  BY DEF CountUnread, page, toasts, mutations, world
<1>2. left \in Nat
  <2>1. committed \ (read \union tx[w].ids) \subseteq Ids
    BY DEF TypeOK
  <2> QED
    BY <2>1, RowsFinite
<1>3. left = Cardinality(committed' \ (read' \union tx[w].ids))
  BY <1>1
<1> HIDE DEF left
<1>4. /\ tx' \in [Both -> [step : {"none", "marked", "counted"}, ids : SUBSET Ids, count : Nat]]
      /\ \A v \in Both : tx'[v].ids = tx[v].ids
      /\ tx'[w].step = "counted" /\ tx'[w].count = left
      /\ \A v \in Both : v # w => tx'[v] = tx[v]
      /\ DOMAIN tx = Both /\ DOMAIN tx' = Both
  BY <1>1, <1>2 DEF Types
<1>5. TypeOK' /\ Types' /\ ToastOnce'
  <2>1. TypeOK'
    BY <1>1, <1>4 DEF TypeOK
  <2>2. Types'
    BY <1>1, <1>4 DEF Types
  <2> QED
    BY <1>1, <2>1, <2>2 DEF ToastOnce
<1>6. RoundInv'
  BY <1>1 DEF RoundInv, Reading, Told, Above, Between, PageInv, Lag, Excused, Unread
<1>7. MoreInv'
  BY <1>1 DEF MoreInv, InFlight, Told, Between, PageInv, Lag, Excused, Unread
<1>8. ShownInv'
  BY <1>1 DEF ShownInv, Cover, Reading, Told, Between, Lag, Excused, InFlight, Unread
<1>9. \A v \in Both : Open(v)' <=> Open(v)
  BY <1>1, <1>4 DEF Open
<1>10. MarkInv'
  <2>1. \A v, u \in Both : Open(v)' /\ Open(u)' => v = u
    BY <1>9 DEF MarkInv
  <2>2. tx'["mine"].step = "counted" =>
          \/ mark.overtaken \/ Cover
          \/ tx'["mine"].count = Cardinality(committed' \ (read' \union tx'["mine"].ids))
    BY <1>1, <1>3, <1>4 DEF MarkInv, Both
  <2>3. tx'["mine"].ids = tx["mine"].ids
    BY <1>4 DEF Both
  <2> QED
    BY <1>1, <1>9, <2>1, <2>2, <2>3 DEF MarkInv, Cover, Reading, Told, InFlight, Both, Unread
<1>11. MarksCountMarks'
  <2>1. ASSUME NEW v \in Both, tx'[v].step = "counted"
        PROVE  tx'[v].count <= Cardinality(committed' \ (read' \union tx'[v].ids))
    <3>1. CASE v = w
      <4>1. tx'[v].count = Cardinality(committed' \ (read' \union tx'[v].ids))
        BY <1>3, <1>4, <3>1
      <4>2. tx'[v].count \in Nat
        BY <1>2, <1>4, <3>1
      <4> QED
        BY <4>1, <4>2
    <3>2. CASE v # w
      BY <1>1, <1>4, <2>1, <3>2 DEF MarksCountMarks
    <3> QED
      BY <3>1, <3>2
  <2> QED
    BY <1>4, <2>1 DEF MarksCountMarks
<1> QED
  BY <1>5, <1>6, <1>7, <1>8, <1>10, <1>11

\* The mark of this tab is committed: what lags behind it, the answer sees to.
LEMMA CommitMineKeeps ==
  ASSUME NotificationsInv, CommitMark("mine")
  PROVE  NotificationsInv'
<1> USE DEF NotificationsInv
<1>1. /\ tx["mine"].step = "counted"
      /\ read' = read \union tx["mine"].ids /\ tx' = [tx EXCEPT !["mine"] = NoTx]
      /\ mark' = [mark EXCEPT !.step = "answered", !.count = tx["mine"].count]
      /\ UNCHANGED <<committed, elsewhere, shown, seen, count, cursor, loadedPages, hasBaseline,
                     error, known, pendingLive, toasted, round, queued, more, todo, wake, regressed>>
  BY DEF CommitMark, page, toasts, world
<1>2. mark \in MarkType /\ mark.step = "asked"
  BY <1>1, Steps DEF MarkInv, Open, InFlight
<1>3. /\ tx["mine"].ids \subseteq committed /\ tx["mine"].count \in Nat /\ committed \subseteq Ids
      /\ tx["other"].step = "none" /\ DOMAIN tx = Both
  BY <1>1 DEF TypeOK, Types, MarkInv, Open, Both
<1>4. /\ tx'["mine"] = NoTx /\ tx'["other"] = tx["other"] /\ DOMAIN tx' = Both
      /\ tx' \in [Both -> [step : {"none", "marked", "counted"}, ids : SUBSET Ids, count : Nat]]
  BY <1>1 DEF NoTx, Types, Both
<1>5. mark' \in MarkType
  BY <1>1, <1>2, <1>3 DEF MarkType
<1>6. /\ mark'.step = "answered" /\ mark'.count = tx["mine"].count /\ mark'.ids = mark.ids
      /\ mark'.all = mark.all /\ mark'.held = mark.held /\ mark'.wasRead = mark.wasRead
      /\ mark'.overtaken = mark.overtaken
  BY <1>1, <1>2 DEF MarkType
<1>7. /\ mark.ids \subseteq read' /\ read \subseteq read' /\ read' \subseteq committed
      /\ mark.all \/ mark.ids = tx["mine"].ids
  BY <1>1, <1>2, <1>3 DEF MarkInv, Open, TypeOK
<1>8. TypeOK' /\ Types' /\ ToastOnce'
  <2>1. TypeOK'
    BY <1>1, <1>3, <1>4, <1>6, <1>7 DEF TypeOK, NoTx, Both
  <2>2. Types'
    BY <1>1, <1>4, <1>5 DEF Types
  <2> QED
    BY <1>1, <2>1, <2>2 DEF ToastOnce
<1>9. RoundInv'
  BY <1>1, <1>2, <1>6, <1>7 DEF RoundInv, Reading, Told, Above, Between, PageInv, Lag, Excused
<1>10. MoreInv'
  BY <1>1, <1>2, <1>6, <1>7 DEF MoreInv, InFlight, Told, Between, PageInv, Lag, Excused
<1>11. ShownInv'
  BY <1>1, <1>2, <1>6, <1>7 DEF ShownInv, Cover, Reading, Told, Between, Lag, Excused, InFlight
<1>12. MarkInv'
  <2>1. \/ mark.overtaken \/ Cover
        \/ mark'.count = Unread'
    BY <1>1, <1>6 DEF MarkInv, Unread
  <2> QED
    BY <1>1, <1>2, <1>3, <1>4, <1>6, <1>7, <2>1
       DEF MarkInv, Open, Cover, Reading, Told, InFlight, NoTx, Both
<1>13. MarksCountMarks'
  BY <1>3, <1>4 DEF MarksCountMarks, NoTx, Both
<1> QED
  BY <1>8, <1>9, <1>10, <1>11, <1>12, <1>13

\* The mark of another tab is committed: it counts as made elsewhere.
LEMMA CommitOtherKeeps ==
  ASSUME NotificationsInv, CommitMark("other")
  PROVE  NotificationsInv'
<1> USE DEF NotificationsInv
<1> DEFINE ids == tx["other"].ids
<1>1. /\ tx["other"].step = "counted"
      /\ read' = read \union ids /\ elsewhere' = elsewhere \union (ids \ read)
      /\ tx' = [tx EXCEPT !["other"] = NoTx]
      /\ UNCHANGED <<committed, shown, seen, count, cursor, loadedPages, hasBaseline,
                     error, known, pendingLive, toasted, round, queued, more, mark, todo, wake,
                     regressed>>
  BY DEF CommitMark, page, toasts, world
<1>2. /\ ids \subseteq committed /\ committed \subseteq Ids
      /\ tx["mine"].step = "none" /\ DOMAIN tx = Both
  BY <1>1 DEF TypeOK, Types, MarkInv, Open, Both
<1>3. /\ tx'["other"] = NoTx /\ tx'["mine"] = tx["mine"] /\ DOMAIN tx' = Both
      /\ tx' \in [Both -> [step : {"none", "marked", "counted"}, ids : SUBSET Ids, count : Nat]]
  BY <1>1 DEF NoTx, Types, Both
<1>4. /\ read \subseteq read' /\ read' \subseteq committed /\ read' \ elsewhere' \subseteq read \ elsewhere
      /\ elsewhere' # {} \/ (elsewhere = {} /\ Unread' = Unread)
  <2>1. /\ read \subseteq read' /\ read' \subseteq committed /\ read' \ elsewhere' \subseteq read \ elsewhere
    BY <1>1, <1>2 DEF TypeOK
  <2>2. CASE elsewhere' = {}
    <3>1. ids \subseteq read /\ elsewhere = {}
      BY <1>1, <2>2
    <3>2. read' = read
      BY <1>1, <3>1
    <3> QED
      BY <1>1, <2>1, <3>1, <3>2 DEF Unread
  <2> QED
    BY <2>1, <2>2
<1>5. TypeOK' /\ Types' /\ ToastOnce'
  <2>1. TypeOK'
    BY <1>1, <1>2, <1>3, <1>4 DEF TypeOK, NoTx, Both
  <2>2. Types'
    BY <1>1, <1>3 DEF Types
  <2> QED
    BY <1>1, <2>1, <2>2 DEF ToastOnce
<1>6. RoundInv'
  BY <1>1, <1>4 DEF RoundInv, Reading, Told, Above, Between, PageInv, Lag, Excused
<1>7. MoreInv'
  BY <1>1, <1>4 DEF MoreInv, InFlight, Told, Between, PageInv, Lag, Excused
<1>8. ShownInv'
  BY <1>1, <1>4 DEF ShownInv, Cover, Reading, Told, Between, Lag, Excused, InFlight
<1>9. MarkInv'
  BY <1>1, <1>2, <1>3, <1>4 DEF MarkInv, Open, Cover, Reading, Told, InFlight, NoTx, Both
<1>10. MarksCountMarks'
  BY <1>2, <1>3 DEF MarksCountMarks, NoTx, Both
<1> QED
  BY <1>5, <1>6, <1>7, <1>8, <1>9, <1>10

-----------------------------------------------------------------------------
(* Beginning, queueing and ending a reconciliation.                        *)

\* A new round supersedes what loadMore has asked for.
RoundBegins ==
  /\ \E reason \in Reasons : round' = Round(reason)
  /\ error' = FALSE /\ queued' = "none"
  /\ more' \in {Superseded(more), Superseded(Mutated(more)), Waiting}

\* Another round is to follow the one under way.
RoundQueued ==
  /\ round # Off /\ queued' \in Reasons /\ error' = error
  /\ round' \in {round, Mutated(round)} /\ more' \in {more, Mutated(more), Waiting}

\* Typed and flagged: what becomes of the requests of the two processes.
LEMMA RequestTypes ==
  /\ \A reason \in Reasons : Round(reason) \in RoundType
  /\ \A m \in MoreType : Superseded(m) \in MoreType /\ Mutated(m) \in MoreType
  /\ \A r \in RoundType : Mutated(r) \in RoundType
<1>1. NoPage \in Page
  BY DEF NoPage, Page
<1>2. ASSUME NEW reason \in Reasons
      PROVE  Round(reason) \in RoundType
  BY <1>1 DEF Round, RoundType, Reasons
<1>3. ASSUME NEW m \in MoreType
      PROVE  Superseded(m) \in MoreType /\ Mutated(m) \in MoreType
  BY DEF Superseded, Mutated, MoreType
<1>4. ASSUME NEW r \in RoundType
      PROVE  Mutated(r) \in RoundType
  BY DEF Mutated, RoundType
<1> QED
  BY <1>2, <1>3, <1>4

\* A round that begins has read nothing yet, and supersedes what loadMore asks for.
LEMMA RoundBeginsKeeps ==
  ASSUME NotificationsInv, RoundBegins, UNCHANGED <<committed, read>>
  PROVE  /\ RoundInv' /\ MoreInv'
         /\ round' \in RoundType /\ Reading' /\ round' # Off
         /\ more' \in {Off, Waiting} \/ more' \in MoreType
         /\ queued' = "none" /\ error' = FALSE
<1> USE DEF NotificationsInv
<1>1. PICK reason \in Reasons : round' = Round(reason)
  BY DEF RoundBegins
<1>2. round' \in RoundType /\ round' = Round(reason)
  BY <1>1, RequestTypes
<1>3. /\ round'.step = "asked" /\ round'.rows = {} /\ round'.read = {} /\ round'.cursor = None
  BY <1>1 DEF Round
<1>4. RoundInv' /\ Reading' /\ round' # Off
  BY <1>2, <1>3 DEF RoundInv, Reading, RoundBegins, RoundType, Off, Above, Lag, Excused
<1>5. CASE InFlight(more) /\ more' # Waiting
  <2>1. more \in MoreType
    BY <1>5, Steps
  <2>2. /\ more' \in MoreType /\ more'.superseded = TRUE /\ more'.cursor = more.cursor
        /\ more'.step = more.step /\ more'.reply = more.reply
    <3>1. CASE more' = Superseded(more)
      <4>1. more' = [more EXCEPT !.superseded = TRUE]
        BY <1>5, <3>1 DEF Superseded
      <4> QED
        BY <2>1, <4>1 DEF MoreType
    <3>2. CASE more' = Superseded(Mutated(more))
      <4>1. Mutated(more) = [more EXCEPT !.mutated = TRUE] /\ InFlight(Mutated(more))
        BY <1>5, <2>1 DEF Mutated, InFlight, MoreType
      <4>2. more' = [[more EXCEPT !.mutated = TRUE] EXCEPT !.superseded = TRUE]
        BY <3>2, <4>1 DEF Superseded
      <4> QED
        BY <2>1, <4>2 DEF MoreType
    <3> QED
      BY <1>5, <3>1, <3>2 DEF RoundBegins
  <2>3. MoreInv'
    BY <1>5, <2>2 DEF MoreInv, InFlight, PageInv, Between
  <2> QED
    BY <1>2, <1>4, <2>2, <2>3 DEF RoundBegins
<1>6. CASE ~InFlight(more) \/ more' = Waiting
  <2>1. more' \in {more, Waiting} /\ ~InFlight(Waiting)
    BY <1>6 DEF RoundBegins, Superseded, Mutated, Waiting, InFlight
  <2>2. more' \in {Off, Waiting} /\ ~InFlight(more)'
    BY <1>6, <2>1, Steps DEF InFlight
  <2>3. MoreInv'
    BY <2>2 DEF MoreInv
  <2> QED
    BY <1>2, <1>4, <2>2, <2>3 DEF RoundBegins
<1> QED
  BY <1>5, <1>6

\* A round that is queued will see to what the one under way lacks.
LEMMA RoundQueuedKeeps ==
  ASSUME NotificationsInv, RoundQueued, UNCHANGED <<committed, read>>
  PROVE  /\ RoundInv' /\ MoreInv'
         /\ round' \in RoundType /\ round' # Off /\ round'.step = round.step
         /\ more' \in {Off, Waiting} \/ more' \in MoreType
         /\ queued' \in Reasons
<1> USE DEF NotificationsInv
<1>1. round \in RoundType /\ "none" \notin Reasons
  BY Steps DEF RoundQueued, Reasons
<1>2. /\ round' \in RoundType /\ round'.step = round.step /\ round'.rows = round.rows
      /\ round'.read = round.read /\ round'.cursor = round.cursor /\ round'.reply = round.reply
  <2>1. CASE round' = round
    BY <1>1, <2>1
  <2>2. CASE round' = Mutated(round) /\ round' # round
    <3>1. round' = [round EXCEPT !.mutated = TRUE]
      BY <2>2 DEF Mutated
    <3> QED
      BY <1>1, <3>1 DEF RoundType
  <2> QED
    BY <2>1, <2>2 DEF RoundQueued
<1>3. round' # Off
  BY <1>2 DEF RoundType, Off
<1>4. RoundInv'
  BY <1>1, <1>2, <1>3 DEF RoundInv, RoundQueued, Reading, Told, Above, Between, PageInv
<1>5. CASE InFlight(more) /\ more' # Waiting
  <2>1. more \in MoreType /\ more.superseded = TRUE
    BY <1>5, Steps DEF MoreInv, RoundQueued, MoreType
  <2>2. /\ more' \in MoreType /\ more'.superseded = TRUE /\ more'.cursor = more.cursor
        /\ more'.step = more.step /\ more'.reply = more.reply
    <3>1. CASE more' = more
      BY <2>1, <3>1
    <3>2. CASE more' = Mutated(more)
      <4>1. more' = [more EXCEPT !.mutated = TRUE]
        BY <1>5, <3>2 DEF Mutated
      <4> QED
        BY <2>1, <4>1 DEF MoreType
    <3> QED
      BY <1>5, <3>1, <3>2 DEF RoundQueued
  <2>3. MoreInv'
    BY <1>5, <2>2 DEF MoreInv, InFlight, PageInv, Between
  <2> QED
    BY <1>2, <1>3, <1>4, <2>2, <2>3 DEF RoundQueued
<1>6. CASE ~InFlight(more) \/ more' = Waiting
  <2>1. more' \in {more, Waiting} /\ ~InFlight(Waiting)
    BY <1>6 DEF RoundQueued, Mutated, Waiting, InFlight
  <2>2. more' \in {Off, Waiting} /\ ~InFlight(more)'
    BY <1>6, <2>1, Steps DEF InFlight
  <2>3. MoreInv'
    BY <2>2 DEF MoreInv
  <2> QED
    BY <1>2, <1>3, <1>4, <2>2, <2>3 DEF RoundQueued
<1> QED
  BY <1>5, <1>6

\* Whatever is to be read again may be shown and answered as it is.
LEMMA ReadAgainKeeps ==
  ASSUME NotificationsInv, RoundBegins \/ RoundQueued,
         UNCHANGED <<committed, read, tx, elsewhere, shown, seen, count, cursor, loadedPages,
                     hasBaseline, known, mark, todo, regressed>>,
         wake' \in BOOLEAN, toasted' \union pendingLive' \subseteq known, ToastOnce'
  PROVE  NotificationsInv'
<1> USE DEF NotificationsInv
<1>1. /\ RoundInv' /\ MoreInv' /\ round' \in RoundType /\ round' # Off
      /\ more' \in {Off, Waiting} \/ more' \in MoreType
      /\ Reading' \/ (queued' # "none" /\ round'.step = round.step)
      /\ queued' \in Reasons \union {"none"} /\ error' \in BOOLEAN
  <2>1. CASE RoundBegins
    BY <2>1, RoundBeginsKeeps
  <2>2. CASE RoundQueued
    <3>1. error' \in BOOLEAN
      BY <2>2 DEF RoundQueued, TypeOK
    <3> QED
      BY <2>2, <3>1, RoundQueuedKeeps DEF Reasons
  <2> QED
    BY <2>1, <2>2
<1>2. TypeOK'
  <2>1. more' \in {Off, Waiting} \/ InFlight(more)'
    BY <1>1 DEF InFlight, MoreType
  <2> QED
    BY <1>1, <2>1 DEF TypeOK, RoundType
<1>3. Types'
  BY <1>1 DEF Types
<1>4. Cover' /\ (queued' # "none" \/ Reading')
  BY <1>1 DEF Cover, Told
<1>5. ShownInv'
  BY <1>4 DEF ShownInv, Between, InFlight
<1>6. MarkInv'
  BY <1>4 DEF MarkInv, Open, InFlight, Both
<1>7. MarksCountMarks'
  BY DEF MarksCountMarks
<1> QED
  BY <1>1, <1>2, <1>3, <1>5, <1>6, <1>7

\* The last round has ended: its pages are shown, or the error is.
LEMMA RoundEndsKeeps ==
  ASSUME NotificationsInv, round # Off, round' = Off, queued = "none", queued' = "none",
         error' = TRUE \/ (round.step = "accounts" /\ error' = FALSE), more' = more,
         UNCHANGED <<committed, read, tx, elsewhere, shown, seen, count, cursor, loadedPages,
                     hasBaseline, known, mark, todo, wake, regressed>>,
         toasted' \union pendingLive' \subseteq known, ToastOnce'
  PROVE  NotificationsInv'
<1> USE DEF NotificationsInv
<1>1. Off.step = "off"
  BY DEF Off
<1>2. error = FALSE
  BY DEF RoundInv, TypeOK
<1>3. TypeOK'
  BY DEF TypeOK, InFlight
<1>4. Types'
  BY DEF Types
<1>5. RoundInv'
  BY <1>1 DEF RoundInv, Reading
<1>6. MoreInv'
  <2>1. CASE InFlight(more)
    <3>1. more.superseded = TRUE
      BY <2>1, Steps DEF MoreInv, MoreType
    <3> QED
      BY <2>1, <3>1 DEF MoreInv, InFlight, PageInv, Between
  <2>2. CASE ~InFlight(more)
    BY <2>2 DEF MoreInv, InFlight
  <2> QED
    BY <2>1, <2>2
<1>7. Cover => Cover' \/ Reading
  BY <1>2 DEF Cover, Told
<1>8. Reading => error' = TRUE
  BY DEF Reading
<1>9. ShownInv'
  BY <1>2, <1>7, <1>8 DEF ShownInv, Between, InFlight, Cover, Lag, Excused, Unread
<1>10. MarkInv'
  BY <1>2, <1>7, <1>8 DEF MarkInv, Open, InFlight, Both, Cover, Unread
<1>11. MarksCountMarks'
  BY DEF MarksCountMarks
<1> QED
  BY <1>3, <1>4, <1>5, <1>6, <1>9, <1>10, <1>11

\* A wake-up is delivered.
LEMMA WakeKeeps ==
  ASSUME NotificationsInv, Wake
  PROVE  NotificationsInv'
<1> USE DEF NotificationsInv
<1>1. RoundBegins \/ RoundQueued
  BY Steps DEF Wake, Reconcile, RoundBegins, RoundQueued, RoundInv, Reasons, Merge
<1>2. /\ UNCHANGED <<committed, read, tx, elsewhere, shown, seen, count, cursor, loadedPages,
                     hasBaseline, known, pendingLive, toasted, mark, todo, regressed>>
      /\ wake' = FALSE
  BY DEF Wake, server, page, toasts, mutations
<1> QED
  BY <1>1, <1>2, ReadAgainKeeps DEF ToastOnce, TypeOK

\* The user looks at the history.
LEMMA LookKeeps ==
  ASSUME NotificationsInv, Look
  PROVE  NotificationsInv'
<1> USE DEF NotificationsInv
<1>1. RoundBegins \/ RoundQueued
  BY Steps DEF Look, Reconcile, RoundBegins, RoundQueued, RoundInv, Reasons, Merge
<1>2. UNCHANGED <<committed, read, tx, elsewhere, shown, seen, count, cursor, loadedPages,
                  hasBaseline, known, pendingLive, toasted, mark, todo, wake, regressed>>
  BY DEF Look, server, page, toasts, mutations
<1> QED
  BY <1>1, <1>2, ReadAgainKeeps DEF ToastOnce, TypeOK

-----------------------------------------------------------------------------
(* The reconciliation.                                                     *)

\* A page is read: it is what the database holds now.
LEMMA ServeRoundKeeps ==
  ASSUME NotificationsInv, ServeRound
  PROVE  NotificationsInv'
<1> USE DEF NotificationsInv
<1> DEFINE p == PageBelow(round.cursor)
<1>1. /\ round.step = "asked" /\ round' = [round EXCEPT !.step = "answered", !.reply = p]
      /\ UNCHANGED <<committed, read, tx, elsewhere, shown, seen, count, cursor, loadedPages,
                     hasBaseline, error, known, pendingLive, toasted, queued, more, mark, todo, wake,
                     regressed>>
  BY DEF ServeRound, server, page, toasts, mutations, world
<1>2. round \in RoundType
  BY <1>1, Steps DEF Off
<1>3. /\ p \in Page /\ p.rows = Between(round.cursor, p.next)
      /\ p.read = p.rows \intersect read /\ p.count = Unread
      /\ p.next # None => p.next \in p.rows /\ \E i \in committed : i < p.next
  BY <1>2, PageNow DEF RoundType
<1> HIDE DEF p
<1>4. round' \in RoundType
  BY <1>1, <1>2, <1>3 DEF RoundType
<1>5. /\ round'.step = "answered" /\ round'.reply = p /\ round'.cursor = round.cursor
      /\ round'.rows = round.rows /\ round'.read = round.read /\ round'.mutated = round.mutated
      /\ round'.reason = round.reason
  BY <1>1, <1>2 DEF RoundType
<1>6. round # Off /\ round' # Off
  BY <1>2, <1>4 DEF RoundType, Off
<1>7. TypeOK' /\ Types' /\ ToastOnce'
  <2>1. TypeOK'
    BY <1>1, <1>2, <1>5, <1>6 DEF TypeOK, InFlight, RoundType
  <2>2. Types'
    BY <1>1, <1>4 DEF Types
  <2> QED
    BY <1>1, <2>1, <2>2 DEF ToastOnce
<1>8. RoundInv'
  <2>1. PageInv(round.reply, round.cursor, round.mutated)'
    <3>1. (p.rows \intersect read) \ (p.read \union elsewhere) = {}
      BY <1>3
    <3> QED
      BY <1>1, <1>3, <1>5, <3>1 DEF PageInv, Between, Lag, Excused, Unread
  <2> QED
    BY <1>1, <1>5, <1>6, <2>1 DEF RoundInv, Reading, Told, Above, Between, Lag, Excused
<1>9. MoreInv'
  BY <1>1, <1>6 DEF MoreInv, InFlight, Told, Between, PageInv, Lag, Excused, Unread
<1>10. Reading /\ Reading'
  BY <1>1, <1>5 DEF Reading
<1>11. ShownInv'
  BY <1>1, <1>10 DEF ShownInv, Cover, Between, InFlight
<1>12. MarkInv'
  BY <1>1, <1>10 DEF MarkInv, Open, Cover, InFlight, Both
<1>13. MarksCountMarks'
  BY <1>1 DEF MarksCountMarks
<1> QED
  BY <1>7, <1>8, <1>9, <1>11, <1>12, <1>13

\* What the loop of rounds does at the end of one.
LEMMA NextRoundCases ==
  ASSUME NEW reason \in Reasons \union {"none"}, NEW failed, NextRound(reason, failed)
  PROVE  \/ reason # "none" /\ RoundBegins
         \/ /\ reason = "none" /\ round' = Off /\ queued' = "none" /\ more' = more
            /\ error' = failed
BY DEF NextRound, RoundBegins

\* A round whose pages a mutation overtook is repeated.
LEMMA DropRoundKeeps ==
  ASSUME NotificationsInv, DropRound
  PROVE  NotificationsInv'
<1> USE DEF NotificationsInv
<1>1. Merge(queued, "recovery") \in Reasons /\ "none" \notin Reasons
  BY DEF Merge, Reasons
<1>2. RoundBegins
  BY <1>1, NextRoundCases DEF DropRound
<1>3. UNCHANGED <<committed, read, tx, elsewhere, shown, seen, count, cursor, loadedPages,
                  hasBaseline, known, pendingLive, toasted, mark, todo, wake, regressed>>
  BY DEF DropRound, server, page, toasts, mutations, world
<1> QED
  BY <1>2, <1>3, ReadAgainKeeps DEF ToastOnce, TypeOK

\* A request of a round fails.
LEMMA RoundFailsKeeps ==
  ASSUME NotificationsInv, RoundFails
  PROVE  NotificationsInv'
<1> USE DEF NotificationsInv
<1>1. queued \in Reasons \union {"none"} /\ round # Off
  BY DEF TypeOK, RoundFails, InFlight, Off
<1>2. UNCHANGED <<committed, read, tx, elsewhere, shown, seen, count, cursor, loadedPages,
                  hasBaseline, known, pendingLive, toasted, mark, todo, wake, regressed>>
  BY DEF RoundFails, server, page, toasts, mutations, world
<1>3. CASE RoundBegins
  BY <1>2, <1>3, ReadAgainKeeps DEF ToastOnce, TypeOK
<1>4. CASE queued = "none" /\ round' = Off /\ queued' = "none" /\ more' = more /\ error' = TRUE
  BY <1>1, <1>2, <1>4, RoundEndsKeeps DEF ToastOnce, TypeOK
<1> QED
  BY <1>1, <1>3, <1>4, NextRoundCases DEF RoundFails

\* The accounts are loaded, and what waited for them is shown once.
LEMMA AccountsLoadedKeeps ==
  ASSUME NotificationsInv, AccountsLoaded
  PROVE  NotificationsInv'
<1> USE DEF NotificationsInv
<1>1. queued \in Reasons \union {"none"} /\ round # Off /\ round.step = "accounts" /\ error = FALSE
  BY DEF TypeOK, AccountsLoaded, Off, RoundInv
<1>2. UNCHANGED <<committed, read, tx, elsewhere, shown, seen, count, cursor, loadedPages,
                  hasBaseline, known, mark, todo, wake, regressed>>
  BY DEF AccountsLoaded, server, page, mutations, world
<1>3. toasted' \union pendingLive' \subseteq known /\ ToastOnce'
  BY DEF AccountsLoaded, TypeOK, ToastOnce
<1>4. CASE RoundBegins
  BY <1>2, <1>3, <1>4, ReadAgainKeeps DEF TypeOK
<1>5. CASE queued = "none" /\ round' = Off /\ queued' = "none" /\ more' = more /\ error' = error
  BY <1>1, <1>2, <1>3, <1>5, RoundEndsKeeps
<1> QED
  BY <1>1, <1>4, <1>5, NextRoundCases DEF AccountsLoaded

\* The pages of a round read on from each other: together they are one page.
LEMMA PagesReadOn ==
  ASSUME NotificationsInv, round.step = "answered", ~round.mutated
  PROVE  /\ Rows \subseteq Between(None, round.reply.next) /\ ReadRows \subseteq Rows \intersect read
         /\ round.reply.next # None =>
              round.reply.next \in Rows /\ \E i \in committed : i < round.reply.next
         /\ Told \/ Between(None, round.reply.next) \subseteq Rows
         /\ queued # "none" \/ Excused(Lag(Rows, ReadRows))
         /\ \/ Told \/ mark.step = "answered" \/ elsewhere # {}
            \/ round.reply.count = Unread
<1> USE DEF NotificationsInv
<1> DEFINE c == round.cursor
           p == round.reply
<1>1. /\ round.rows \subseteq Above(c) /\ round.read \subseteq round.rows \intersect read
      /\ Told \/ Above(c) \subseteq round.rows
      /\ queued # "none" \/ Excused(Lag(round.rows, round.read))
  BY DEF RoundInv, Reading
<1>2. /\ p.rows \subseteq Between(c, p.next) /\ p.read \subseteq p.rows \intersect read
      /\ p.next # None => p.next \in p.rows /\ \E i \in committed : i < p.next
      /\ Told \/ Between(c, p.next) \subseteq p.rows
      /\ queued # "none" \/ Excused(Lag(p.rows, p.read))
      /\ Told \/ mark.step = "answered" \/ elsewhere # {} \/ p.count = Unread
  BY DEF RoundInv, PageInv
<1>3. /\ Rows = round.rows \union p.rows
      /\ ReadRows = (round.read \ p.rows) \union p.read
  BY DEF Rows, ReadRows
<1>4. c \in Ids \union {None} /\ p.next \in Ids \union {None} /\ committed \subseteq Nat
  <2>1. round \in RoundType
    BY Steps DEF Off
  <2> QED
    BY <2>1 DEF RoundType, Page, TypeOK
<1> HIDE DEF c, p
<1>5. Above(c) \union Between(c, p.next) = Between(None, p.next)
  <2>1. CASE c = None
    BY <2>1 DEF Above, Between
  <2>2. CASE c # None /\ p.next = None
    <3>1. \A i \in committed : i < c \/ i >= c
      BY <1>4, <2>2
    <3> QED
      BY <2>2, <3>1 DEF Above, Between
  <2>3. CASE c # None /\ p.next # None
    <3>1. p.next < c
      BY <1>2, <2>3 DEF Between
    <3>2. c \in Nat /\ p.next \in Nat
      BY <1>4, <2>3
    <3> DEFINE n == p.next
    <3>3. n \in Nat /\ n < c
      BY <3>1, <3>2
    <3> HIDE DEF n
    <3>4. \A i \in Nat : (i < c \/ i >= c) /\ (i >= c => i >= n)
      BY <3>2, <3>3
    <3>5. \A i \in committed : (i < c \/ i >= c) /\ (i >= c => i >= p.next)
      BY <1>4, <3>4 DEF n
    <3> QED
      BY <2>3, <3>5 DEF Above, Between
  <2> QED
    BY <2>1, <2>2, <2>3
<1>6. Rows \subseteq Between(None, p.next) /\ ReadRows \subseteq Rows \intersect read
  BY <1>1, <1>2, <1>3, <1>5
<1>7. Told \/ Between(None, p.next) \subseteq Rows
  BY <1>1, <1>2, <1>3, <1>5
<1>8. queued # "none" \/ Excused(Lag(Rows, ReadRows))
  <2>1. Lag(Rows, ReadRows) \subseteq Lag(round.rows, round.read) \union Lag(p.rows, p.read)
    BY <1>3 DEF Lag
  <2> QED
    BY <1>1, <1>2, <2>1 DEF Excused
<1>9. p.next # None => p.next \in Rows /\ \E i \in committed : i < p.next
  BY <1>2, <1>3
<1> QED
  BY <1>2, <1>6, <1>7, <1>8, <1>9 DEF p

\* The round asks for its next page.
LEMMA ReadOnKeeps ==
  ASSUME NotificationsInv, ReadOn
  PROVE  NotificationsInv'
<1> USE DEF NotificationsInv
<1>1. /\ round.step = "answered" /\ ~round.mutated /\ round.reply.next # None
      /\ round' = [round EXCEPT !.step = "asked", !.rows = Rows, !.read = ReadRows,
                                !.pages = @ + 1, !.cursor = round.reply.next]
      /\ UNCHANGED <<committed, read, tx, elsewhere, shown, seen, count, cursor, loadedPages,
                     hasBaseline, error, known, pendingLive, toasted, queued, more, mark, todo, wake,
                     regressed>>
  BY DEF ReadOn, LastPage, server, page, toasts, mutations, world
<1>2. round \in RoundType
  BY <1>1, Steps DEF Off
<1>3. Rows \subseteq committed /\ ReadRows \subseteq committed /\ committed \subseteq Ids
  BY <1>1, PagesReadOn DEF Between, TypeOK
<1>4. round' \in RoundType
  <2>1. /\ Rows \in SUBSET Ids /\ ReadRows \in SUBSET Ids /\ round.pages + 1 \in Nat
        /\ round.reply.next \in Ids \union {None}
    BY <1>2, <1>3 DEF RoundType, Page
  <2> QED
    BY <1>1, <1>2, <2>1 DEF RoundType
<1>5. /\ round'.step = "asked" /\ round'.cursor = round.reply.next /\ round'.rows = Rows
      /\ round'.read = ReadRows /\ round'.mutated = round.mutated /\ round'.reason = round.reason
  BY <1>1, <1>2 DEF RoundType
<1>6. round # Off /\ round' # Off
  BY <1>2, <1>4 DEF RoundType, Off
<1>7. TypeOK' /\ Types' /\ ToastOnce'
  <2>1. TypeOK'
    BY <1>1, <1>2, <1>5, <1>6 DEF TypeOK, InFlight, RoundType
  <2>2. Types'
    BY <1>1, <1>4 DEF Types
  <2> QED
    BY <1>1, <2>1, <2>2 DEF ToastOnce
<1>8. RoundInv'
  <2>1. Above(round.cursor)' = Between(None, round.reply.next)
    BY <1>1, <1>5 DEF Above, Between
  <2>2. Lag(round.rows, round.read)' = Lag(Rows, ReadRows)
    BY <1>1, <1>5 DEF Lag
  <2>3. /\ round'.rows \subseteq Above(round.cursor)' /\ round'.read \subseteq round'.rows \intersect read
        /\ Told' \/ Above(round.cursor)' \subseteq round'.rows
        /\ queued' # "none" \/ Excused(Lag(round.rows, round.read))'
    BY <1>1, <1>5, <2>1, <2>2, PagesReadOn DEF Told, Excused
  <2> QED
    BY <1>1, <1>5, <1>6, <2>3 DEF RoundInv
<1>9. MoreInv'
  BY <1>1, <1>6 DEF MoreInv, InFlight, Told, Between, PageInv, Lag, Excused, Unread
<1>10. Reading /\ Reading'
  BY <1>1, <1>5 DEF Reading
<1>11. ShownInv'
  BY <1>1, <1>10 DEF ShownInv, Cover, Between, InFlight
<1>12. MarkInv'
  BY <1>1, <1>10 DEF MarkInv, Open, Cover, InFlight, Both
<1>13. MarksCountMarks'
  BY <1>1 DEF MarksCountMarks
<1> QED
  BY <1>7, <1>8, <1>9, <1>11, <1>12, <1>13

\* A page is shown: a mark that is counted but not answered is older than it.
LEMMA OvertakenKeeps ==
  ASSUME NotificationsInv, Overtaken
  PROVE  /\ mark' \in {Off, Recovering} \/ mark' \in MarkType
         /\ mark' = Off <=> mark = Off
         /\ mark'.step = mark.step
         /\ InFlight(mark) =>
              /\ mark'.all = mark.all /\ mark'.ids = mark.ids /\ mark'.held = mark.held
              /\ mark'.wasRead = mark.wasRead
         /\ mark.step = "answered" \/ tx["mine"].step = "counted" => mark'.overtaken
<1> USE DEF NotificationsInv
<1>1. CASE mark.step = "answered" \/ tx["mine"].step = "counted"
  <2>1. mark \in MarkType
    BY <1>1, Steps DEF MarkInv, Open, InFlight
  <2>2. mark' = [mark EXCEPT !.overtaken = TRUE]
    BY <1>1 DEF Overtaken
  <2> QED
    BY <2>1, <2>2 DEF MarkType, Off
<1>2. CASE ~(mark.step = "answered" \/ tx["mine"].step = "counted")
  <2>1. mark' = mark
    BY <1>2 DEF Overtaken
  <2> QED
    BY <1>2, <2>1, Steps
<1> QED
  BY <1>1, <1>2

\* The pages of a round are shown, and the rows among them that are new are
\* kept for their toasts.
LEMMA ShowRoundKeeps ==
  ASSUME NotificationsInv, ShowRound
  PROVE  NotificationsInv'
<1> USE DEF NotificationsInv
<1>1. /\ round.step = "answered" /\ ~round.mutated /\ LastPage
      /\ shown' = Rows /\ seen' = ReadRows
      /\ count' = round.reply.count /\ cursor' = round.reply.next
      /\ loadedPages' = round.pages + 1 /\ hasBaseline' = TRUE /\ regressed' = FALSE
      /\ known' = known \union Rows
      /\ round' = [round EXCEPT !.step = "accounts"]
      /\ UNCHANGED <<committed, read, tx, elsewhere, error, toasted, queued, more, todo, wake>>
  BY DEF ShowRound, server, world
<1>2. pendingLive' = pendingLive \/ pendingLive' = pendingLive \union NewRows
  BY DEF ShowRound
<1>3. Overtaken
  BY DEF ShowRound
<1>4. round \in RoundType
  BY <1>1, Steps DEF Off
<1>5. round' \in RoundType
  BY <1>1, <1>4 DEF RoundType
<1>6. round # Off /\ round' # Off /\ round'.step = "accounts" /\ round'.reason = round.reason
      /\ error = FALSE
  BY <1>1, <1>4, <1>5 DEF RoundType, Off, RoundInv, TypeOK
<1>7. /\ Rows \subseteq committed /\ ReadRows \subseteq Rows \intersect read /\ committed \subseteq Ids
      /\ round.reply.next \in Ids \union {None} /\ round.reply.count \in Nat
      /\ round.pages + 1 \in Nat \ {0}
  BY <1>1, <1>4, PagesReadOn DEF Between, TypeOK, RoundType, Page
<1>8. TypeOK'
  <2>1. /\ read' \subseteq committed' /\ committed' \subseteq Ids
        /\ elsewhere' \subseteq read' /\ seen' \subseteq shown' /\ shown' \subseteq committed'
        /\ toasted' \union pendingLive' \subseteq known' /\ known' \subseteq committed'
    BY <1>1, <1>2, <1>7 DEF TypeOK, NewRows
  <2>2. /\ count' \in Nat /\ cursor' \in Ids \union {None} /\ loadedPages' \in Nat \ {0}
        /\ {hasBaseline', error', wake', regressed'} \subseteq BOOLEAN
    BY <1>1, <1>7 DEF TypeOK
  <2>3. mark' = Off \/ mark'.step \in {"asked", "answered", "recovering"}
    BY <1>3, OvertakenKeeps DEF TypeOK
  <2>4. /\ round'.reason \in Reasons /\ round'.step \in {"asked", "answered", "accounts"}
    BY <1>4, <1>6 DEF RoundType
  <2> QED
    BY <1>1, <1>6, <2>1, <2>2, <2>3, <2>4 DEF TypeOK, InFlight
<1>9. Types'
  BY <1>1, <1>3, <1>5, OvertakenKeeps DEF Types
<1>10. ToastOnce'
  BY <1>1, <1>2 DEF ToastOnce, NewRows, TypeOK
<1>11. RoundInv'
  BY <1>1, <1>6 DEF RoundInv, Reading
<1>12. MoreInv'
  <2>1. InFlight(more) => more.superseded
    BY <1>6 DEF MoreInv
  <2> QED
    BY <1>1, <2>1 DEF MoreInv, InFlight, Between, PageInv
<1>13. InFlight(mark)' <=> InFlight(mark)
  BY <1>3, OvertakenKeeps DEF InFlight
<1>14. ShownInv'
  <2>1. /\ shown' \subseteq Between(None, cursor)' /\ seen' \subseteq read'
        /\ cursor' # None => cursor' \in shown' /\ \E i \in committed' : i < cursor'
        /\ Told' \/ Between(None, cursor)' \subseteq shown'
    BY <1>1, PagesReadOn DEF Between, Told
  <2>2. queued' # "none" \/ Excused(Lag(shown, seen))'
    <3>1. Lag(shown, seen)' = Lag(Rows, ReadRows)
      BY <1>1 DEF Lag
    <3>2. queued # "none" \/ Excused(Lag(Rows, ReadRows))
      BY <1>1, PagesReadOn
    <3>3. mark.step = "answered" => mark'.all = mark.all /\ mark'.ids = mark.ids
      BY <1>3, OvertakenKeeps DEF InFlight
    <3>4. mark'.step = mark.step
      BY <1>3, OvertakenKeeps
    <3> QED
      BY <1>1, <3>1, <3>2, <3>3, <3>4 DEF Excused
  <2>3. InFlight(mark)' \/ Told' \/ elsewhere' # {} \/ count' = Unread'
    BY <1>1, <1>13, PagesReadOn DEF Told, Unread, InFlight
  <2> QED
    BY <1>7, <1>1, <2>1, <2>2, <2>3 DEF ShownInv, Cover
<1>15. MarkInv'
  <2>1. \A v, w \in Both : Open(v)' /\ Open(w)' => v = w
    BY <1>1 DEF MarkInv, Open
  <2>2. InFlight(mark)' => /\ mark'.ids \subseteq committed' /\ mark'.held \subseteq mark'.ids
                           /\ mark'.wasRead \subseteq read'
    BY <1>1, <1>3, <1>13, OvertakenKeeps DEF MarkInv
  <2>3. Open("mine")' => /\ mark'.step = "asked"
                         /\ IF mark'.all THEN mark'.ids \subseteq read' \union tx'["mine"].ids
                                         ELSE mark'.ids = tx'["mine"].ids
    BY <1>1, <1>3, OvertakenKeeps DEF MarkInv, Open, InFlight
  <2>4. mark'.step = "answered" \/ tx'["mine"].step = "counted" => mark'.overtaken
    BY <1>1, <1>3, OvertakenKeeps
  <2>5. mark'.step = "answered" => mark'.ids \subseteq read'
    BY <1>1, <1>3, OvertakenKeeps DEF MarkInv, InFlight
  <2> QED
    BY <2>1, <2>2, <2>3, <2>4, <2>5 DEF MarkInv
<1>16. MarksCountMarks'
  BY <1>1 DEF MarksCountMarks
<1> QED
  BY <1>8, <1>9, <1>10, <1>11, <1>12, <1>14, <1>15, <1>16

-----------------------------------------------------------------------------
(* loadMore.                                                               *)

\* What changes only the request of loadMore.
LEMMA OnlyMoreKeeps ==
  ASSUME NotificationsInv, MoreInv', more' \in {Off, Waiting} \/ more' \in MoreType,
         UNCHANGED <<committed, read, tx, elsewhere, shown, seen, count, cursor, loadedPages,
                     hasBaseline, error, known, pendingLive, toasted, round, queued, mark, todo,
                     wake, regressed>>
  PROVE  NotificationsInv'
<1> USE DEF NotificationsInv
<1>1. more' \in {Off, Waiting} \/ InFlight(more)'
  BY DEF InFlight, MoreType
<1>2. TypeOK' /\ Types' /\ ToastOnce'
  BY <1>1 DEF TypeOK, Types, ToastOnce
<1>3. RoundInv'
  BY DEF RoundInv, Reading, Told, Above, Between, PageInv, Lag, Excused, Unread
<1>4. ShownInv'
  BY DEF ShownInv, Cover, Reading, Told, Between, Lag, Excused, InFlight, Unread
<1>5. MarkInv'
  BY DEF MarkInv, Open, Cover, Reading, Told, InFlight, Both, Unread
<1>6. MarksCountMarks'
  BY DEF MarksCountMarks
<1> QED
  BY <1>2, <1>3, <1>4, <1>5, <1>6

\* A page is asked for at the cursor that is shown, with no round under way.
LEMMA NextPageKeeps ==
  ASSUME NotificationsInv, cursor # None, round = Off, round' = Off, cursor' = cursor,
         more' = NextPage
  PROVE  more' \in MoreType /\ MoreInv'
<1>1. cursor \in Ids
  BY DEF NotificationsInv, TypeOK
<1>2. NoPage \in Page
  BY DEF NoPage, Page
<1>3. more' \in MoreType
  BY <1>1, <1>2 DEF NextPage, MoreType
<1>4. more'.step = "asked" /\ more'.cursor = cursor
  BY DEF NextPage
<1> QED
  BY <1>3, <1>4 DEF MoreInv

\* The user asks for older rows.
LEMMA LoadMoreKeeps ==
  ASSUME NotificationsInv, LoadMore
  PROVE  NotificationsInv'
<1>1. UNCHANGED <<committed, read, tx, elsewhere, shown, seen, count, cursor, loadedPages,
                  hasBaseline, error, known, pendingLive, toasted, round, queued, mark, todo,
                  wake, regressed>>
  BY DEF LoadMore, server, page, toasts, mutations, world
<1>2. MoreInv' /\ (more' \in {Off, Waiting} \/ more' \in MoreType)
  <2>1. CASE round = Off
    BY <1>1, <2>1, NextPageKeeps DEF LoadMore
  <2>2. CASE round # Off
    BY <2>2 DEF LoadMore, MoreInv, InFlight, Waiting
  <2> QED
    BY <2>1, <2>2
<1> QED
  BY <1>1, <1>2, OnlyMoreKeeps

\* loadMore goes on after the round it waited for.
LEMMA ResumeMoreKeeps ==
  ASSUME NotificationsInv, ResumeMore
  PROVE  NotificationsInv'
<1>1. UNCHANGED <<committed, read, tx, elsewhere, shown, seen, count, cursor, loadedPages,
                  hasBaseline, error, known, pendingLive, toasted, round, queued, mark, todo,
                  wake, regressed>>
  BY DEF ResumeMore, server, page, toasts, mutations, world
<1>2. MoreInv' /\ (more' \in {Off, Waiting} \/ more' \in MoreType)
  <2>1. CASE cursor # None
    BY <1>1, <2>1, NextPageKeeps DEF ResumeMore
  <2>2. CASE cursor = None
    BY <2>2 DEF ResumeMore, MoreInv, InFlight, Off
  <2> QED
    BY <2>1, <2>2
<1> QED
  BY <1>1, <1>2, OnlyMoreKeeps

\* A page is read for loadMore: it is what the database holds now.
LEMMA ServeMoreKeeps ==
  ASSUME NotificationsInv, ServeMore
  PROVE  NotificationsInv'
<1> USE DEF NotificationsInv
<1> DEFINE p == PageBelow(more.cursor)
<1>1. /\ more.step = "asked" /\ more' = [more EXCEPT !.step = "answered", !.reply = p]
      /\ UNCHANGED <<committed, read, tx, elsewhere, shown, seen, count, cursor, loadedPages,
                     hasBaseline, error, known, pendingLive, toasted, round, queued, mark, todo,
                     wake, regressed>>
  BY DEF ServeMore, server, page, toasts, mutations, world
<1>2. more \in MoreType
  BY <1>1, Steps DEF InFlight
<1>3. /\ p \in Page /\ p.rows = Between(more.cursor, p.next)
      /\ p.read = p.rows \intersect read /\ p.count = Unread
      /\ p.next # None => p.next \in p.rows /\ \E i \in committed : i < p.next
  BY <1>2, PageNow DEF MoreType
<1> HIDE DEF p
<1>4. more' \in MoreType
  BY <1>1, <1>2, <1>3 DEF MoreType
<1>5. /\ more'.step = "answered" /\ more'.reply = p /\ more'.cursor = more.cursor
      /\ more'.superseded = more.superseded /\ more'.mutated = more.mutated
  BY <1>1, <1>2 DEF MoreType
<1>6. PageInv(more.reply, more.cursor, more.superseded \/ more.mutated)'
  <2>1. (p.rows \intersect read) \ (p.read \union elsewhere) = {}
    BY <1>3
  <2> QED
    BY <1>1, <1>3, <1>5, <2>1 DEF PageInv, Between, Lag, Excused, Unread
<1>7. MoreInv'
  BY <1>1, <1>5, <1>6 DEF MoreInv, InFlight
<1> QED
  BY <1>1, <1>4, <1>7, OnlyMoreKeeps

\* An answer that a round or a mutation overtook is asked for again.
LEMMA DropMoreKeeps ==
  ASSUME NotificationsInv, DropMore
  PROVE  NotificationsInv'
<1> USE DEF NotificationsInv
<1>1. UNCHANGED <<committed, read, tx, elsewhere, shown, seen, count, cursor, loadedPages,
                  hasBaseline, known, pendingLive, toasted, mark, todo, wake, regressed>>
  BY DEF DropMore, server, page, toasts, mutations, world
<1>2. CASE Reconcile("other", Waiting, round)
  <2>1. Superseded(Waiting) = Waiting
    BY DEF Superseded, Waiting, InFlight
  <2>2. RoundBegins \/ RoundQueued
    BY <1>2, <2>1, Steps DEF Reconcile, RoundBegins, RoundQueued, RoundInv, Reasons, Merge
  <2> QED
    BY <1>1, <2>2, ReadAgainKeeps DEF ToastOnce, TypeOK
<1>3. CASE more' = Waiting /\ UNCHANGED <<round, queued, error>>
  <2>1. MoreInv'
    BY <1>3 DEF MoreInv, InFlight, Waiting
  <2> QED
    BY <1>1, <1>3, <2>1, OnlyMoreKeeps
<1> QED
  BY <1>2, <1>3 DEF DropMore

\* The request of loadMore fails: the page that is shown stays.
LEMMA MoreFailsKeeps ==
  ASSUME NotificationsInv, MoreFails
  PROVE  NotificationsInv'
<1>1. UNCHANGED <<committed, read, tx, elsewhere, shown, seen, count, cursor, loadedPages,
                  hasBaseline, error, known, pendingLive, toasted, round, queued, mark, todo,
                  wake, regressed>>
  BY DEF MoreFails, server, page, toasts, mutations, world
<1>2. MoreInv' /\ more' \in {Off, Waiting}
  BY DEF MoreFails, MoreInv, InFlight, Off
<1> QED
  BY <1>1, <1>2, OnlyMoreKeeps

\* A page that nothing overtook is shown below what is shown.
LEMMA ShowMoreKeeps ==
  ASSUME NotificationsInv, ShowMore
  PROVE  NotificationsInv'
<1> USE DEF NotificationsInv
<1> DEFINE p == more.reply
<1>1. /\ more.step = "answered" /\ ~more.mutated /\ ~more.superseded
      /\ shown' = shown \union p.rows /\ seen' = (seen \ p.rows) \union p.read
      /\ count' = p.count /\ cursor' = p.next /\ regressed' = FALSE
      /\ loadedPages' = loadedPages + 1 /\ known' = known \union p.rows /\ more' = Off
      /\ UNCHANGED <<committed, read, tx, elsewhere, hasBaseline, error, pendingLive, toasted,
                     round, queued, todo, wake>>
  BY DEF ShowMore, MoreCurrent, server, world
<1>2. Overtaken
  BY DEF ShowMore
<1>3. more \in MoreType /\ InFlight(more)
  BY <1>1, Steps DEF InFlight
<1>4. /\ round = Off /\ cursor = more.cursor /\ queued = "none" /\ ~Reading /\ cursor # None
      /\ PageInv(p, cursor, FALSE)
  <2>1. round = Off /\ cursor = more.cursor /\ PageInv(p, cursor, more.superseded \/ more.mutated)
    BY <1>1, <1>3 DEF MoreInv
  <2>2. PageInv(p, cursor, FALSE)
    BY <1>1, <2>1 DEF PageInv
  <2> QED
    BY <1>3, <2>1, <2>2 DEF RoundInv, Reading, Off, MoreType
<1>5. /\ p.rows \subseteq Between(cursor, p.next) /\ p.read \subseteq p.rows \intersect read
      /\ p.next # None => p.next \in p.rows /\ \E i \in committed : i < p.next
      /\ Told \/ Between(cursor, p.next) \subseteq p.rows
      /\ Excused(Lag(p.rows, p.read))
      /\ Told \/ mark.step = "answered" \/ elsewhere # {} \/ p.count = Unread
  BY <1>4 DEF PageInv
<1>6. /\ p.next \in Ids \union {None} /\ p.count \in Nat /\ cursor \in Ids
      /\ committed \subseteq Ids /\ p.rows \subseteq committed
  BY <1>3, <1>4, <1>5 DEF MoreType, Page, TypeOK, Between
<1> HIDE DEF p
<1>7. Between(None, cursor) \union Between(cursor, p.next) = Between(None, p.next)
  <2> DEFINE n == p.next
  <2>1. n # None => n \in Nat /\ n < cursor
    BY <1>5, <1>6 DEF Between
  <2> HIDE DEF n
  <2>2. \A i \in committed : (i < cursor \/ i >= cursor) /\ (n # None /\ i >= cursor => i >= n)
    BY <1>6, <2>1
  <2>3. n = None => Between(None, cursor) \union Between(cursor, n) = Between(None, n)
    BY <1>4, <2>2 DEF Between
  <2>4. n # None => Between(None, cursor) \union Between(cursor, n) = Between(None, n)
    BY <1>4, <2>2 DEF Between
  <2> QED
    BY <2>3, <2>4 DEF n
<1>8. TypeOK'
  <2>1. /\ elsewhere' \subseteq read' /\ seen' \subseteq shown' /\ shown' \subseteq committed'
        /\ toasted' \union pendingLive' \subseteq known' /\ known' \subseteq committed'
    BY <1>1, <1>5, <1>6 DEF TypeOK
  <2>2. /\ count' \in Nat /\ cursor' \in Ids \union {None}
        /\ {hasBaseline', error', wake', regressed'} \subseteq BOOLEAN
    BY <1>1, <1>6 DEF TypeOK
  <2>4. loadedPages' \in Nat \ {0}
    BY <1>1 DEF TypeOK
  <2>3. mark' = Off \/ mark'.step \in {"asked", "answered", "recovering"}
    BY <1>2, OvertakenKeeps DEF TypeOK
  <2> QED
    BY <1>1, <2>1, <2>2, <2>3, <2>4 DEF TypeOK
<1>9. Types'
  BY <1>1, <1>2, OvertakenKeeps DEF Types
<1>10. ToastOnce'
  BY <1>1 DEF ToastOnce
<1>11. RoundInv'
  BY <1>1, <1>4 DEF RoundInv, Reading, Off
<1>12. MoreInv'
  BY <1>1 DEF MoreInv, InFlight, Off
<1>13. InFlight(mark)' <=> InFlight(mark)
  BY <1>2, OvertakenKeeps DEF InFlight
<1>14. ShownInv'
  <2>1. /\ shown \subseteq Between(None, cursor)
        /\ Cover \/ Between(None, cursor) \subseteq shown
        /\ (Cover => Cover') /\ (Told => Cover')
    BY <1>1 DEF ShownInv, Cover, Told, Reading
  <2>2. /\ shown' \subseteq Between(None, p.next)
        /\ Cover' \/ Between(None, p.next) \subseteq shown'
    BY <1>1, <1>5, <1>7, <2>1
  <2>3. Between(None, cursor)' = Between(None, p.next)
    BY <1>1 DEF Between
  <2>4. /\ seen' \subseteq shown'
        /\ seen' \subseteq read' \union IF InFlight(mark)' THEN mark'.held ELSE {}
    BY <1>1, <1>2, <1>5, <1>13, OvertakenKeeps DEF ShownInv
  <2>5. error' \/ Excused(Lag(shown, seen))'
    <3>1. Lag(shown, seen)' \subseteq Lag(shown, seen) \union Lag(p.rows, p.read)
      BY <1>1 DEF Lag
    <3>2. error \/ Excused(Lag(shown, seen))
      BY <1>4 DEF ShownInv
    <3>3. mark.step = "answered" => mark'.all = mark.all /\ mark'.ids = mark.ids
      BY <1>2, OvertakenKeeps DEF InFlight
    <3>4. mark'.step = mark.step
      BY <1>2, OvertakenKeeps
    <3> QED
      BY <1>1, <1>5, <3>1, <3>2, <3>3, <3>4 DEF Excused
  <2>6. InFlight(mark)' \/ Cover' \/ elsewhere' # {} \/ count' = Unread'
    BY <1>1, <1>5, <1>13 DEF Cover, Told, Unread, InFlight
  <2>7. cursor' # None => cursor' \in shown' /\ \E i \in committed' : i < cursor'
    BY <1>1, <1>5
  <2>8. Excused(Lag(shown, seen))' \/ queued' # "none" \/ Reading' \/ error'
    BY <2>5
  <2>9. shown' \subseteq Between(None, cursor)' /\ (Cover' \/ Between(None, cursor)' \subseteq shown')
    BY <2>2, <2>3
  <2> QED
    BY <2>4, <2>6, <2>7, <2>8, <2>9 DEF ShownInv
<1>15. MarkInv'
  <2>1. \A v, w \in Both : Open(v)' /\ Open(w)' => v = w
    BY <1>1 DEF MarkInv, Open
  <2>2. InFlight(mark)' => /\ mark'.ids \subseteq committed' /\ mark'.held \subseteq mark'.ids
                           /\ mark'.wasRead \subseteq read'
    BY <1>1, <1>2, <1>13, OvertakenKeeps DEF MarkInv
  <2>3. Open("mine")' => /\ mark'.step = "asked"
                         /\ IF mark'.all THEN mark'.ids \subseteq read' \union tx'["mine"].ids
                                         ELSE mark'.ids = tx'["mine"].ids
    BY <1>1, <1>2, OvertakenKeeps DEF MarkInv, Open, InFlight
  <2>4. mark'.step = "answered" \/ tx'["mine"].step = "counted" => mark'.overtaken
    BY <1>1, <1>2, OvertakenKeeps
  <2>5. mark'.step = "answered" => mark'.ids \subseteq read'
    BY <1>1, <1>2, OvertakenKeeps DEF MarkInv, InFlight
  <2> QED
    BY <2>1, <2>2, <2>3, <2>4, <2>5 DEF MarkInv
<1>16. MarksCountMarks'
  BY <1>1 DEF MarksCountMarks
<1> QED
  BY <1>8, <1>9, <1>10, <1>11, <1>12, <1>14, <1>15, <1>16

-----------------------------------------------------------------------------
(* markRead and markAllRead.                                               *)

\* A click is queued.
LEMMA ClickKeeps ==
  ASSUME NotificationsInv, Click
  PROVE  NotificationsInv'
<1> USE DEF NotificationsInv
<1>1. UNCHANGED <<committed, read, tx, elsewhere, shown, seen, count, cursor, loadedPages,
                  hasBaseline, error, known, pendingLive, toasted, round, queued, more, mark, wake,
                  regressed>>
  BY DEF Click, server, page, toasts
<1>2. PICK c \in Todo : todo' = Append(todo, c) /\ c.ids \subseteq committed
  <2>1. shown \subseteq committed /\ committed \subseteq Ids
    BY DEF TypeOK
  <2>2. CASE \E i \in shown \ seen : todo' = Append(todo, [all |-> FALSE, ids |-> {i}])
    <3>1. PICK i \in shown \ seen : todo' = Append(todo, [all |-> FALSE, ids |-> {i}])
      BY <2>2
    <3> DEFINE c == [all |-> FALSE, ids |-> {i}]
    <3>2. c \in Todo /\ c.ids \subseteq committed
      BY <2>1 DEF Todo
    <3>3. todo' = Append(todo, c)
      BY <3>1
    <3> HIDE DEF c
    <3> QED
      BY <3>2, <3>3
  <2>3. CASE todo' = Append(todo, [all |-> TRUE, ids |-> shown \ seen])
    <3> DEFINE c == [all |-> TRUE, ids |-> shown \ seen]
    <3>1. c \in Todo /\ c.ids \subseteq committed
      BY <2>1 DEF Todo
    <3>2. todo' = Append(todo, c)
      BY <2>3
    <3> HIDE DEF c
    <3> QED
      BY <3>1, <3>2
  <2> QED
    BY <2>2, <2>3 DEF Click
<1>3. todo \in Seq(Todo) /\ \A k \in 1 .. Len(todo) : todo[k].ids \subseteq committed
  BY DEF Types, Todo
<1>4. todo' \in Seq(Todo) /\ \A k \in 1 .. Len(todo') : todo'[k].ids \subseteq committed'
  BY <1>1, <1>2, <1>3
<1>5. TypeOK' /\ Types' /\ ToastOnce'
  BY <1>1, <1>4 DEF TypeOK, Types, ToastOnce, Todo, InFlight
<1>6. RoundInv'
  BY <1>1 DEF RoundInv, Reading, Told, Above, Between, PageInv, Lag, Excused, Unread
<1>7. MoreInv'
  BY <1>1 DEF MoreInv, InFlight, Told, Between, PageInv, Lag, Excused, Unread
<1>8. ShownInv'
  BY <1>1 DEF ShownInv, Cover, Reading, Told, Between, Lag, Excused, InFlight, Unread
<1>9. MarkInv'
  BY <1>1 DEF MarkInv, Open, Cover, Reading, Told, InFlight, Both, Unread
<1>10. MarksCountMarks'
  BY <1>1 DEF MarksCountMarks
<1> QED
  BY <1>5, <1>6, <1>7, <1>8, <1>9, <1>10

\* A queued mark is begun: its rows are flagged at once.
LEMMA StartMarkKeeps ==
  ASSUME NotificationsInv, StartMark
  PROVE  NotificationsInv'
<1> USE DEF NotificationsInv
<1> DEFINE c == Head(todo)
           held == c.ids \intersect shown
<1>1. /\ mark = Off /\ todo # <<>> /\ todo' = Tail(todo)
      /\ UNCHANGED <<committed, read, tx, elsewhere, shown, cursor, loadedPages, hasBaseline, error,
                     known, pendingLive, toasted, round, queued, more, wake, regressed>>
  BY DEF StartMark, server, toasts, world
<1>2. \/ UNCHANGED <<mark, seen, count>>
      \/ /\ mark' = [step |-> "asked", all |-> c.all, ids |-> c.ids, held |-> held,
                     wasRead |-> held \intersect seen, wasCount |-> count,
                     count |-> 0, overtaken |-> FALSE]
         /\ seen' = seen \union held
         /\ count' = Minus(count, Cardinality(held))
  BY DEF StartMark
<1>3. todo \in Seq(Todo) /\ \A k \in 1 .. Len(todo) : todo[k].ids \subseteq committed
  BY DEF Types, Todo
<1>4. /\ c \in Todo /\ c.ids \subseteq committed
      /\ todo' \in Seq(Todo) /\ \A k \in 1 .. Len(todo') : todo'[k].ids \subseteq committed'
  <2>1. c = todo[1] /\ 1 \in 1 .. Len(todo)
    BY <1>1, <1>3
  <2>2. /\ todo' \in Seq(Todo) /\ Len(todo') = Len(todo) - 1
        /\ \A k \in 1 .. Len(todo') : todo'[k] = todo[k + 1] /\ k + 1 \in 1 .. Len(todo)
    BY <1>1, <1>3
  <2>3. \A k \in 1 .. Len(todo') : todo'[k].ids \subseteq committed
    BY <1>3, <2>2
  <2>4. c \in Todo /\ c.ids \subseteq committed
    BY <1>3, <2>1
  <2> QED
    BY <1>1, <2>2, <2>3, <2>4
<1> HIDE DEF c
<1>5. held \subseteq shown /\ held \subseteq c.ids /\ shown \subseteq committed /\ committed \subseteq Ids
  BY DEF TypeOK
<1> HIDE DEF held
<1>6. count' \in Nat
  <2>1. Cardinality(held) \in Nat /\ count \in Nat
    <3>1. held \subseteq Ids
      BY <1>5
    <3> QED
      BY <3>1, RowsFinite DEF TypeOK
  <2> QED
    BY <1>2, <2>1 DEF Minus
<1>7. ~InFlight(mark) /\ mark.step = "off"
  BY <1>1 DEF InFlight, Off
<1>8. seen \subseteq read /\ seen \subseteq shown
  BY <1>7 DEF ShownInv
<1>9. CASE UNCHANGED <<mark, seen, count>>
  <2>1. TypeOK' /\ Types' /\ ToastOnce'
    BY <1>1, <1>4, <1>9 DEF TypeOK, Types, ToastOnce, Todo, InFlight
  <2>2. RoundInv'
    BY <1>1, <1>9 DEF RoundInv, Reading, Told, Above, Between, PageInv, Lag, Excused, Unread
  <2>3. MoreInv'
    BY <1>1, <1>9 DEF MoreInv, InFlight, Told, Between, PageInv, Lag, Excused, Unread
  <2>4. ShownInv'
    BY <1>1, <1>9 DEF ShownInv, Cover, Reading, Told, Between, Lag, Excused, InFlight, Unread
  <2>5. MarkInv'
    BY <1>1, <1>9 DEF MarkInv, Open, Cover, Reading, Told, InFlight, Both, Unread
  <2>6. MarksCountMarks'
    BY <1>1 DEF MarksCountMarks
  <2> QED
    BY <2>1, <2>2, <2>3, <2>4, <2>5, <2>6
<1>10. CASE /\ mark' = [step |-> "asked", all |-> c.all, ids |-> c.ids, held |-> held,
                        wasRead |-> held \intersect seen, wasCount |-> count,
                        count |-> 0, overtaken |-> FALSE]
            /\ seen' = seen \union held
  <2>1. mark' \in MarkType
    <3>1. /\ c.all \in BOOLEAN /\ c.ids \in SUBSET Ids /\ held \in SUBSET Ids
          /\ held \intersect seen \in SUBSET Ids /\ count \in Nat
      BY <1>4, <1>5 DEF Todo, TypeOK
    <3> QED
      BY <1>10, <3>1 DEF MarkType
  <2>2. /\ mark'.step = "asked" /\ mark'.ids = c.ids /\ mark'.held = held
        /\ mark'.wasRead = held \intersect seen
    BY <1>10
  <2>3. TypeOK' /\ ToastOnce'
    BY <1>1, <1>5, <1>6, <1>10, <2>2 DEF TypeOK, ToastOnce, InFlight
  <2>4. Types'
    BY <1>1, <1>4, <2>1 DEF Types, Todo
  <2>5. RoundInv'
    BY <1>1, <1>7, <2>2 DEF RoundInv, Reading, Told, Above, Between, PageInv, Lag, Excused, Unread
  <2>6. MoreInv'
    BY <1>1, <1>7, <2>2 DEF MoreInv, InFlight, Told, Between, PageInv, Lag, Excused, Unread
  <2>7. ShownInv'
    <3>1. Lag(shown, seen)' \subseteq Lag(shown, seen)
      BY <1>1, <1>10 DEF Lag
    <3>2. queued' # "none" \/ Reading' \/ error' \/ Excused(Lag(shown, seen))'
      BY <1>1, <1>7, <3>1 DEF ShownInv, Excused, Reading
    <3> QED
      BY <1>1, <1>5, <1>8, <1>10, <2>2, <3>2 DEF ShownInv, Cover, Reading, Told, Between, InFlight
  <2>8. MarkInv'
    BY <1>1, <1>4, <1>5, <1>7, <1>8, <2>2 DEF MarkInv, Open, InFlight, Both
  <2>9. MarksCountMarks'
    BY <1>1 DEF MarksCountMarks
  <2> QED
    BY <2>3, <2>4, <2>5, <2>6, <2>7, <2>8, <2>9
<1> QED
  BY <1>2, <1>9, <1>10

\* The recovery from a failed mark has ended.
LEMMA EndRecoveryKeeps ==
  ASSUME NotificationsInv, EndRecovery
  PROVE  NotificationsInv'
<1> USE DEF NotificationsInv
<1>1. /\ mark.step = "recovering" /\ mark' = Off
      /\ UNCHANGED <<committed, read, tx, elsewhere, shown, seen, count, cursor, loadedPages,
                     hasBaseline, error, known, pendingLive, toasted, round, queued, more, todo, wake,
                     regressed>>
  BY DEF EndRecovery, server, page, toasts, world
<1>2. Off.step = "off"
  BY DEF Off
<1>3. TypeOK' /\ Types' /\ ToastOnce'
  BY <1>1 DEF TypeOK, Types, ToastOnce, InFlight
<1>4. RoundInv'
  BY <1>1, <1>2 DEF RoundInv, Reading, Told, Above, Between, PageInv, Lag, Excused, Unread
<1>5. MoreInv'
  BY <1>1, <1>2 DEF MoreInv, InFlight, Told, Between, PageInv, Lag, Excused, Unread
<1>6. ShownInv'
  BY <1>1, <1>2 DEF ShownInv, Cover, Reading, Told, Between, Lag, Excused, InFlight, Unread
<1>7. MarkInv'
  BY <1>1, <1>2 DEF MarkInv, Open, InFlight, Both
<1>8. MarksCountMarks'
  BY <1>1 DEF MarksCountMarks
<1> QED
  BY <1>3, <1>4, <1>5, <1>6, <1>7, <1>8

\* The answer takes the place of what the tab had assumed, and whatever was
\* asked for before it is dropped.
LEMMA MarkedKeeps ==
  ASSUME NotificationsInv, Marked
  PROVE  NotificationsInv'
<1> USE DEF NotificationsInv
<1>1. /\ mark.step = "answered" /\ mark' = Off
      /\ seen' = seen \union (mark.ids \intersect shown)
      /\ count' = mark.count /\ regressed' = mark.overtaken
      /\ UNCHANGED <<committed, read, tx, elsewhere, shown, cursor, loadedPages, hasBaseline, known,
                     pendingLive, toasted, todo, wake>>
  BY DEF Marked, server, toasts, world
<1>2. mark \in MarkType /\ Off.step = "off"
  BY <1>1, Steps DEF InFlight, Off
<1>3. /\ mark.ids \subseteq read /\ mark.held \subseteq mark.ids
      /\ mark.overtaken \/ Cover \/ elsewhere # {} \/ mark.count = Unread
  BY <1>1, <1>2 DEF MarkInv, InFlight
<1>4. seen' \subseteq read /\ seen' \subseteq shown
  BY <1>1, <1>3 DEF ShownInv
<1>5. tx["mine"].step = "none"
  BY <1>1 DEF MarkInv, Open
<1>6. \/ mark.all /\ shown \ seen' # {} /\ (RoundBegins \/ RoundQueued)
      \/ /\ ~(mark.all /\ shown \ seen' # {})
         /\ round' = Mutated(round) /\ more' = Mutated(more) /\ UNCHANGED <<queued, error>>
  <2>1. CASE mark.all /\ shown \ seen' # {}
    <3>1. Mutated(round).step = round.step /\ (round = Off => Mutated(round) = Off)
      <4>1. CASE InFlight(round)
        <5>1. round \in RoundType
          BY <4>1, Steps DEF InFlight, Off
        <5> QED
          BY <4>1, <5>1 DEF Mutated, RoundType, InFlight, Off
      <4>2. CASE ~InFlight(round)
        BY <4>2 DEF Mutated
      <4> QED
        BY <4>1, <4>2
    <3>2. Reconcile("recovery", Mutated(more), Mutated(round))
      BY <2>1 DEF Marked
    <3>3. CASE round.step = "off"
      BY <2>1, <3>1, <3>2, <3>3, Steps DEF Reconcile, RoundBegins, RoundInv, Reasons
    <3>4. CASE round.step # "off"
      BY <2>1, <3>1, <3>2, <3>4, Steps DEF Reconcile, RoundQueued, Reasons, Merge
    <3> QED
      BY <2>1, <3>3, <3>4
  <2>2. CASE ~(mark.all /\ shown \ seen' # {})
    BY <2>2 DEF Marked
  <2> QED
    BY <2>1, <2>2
<1>7. /\ RoundInv' /\ MoreInv'
      /\ round' = Off \/ round' \in RoundType
      /\ more' \in {Off, Waiting} \/ more' \in MoreType
      /\ queued' \in Reasons \union {"none"} /\ error' \in BOOLEAN
      /\ Cover => Cover'
      /\ queued' # "none" \/ Reading' \/ error' \/ Lag(shown, seen)' = {}
  <2>1. CASE RoundBegins /\ mark.all
    <3>1. Reading' /\ Cover'
      BY <1>1, <2>1, RoundBeginsKeeps DEF Cover
    <3> QED
      BY <1>1, <2>1, <3>1, RoundBeginsKeeps
  <2>2. CASE RoundQueued /\ mark.all
    <3>1. queued' # "none" /\ Cover'
      BY <1>1, <2>2, RoundQueuedKeeps DEF Cover, Told, Reasons
    <3>2. error' \in BOOLEAN
      BY <2>2 DEF RoundQueued, TypeOK
    <3> QED
      BY <1>1, <2>2, <3>1, <3>2, RoundQueuedKeeps
  <2>3. CASE /\ ~(mark.all /\ shown \ seen' # {})
             /\ round' = Mutated(round) /\ more' = Mutated(more) /\ UNCHANGED <<queued, error>>
    <3>1. ASSUME InFlight(round)
          PROVE  RoundInv' /\ round' \in RoundType /\ round # Off /\ round'.step = round.step
      <4>1. round \in RoundType /\ round # Off /\ round' = [round EXCEPT !.mutated = TRUE]
        BY <2>3, <3>1, Steps DEF InFlight, Off, Mutated
      <4>2. round' \in RoundType
        BY <4>1 DEF RoundType
      <4>3. /\ round'.mutated = TRUE /\ round'.step = round.step /\ round'.rows = round.rows
            /\ round'.read = round.read /\ round'.cursor = round.cursor
            /\ round'.reply = round.reply
        BY <4>1 DEF RoundType
      <4>4. round' # Off
        BY <4>2 DEF RoundType, Off
      <4>5. RoundInv'
        BY <1>1, <2>3, <4>1, <4>3, <4>4 DEF RoundInv, Reading, Told, Above, Between, PageInv
      <4> QED
        BY <4>1, <4>2, <4>3, <4>5
    <3>2. ASSUME ~InFlight(round)
          PROVE  RoundInv' /\ round' = round
      <4>1. round' = round
        BY <2>3, <3>2 DEF Mutated
      <4>2. RoundInv'
        BY <1>1, <2>3, <3>2, <4>1 DEF RoundInv, Reading, InFlight
      <4> QED
        BY <4>1, <4>2
    <3>3. /\ RoundInv' /\ (round' = Off \/ round' \in RoundType)
          /\ (Reading' <=> Reading) /\ (round = Off => round' = Off)
      <4>1. round' = Off \/ round' \in RoundType
        BY <3>1, <3>2 DEF Types
      <4>2. Reading' <=> Reading
        BY <3>1, <3>2 DEF Reading
      <4> QED
        BY <3>1, <3>2, <4>1, <4>2
    <3>4. MoreInv' /\ (more' \in {Off, Waiting} \/ more' \in MoreType)
      <4>1. CASE InFlight(more)
        <5>1. more \in MoreType /\ more' = [more EXCEPT !.mutated = TRUE]
          BY <2>3, <4>1, Steps DEF Mutated
        <5>2. /\ more' \in MoreType /\ more'.mutated = TRUE /\ more'.step = more.step
              /\ more'.reply = more.reply /\ more'.cursor = more.cursor
              /\ more'.superseded = more.superseded
          BY <5>1 DEF MoreType
        <5>3. MoreInv'
          BY <1>1, <3>3, <4>1, <5>2 DEF MoreInv, InFlight, PageInv, Between
        <5> QED
          BY <5>2, <5>3
      <4>2. CASE ~InFlight(more)
        <5>1. more' = more
          BY <2>3, <4>2 DEF Mutated
        <5> QED
          BY <4>2, <5>1, Steps DEF MoreInv, InFlight
      <4> QED
        BY <4>1, <4>2
    <3>5. queued' # "none" \/ Reading' \/ error' \/ Lag(shown, seen)' = {}
      <4>1. queued # "none" \/ Reading \/ error \/ Excused(Lag(shown, seen))
        BY DEF ShownInv
      <4>2. ASSUME Excused(Lag(shown, seen))
            PROVE  Lag(shown, seen)' = {}
        <5>1. CASE mark.all
          BY <1>1, <2>3, <5>1 DEF Lag
        <5>2. CASE ~mark.all
          <6>1. Lag(shown, seen) \subseteq mark.ids
            BY <4>2, <5>2 DEF Excused
          <6> QED
            BY <1>1, <6>1 DEF Lag
        <5> QED
          BY <5>1, <5>2
      <4> QED
        BY <2>3, <3>3, <4>1, <4>2
    <3>6. Cover => Cover'
      BY <1>1, <2>3, <3>3 DEF Cover, Told
    <3>7. queued' \in Reasons \union {"none"} /\ error' \in BOOLEAN
      BY <2>3 DEF TypeOK
    <3> QED
      BY <3>3, <3>4, <3>5, <3>6, <3>7
  <2> QED
    BY <1>6, <2>1, <2>2, <2>3
<1>8. TypeOK'
  <2>1. mark.count \in Nat /\ mark.overtaken \in BOOLEAN
    BY <1>2 DEF MarkType
  <2>2. round' = Off \/ (round'.reason \in Reasons /\ round'.step \in {"asked", "answered", "accounts"})
    BY <1>7 DEF RoundType
  <2>3. more' \in {Off, Waiting} \/ InFlight(more)'
    BY <1>7 DEF InFlight, MoreType
  <2>4. round' = Off => queued' = "none"
    BY <1>7 DEF RoundInv
  <2> QED
    BY <1>1, <1>4, <1>7, <2>1, <2>2, <2>3, <2>4 DEF TypeOK
<1>9. Types'
  BY <1>1, <1>7 DEF Types
<1>10. ToastOnce'
  BY <1>1 DEF ToastOnce
<1>11. ShownInv'
  <2>1. /\ shown' \subseteq Between(None, cursor)'
        /\ cursor' # None => cursor' \in shown' /\ \E i \in committed' : i < cursor'
        /\ Cover' \/ Between(None, cursor)' \subseteq shown'
    BY <1>1, <1>7 DEF ShownInv, Between
  <2>2. InFlight(mark)' \/ Cover' \/ regressed' \/ elsewhere' # {} \/ count' = Unread'
    BY <1>1, <1>3, <1>7 DEF Unread
  <2>3. queued' # "none" \/ Reading' \/ error' \/ Excused(Lag(shown, seen))'
    BY <1>7 DEF Excused
  <2> QED
    BY <1>1, <1>4, <2>1, <2>2, <2>3 DEF ShownInv
<1>12. MarkInv'
  BY <1>1, <1>2, <1>5 DEF MarkInv, Open, InFlight, Both
<1>13. MarksCountMarks'
  BY <1>1 DEF MarksCountMarks
<1> QED
  BY <1>7, <1>8, <1>9, <1>10, <1>11, <1>12, <1>13

\* No answer: what was shown before is shown again, until it is read anew.
LEMMA MarkFailsKeeps ==
  ASSUME NotificationsInv, MarkFails
  PROVE  NotificationsInv'
<1> USE DEF NotificationsInv
<1>1. /\ InFlight(mark) /\ mark' = Recovering
      /\ seen' = (seen \ mark.held) \union (mark.wasRead \intersect shown)
      /\ count' = mark.wasCount
      /\ UNCHANGED <<committed, read, elsewhere, shown, cursor, loadedPages, hasBaseline, known,
                     pendingLive, toasted, todo, wake, regressed>>
  BY DEF MarkFails, Recovering, toasts, world
<1>2. /\ mark \in MarkType /\ mark.wasRead \subseteq read /\ mark'.step = "recovering"
      /\ ~InFlight(mark)'
  BY <1>1, Steps DEF MarkInv, InFlight, Recovering
<1>3. seen' \subseteq read /\ seen' \subseteq shown
  BY <1>1, <1>2 DEF ShownInv
<1>4. RoundBegins \/ RoundQueued
  BY Steps DEF MarkFails, Reconcile, RoundBegins, RoundQueued, RoundInv, Reasons, Merge
<1>5. /\ RoundInv' /\ MoreInv' /\ round' \in RoundType /\ round' # Off
      /\ more' \in {Off, Waiting} \/ more' \in MoreType
      /\ queued' \in Reasons \union {"none"} /\ error' \in BOOLEAN
      /\ Cover' /\ (queued' # "none" \/ Reading')
  <2>1. CASE RoundBegins
    BY <1>1, <2>1, RoundBeginsKeeps DEF Cover
  <2>2. CASE RoundQueued
    <3>1. queued' \in Reasons /\ queued' # "none" /\ error' \in BOOLEAN
      BY <2>2 DEF RoundQueued, Reasons, TypeOK
    <3> QED
      BY <1>1, <2>2, <3>1, RoundQueuedKeeps DEF Cover, Told
  <2> QED
    BY <1>4, <2>1, <2>2
<1>6. /\ tx' \in [Both -> [step : {"none", "marked", "counted"}, ids : SUBSET Ids, count : Nat]]
      /\ DOMAIN tx = Both /\ DOMAIN tx' = Both /\ tx'["mine"] = NoTx
      /\ tx'["other"] = tx["other"] \/ (tx'["other"] = tx["mine"] /\ ~Open("other"))
  <2>1. DOMAIN tx = Both /\ NoTx \in [step : {"none", "marked", "counted"}, ids : SUBSET Ids, count : Nat]
    BY DEF Types, NoTx
  <2>2. CASE tx' = [tx EXCEPT !["mine"] = NoTx]
    BY <2>1, <2>2 DEF Types, Both
  <2>3. CASE ~Open("other") /\ tx' = [tx EXCEPT !["other"] = tx["mine"], !["mine"] = NoTx]
    BY <2>1, <2>3 DEF Types, Both
  <2> QED
    BY <2>2, <2>3 DEF MarkFails
<1>7. NoTx.step = "none" /\ NoTx.ids = {}
  BY DEF NoTx
<1>8. TypeOK'
  <2>1. mark.wasCount \in Nat
    BY <1>2 DEF MarkType
  <2>2. round'.reason \in Reasons /\ round'.step \in {"asked", "answered", "accounts"}
    BY <1>5 DEF RoundType
  <2>3. more' \in {Off, Waiting} \/ InFlight(more)'
    BY <1>5 DEF InFlight, MoreType
  <2>4. \A w \in DOMAIN tx' : tx'[w].step \in {"none", "marked", "counted"} /\ tx'[w].ids \subseteq committed'
    BY <1>1, <1>6, <1>7 DEF TypeOK, Both
  <2> QED
    BY <1>1, <1>2, <1>3, <1>5, <2>1, <2>2, <2>3, <2>4 DEF TypeOK
<1>9. Types'
  BY <1>1, <1>5, <1>6 DEF Types
<1>10. ToastOnce'
  BY <1>1 DEF ToastOnce
<1>11. ShownInv'
  BY <1>1, <1>3, <1>5 DEF ShownInv, Between
<1>12. MarkInv'
  BY <1>1, <1>2, <1>6, <1>7 DEF MarkInv, Open, InFlight, Both
<1>13. MarksCountMarks'
  BY <1>1, <1>6, <1>7 DEF MarksCountMarks, Both
<1> QED
  BY <1>5, <1>8, <1>9, <1>10, <1>11, <1>12, <1>13

\* A step that changes nothing.
LEMMA StutterKeeps ==
  ASSUME NotificationsInv, UNCHANGED vars
  PROVE  NotificationsInv'
<1> USE DEF NotificationsInv
<1>1. UNCHANGED <<committed, read, tx, elsewhere, shown, seen, count, cursor, loadedPages,
                  hasBaseline, error, known, pendingLive, toasted, round, queued, more, mark, todo,
                  wake, regressed>>
  BY DEF vars, server, page, toasts, mutations, world
<1>2. MoreInv' /\ (more' \in {Off, Waiting} \/ more' \in MoreType)
  BY <1>1, Steps DEF MoreInv, InFlight, Told, Between, PageInv, Lag, Excused, Unread
<1> QED
  BY <1>1, <1>2, OnlyMoreKeeps

-----------------------------------------------------------------------------
(* What holds of every behaviour.                                          *)

\* The page that is opened shows nothing, and reads.
LEMMA InitHolds ==
  ASSUME Init
  PROVE  NotificationsInv
<1> USE DEF Init, NotificationsInv
<1>1. committed \subseteq Ids /\ Round("initial") \in RoundType
  BY HistoriesAssumption, RequestTypes DEF Reasons
<1>2. round # Off /\ round.step = "asked" /\ round.rows = {} /\ round.read = {} /\ round.cursor = None
      /\ round.reason = "initial"
  BY DEF Round, Off
<1>3. Off.step = "off" /\ Waiting.step = "waiting"
  BY DEF Off, Waiting
<1>4. tx["mine"] = NoTx /\ tx["other"] = NoTx /\ DOMAIN tx = Both
  BY DEF Both
<1>5. TypeOK
  <2>1. /\ read \subseteq committed /\ elsewhere \subseteq read /\ seen \subseteq shown
        /\ shown \subseteq committed /\ toasted \union pendingLive \subseteq known
        /\ known \subseteq committed
    OBVIOUS
  <2>2. {hasBaseline, error, wake, regressed} \subseteq BOOLEAN
    OBVIOUS
  <2>3. /\ round.reason \in Reasons /\ queued \in Reasons \union {"none"}
    BY <1>2 DEF Reasons
  <2>4. \A w \in DOMAIN tx : tx[w].step \in {"none", "marked", "counted"} /\ tx[w].ids \subseteq committed
    BY <1>4 DEF NoTx, Both
  <2> QED
    BY <1>1, <1>2, <2>1, <2>2, <2>3, <2>4 DEF TypeOK
<1>6. Types
  <2>1. tx \in [Both -> [step : {"none", "marked", "counted"}, ids : SUBSET Ids, count : Nat]]
    BY DEF NoTx, Both
  <2>2. todo \in Seq(Todo) /\ Len(todo) = 0
    OBVIOUS
  <2> QED
    BY <1>1, <2>1, <2>2 DEF Types, Todo
<1>7. RoundInv /\ Reading
  BY <1>2 DEF RoundInv, Reading, Above, Lag, Excused
<1>8. MoreInv
  BY <1>3 DEF MoreInv, InFlight
<1>9. ShownInv
  BY <1>7 DEF ShownInv, Cover
<1>10. MarkInv
  BY <1>3, <1>4 DEF MarkInv, Open, InFlight, NoTx, Both
<1>11. ToastOnce /\ MarksCountMarks
  BY <1>4 DEF ToastOnce, MarksCountMarks, NoTx, Both
<1> QED
  BY <1>5, <1>6, <1>7, <1>8, <1>9, <1>10, <1>11

\* The invariant is inductive.
LEMMA NextKeeps ==
  ASSUME NotificationsInv, [Next]_vars
  PROVE  NotificationsInv'
<1>1. DOMAIN tx = {"mine", "other"}
  BY DEF NotificationsInv, Types, Both
<1>2. CASE Transfer \/ MarkElsewhere \/ Look \/ LoadMore \/ Click \/ Wake
  BY <1>2, TransferKeeps, MarkElsewhereKeeps, LookKeeps, LoadMoreKeeps, ClickKeeps, WakeKeeps
<1>3. CASE RoundStep
  BY <1>3, ServeRoundKeeps, DropRoundKeeps, ReadOnKeeps, ShowRoundKeeps, AccountsLoadedKeeps
     DEF RoundStep
<1>4. CASE MoreStep
  BY <1>4, ResumeMoreKeeps, ServeMoreKeeps, DropMoreKeeps, ShowMoreKeeps DEF MoreStep
<1>5. CASE MarkStep
  BY <1>5, StartMarkKeeps, BeginMarkKeeps, MarkedKeeps, EndRecoveryKeeps DEF MarkStep
<1>6. CASE \E w \in DOMAIN tx : TxStep(w)
  <2>1. PICK w \in {"mine", "other"} : CountUnread(w) \/ CommitMark(w)
    BY <1>1, <1>6 DEF TxStep
  <2>2. CASE CountUnread(w)
    BY <2>2, CountUnreadKeeps DEF Both
  <2>3. CASE CommitMark(w)
    BY <2>1, <2>3, CommitMineKeeps, CommitOtherKeeps
  <2> QED
    BY <2>1, <2>2, <2>3
<1>7. CASE Failure
  BY <1>7, RoundFailsKeeps, MoreFailsKeeps, MarkFailsKeeps DEF Failure
<1>8. CASE Quiescent \/ UNCHANGED vars
  BY <1>8, StutterKeeps DEF Quiescent
<1> QED
  BY <1>2, <1>3, <1>4, <1>5, <1>6, <1>7, <1>8 DEF Next

\* The processes of the store, the transactions and the page that is shown are
\* in step in every state.
THEOREM NotificationsInvariant == Spec => []NotificationsInv
<1>1. Init => NotificationsInv
  BY InitHolds
<1>2. NotificationsInv /\ [Next]_vars => NotificationsInv'
  BY NextKeeps
<1> QED
  BY <1>1, <1>2, PTL DEF Spec

\* Every variable of the store and of the server keeps to what the code lets it be.
THEOREM NotificationsTypes == Spec => []TypeOK
<1>1. NotificationsInv => TypeOK
  BY DEF NotificationsInv
<1> QED
  BY <1>1, NotificationsInvariant, PTL

\* However often a row is read again and the accounts fail to load, it has one
\* toast at most (known rows and publishPendingToasts).
THEOREM RowsAreToastedOnce == Spec => []ToastOnce
<1>1. NotificationsInv => ToastOnce
  BY DEF NotificationsInv
<1> QED
  BY <1>1, NotificationsInvariant, PTL

\* Under the lock on the owner a mark counts no row as unread that another mark
\* has read, for any number of rows.
THEOREM CountsAreUnderTheLock == Spec => []MarksCountMarks
<1>1. NotificationsInv => MarksCountMarks
  BY DEF NotificationsInv
<1> QED
  BY <1>1, NotificationsInvariant, PTL

\* Once all is read, marked and answered, the tab shows the newest rows without
\* a gap, flags them as the database does and counts what is unread.
THEOREM HistoryIsTrue == Spec => []HistoryTrue
<1>1. ASSUME NotificationsInv, Settled
      PROVE  NoGap /\ FlagsTrue /\ CountTrue
  <2> USE DEF NotificationsInv
  <2>1. /\ round = Off /\ ~Reading /\ queued = "none" /\ ~wake /\ ~error
        /\ ~InFlight(mark) /\ mark.step = "off"
    BY <1>1 DEF Settled, AtRest, Off, Reading, RoundInv, InFlight
  <2>2. ~Cover
    BY <2>1 DEF Cover, Told
  <2>3. shown = Between(None, cursor)
    BY <1>1, <2>2 DEF ShownInv
  <2>4. cursor # None => cursor \in shown /\ shown # committed
    <3>1. ASSUME cursor # None, shown = committed
          PROVE  FALSE
      <4>1. PICK i \in committed : i < cursor
        BY <1>1, <3>1 DEF ShownInv
      <4>2. i \in Nat /\ cursor \in Nat /\ i >= cursor
        BY <1>1, <2>3, <3>1 DEF Between, TypeOK
      <4> QED
        BY <4>1, <4>2
    <3> QED
      BY <1>1, <3>1 DEF ShownInv
  <2>5. NoGap
    BY <2>3, <2>4 DEF NoGap, Between
  <2>6. seen \subseteq read
    BY <1>1, <2>1 DEF ShownInv
  <2>7. Lag(shown, seen) = {}
    BY <1>1, <2>1 DEF ShownInv, Excused
  <2>8. FlagsTrue
    BY <2>6, <2>7 DEF FlagsTrue, Lag
  <2>9. CountTrue
    BY <1>1, <2>1, <2>2 DEF ShownInv, CountTrue
  <2> QED
    BY <2>5, <2>8, <2>9
<1>2. NotificationsInv => HistoryTrue
  BY <1>1 DEF HistoryTrue, NoGap, FlagsTrue, CountTrue
<1> QED
  BY <1>2, NotificationsInvariant, PTL

=============================================================================
