---------------------------- MODULE RecordsProofs ----------------------------
(***************************************************************************)
(* Safety of Ledger for any portfolios, symbols, entries and limits: the   *)
(* holdings are those of the transactions, a settled page shows what is    *)
(* stored, and a form enters its transaction once; and of Memory for any   *)
(* captures, runs, searches and contents: rows, indexes, vectors and links *)
(* agree, and what a search gives is stored.                               *)
(***************************************************************************)
EXTENDS Ledger, Memory, FiniteSetTheorems, SequenceTheorems, WellFoundedInduction, TLAPS

Entered == [portfolio : Portfolios, entry : Entries, form : 0..MaxForms]
UpFrames == [kind : {"get", "list"}] \cup [kind : {"delete"}, id : Ids]
            \cup [kind : {"add"}, number : Forms, attempt : 0..MaxAttempts, entry : Added]
DownFrames == [kind : {"changed", "deleted", "refused"}]
              \cup [kind : {"got"}, held : [Symbols -> Held], recent : SUBSET Ids]
              \cup [kind : {"listed"}, listed : SUBSET Ids]
              \cup [kind : {"added"}, number : Forms, attempt : 0..MaxAttempts, ok : BOOLEAN]
FormStates == [at : {"closed", "open", "submitting"}, number : 0..MaxForms, attempt : 0..MaxAttempts]

\* What the database holds.
DbOK == /\ rows \in Seq(Entered \cup {NoRow}) /\ Len(rows) <= MaxRows
        /\ holdings \in [Portfolios -> [Symbols -> Held]]
        /\ torn \subseteq Portfolios /\ changes \in 0..MaxChanges

\* What the page and its socket hold.
PageOK == /\ online \in BOOLEAN /\ current \in BOOLEAN
          /\ up \in Seq(UpFrames) /\ down \in Seq(DownFrames)
          /\ view \in [held : [Symbols -> Held], listed : SUBSET Ids, waiting : BOOLEAN]
          /\ form \in FormStates /\ failed \in [Forms -> Nat]
          /\ form.at # "closed" => form.number \in Forms

Derived == \A p \in Portfolios \ torn : holdings[p] = Recomputed(p)

\* Transactions and requests of a form together are not more than its attempts,
\* and every attempt but the last has failed.
Made(n) == {i \in Ids : Live(i) /\ rows[i].form = n}
Mine(frame, n) == frame.kind = "add" /\ frame.number = n
AskedIn(frames, n) == {i \in DOMAIN frames : Mine(frames[i], n)}
Asked(n) == AskedIn(up, n)
Copies(n) == Cardinality(Made(n)) + Cardinality(Asked(n))
Attempts(n) == IF n = form.number THEN form.attempt
               ELSE IF n < form.number THEN 1 + failed[n] ELSE 0
FormsInv == /\ form.number \in Forms =>
                 form.attempt <= failed[form.number] + (IF form.at = "open" THEN 0 ELSE 1)
            /\ \A n \in Forms : Copies(n) <= Attempts(n)

\* What is under way: a load, a notification (behind the i-th frame), a snapshot.
Recent == Latest(Newest, RecentLimit)
Full == Cardinality(Recent) >= RecentLimit
Target == Latest(Newest, IF Full THEN RecentLimit ELSE ListLimit)
Under(frames, kind) == \E i \in DOMAIN frames : frames[i].kind = kind
Behind(frames, i, kind) == \E j \in DOMAIN frames : j > i /\ frames[j].kind = kind
Loading == Under(up, "get") \/ Under(down, "changed")

Offline == ~online => up = <<>> /\ down = <<>> /\ ~current

\* A snapshot or list with no notification behind it tells what is stored.
Tells(frame) == /\ frame.kind = "got" => frame.held = holdings[Newest] /\ frame.recent = Recent
                /\ frame.kind = "listed" => frame.listed = Latest(Newest, ListLimit)
FramesTrue == \A i \in DOMAIN down : Behind(down, i, "changed") \/ Tells(down[i])

\* A list that is no longer what the page is to show is followed by a new load.
ListsAsked == Full => \A i \in DOMAIN up : up[i].kind = "list" =>
                         Under(down, "changed") \/ Behind(up, i, "get")
ListsReplaced == Full => \A i \in DOMAIN down : down[i].kind = "listed" =>
                            Loading \/ Behind(down, i, "got")

\* The view shows what is stored, or what will is on its way.
ViewHolds == current => Loading \/ Under(down, "got") \/ view.held = holdings[Newest]
ViewLists == current => \/ Loading \/ Under(down, "got")
                        \/ ~Full /\ (Under(up, "list") \/ Under(down, "listed"))
                        \/ view.listed = Target
PageInv == torn = {} => FramesTrue /\ ListsAsked /\ ListsReplaced /\ ViewHolds /\ ViewLists

LedgerInv == DbOK /\ PageOK /\ Derived /\ FormsInv /\ Offline /\ PageInv

-----------------------------------------------------------------------------
(* Sums.                                                                   *)

\* A set of numbers that has a member has a least one.
LEMMA LeastMember ==
    ASSUME NEW S, S \subseteq Nat, S # {}
    PROVE  \E x \in S : \A y \in S : x =< y
<1>1. PICK x \in S : \A y \in S : ~ (<<y, x>> \in OpToRel(<, Nat))
  BY NatLessThanWellFounded, WFMin
<1>2. \A y \in S : x =< y
  <2> SUFFICES ASSUME NEW y \in S PROVE x =< y
    OBVIOUS
  <2>1. x \in Nat /\ y \in Nat
    OBVIOUS
  <2>2. ~ (y < x)
    BY <1>1, <2>1 DEF OpToRel
  <2> QED
    BY <2>1, <2>2
<1> QED
  BY <1>2

\* What a sum over T is, given the sums over smaller sets.
SumOf(f, T, g) == IF T = {} THEN 0
                  ELSE LET x == CHOOSE x \in T : TRUE IN f[x] + g[T \ {x}]

\* There is a function that gives the sums over all sets of at most n members: of a
\* least n without one, the sums up to n - 1 would make one.
LEMMA SumsUpTo ==
    ASSUME NEW S, IsFiniteSet(S), NEW f \in [S -> Nat]
    PROVE  \A n \in Nat : LET Small == {T \in SUBSET S : Cardinality(T) <= n}
                          IN  \E g \in [Small -> Nat] : \A T \in Small : g[T] = SumOf(f, T, g)
<1> DEFINE Small(n) == {T \in SUBSET S : Cardinality(T) <= n}
           Sums(n, g) == g \in [Small(n) -> Nat] /\ \A T \in Small(n) : g[T] = SumOf(f, T, g)
           Bad == {n \in Nat : ~ \E g : Sums(n, g)}
<1>1. SUFFICES ASSUME Bad # {} PROVE FALSE
  <2>1. \A n \in Nat : \E g : Sums(n, g)
    BY <1>1
  <2> QED
    BY <2>1
<1>2. PICK n \in Bad : \A m \in Bad : n =< m
  <2> HIDE DEF Sums
  <2>1. Bad \subseteq Nat
    OBVIOUS
  <2> HIDE DEF Bad
  <2> QED
    BY <1>1, <2>1, LeastMember
<1>3. \A T \in SUBSET S : IsFiniteSet(T) /\ Cardinality(T) \in Nat /\ (Cardinality(T) = 0 <=> T = {})
  BY FS_Subset, FS_CardinalityType, FS_EmptySet
<1>4. CASE n = 0
  <2> DEFINE g == [T \in Small(0) |-> 0]
  <2>1. \A T \in Small(0) : T = {}
    BY <1>3
  <2>2. Sums(0, g)
    BY <2>1 DEF SumOf
  <2> QED
    BY <1>4, <2>2
<1>5. CASE n # 0
  <2>1. n \in Nat /\ n - 1 \in Nat /\ n - 1 \notin Bad
    <3> HIDE DEF Sums
    <3>1. n \in Nat /\ n - 1 \in Nat
      BY <1>5
    <3> HIDE DEF Bad
    <3> QED
      BY <1>2, <3>1
  <2>2. PICK h : Sums(n - 1, h)
    BY <2>1
  <2> DEFINE g == [T \in Small(n) |-> SumOf(f, T, h)]
  <2>3. ASSUME NEW T \in Small(n), T # {}
        PROVE  LET x == CHOOSE x \in T : TRUE IN x \in S /\ T \ {x} \in Small(n - 1)
    <3> DEFINE x == CHOOSE x \in T : TRUE
    <3>1. x \in T
      BY <2>3
    <3>2. IsFiniteSet(T) /\ Cardinality(T) \in Nat /\ Cardinality(T) <= n
      BY <1>3
    <3>3. Cardinality(T \ {x}) = Cardinality(T) - 1
      BY <3>1, <3>2, FS_RemoveElement
    <3> HIDE DEF x
    <3>4. T \ {x} \in Small(n - 1)
      BY <2>1, <3>2, <3>3
    <3> QED
      BY <3>1, <3>4 DEF x
  <2>4. g \in [Small(n) -> Nat]
    <3> SUFFICES ASSUME NEW T \in Small(n) PROVE SumOf(f, T, h) \in Nat
      OBVIOUS
    <3>1. CASE T = {}
      BY <3>1 DEF SumOf
    <3>2. CASE T # {}
      BY <3>2, <2>2, <2>3 DEF SumOf
    <3> QED
      BY <3>1, <3>2
  <2>5. ASSUME NEW T \in Small(n - 1) PROVE g[T] = h[T]
    <3>1. T \in Small(n)
      BY <1>3, <2>1
    <3> QED
      BY <3>1, <2>2
  <2>6. ASSUME NEW T \in Small(n) PROVE g[T] = SumOf(f, T, g)
    <3>1. CASE T = {}
      BY <3>1 DEF SumOf
    <3>2. CASE T # {}
      <4> DEFINE x == CHOOSE x \in T : TRUE
      <4>1. T \ {x} \in Small(n - 1)
        BY <2>3, <3>2
      <4>2. g[T \ {x}] = h[T \ {x}]
        BY <4>1, <2>5
      <4> QED
        BY <3>2, <4>2 DEF SumOf
    <3> QED
      BY <3>1, <3>2
  <2>7. Sums(n, g)
    BY <2>4, <2>6
  <2> QED
    BY <2>7, <1>2
<1> QED
  BY <1>4, <1>5

\* SumFunction() of natural numbers is one.
LEMMA SumOfNaturals ==
    ASSUME NEW S, IsFiniteSet(S), NEW f \in [S -> Nat]
    PROVE  SumFunction(f) \in Nat
<1> DEFINE iter == CHOOSE g : g = [T \in SUBSET S |-> SumOf(f, T, g)]
<1>1. \E g \in [SUBSET S -> Nat] : g = [T \in SUBSET S |-> SumOf(f, T, g)]
  <2>1. Cardinality(S) \in Nat /\ \A T \in SUBSET S : Cardinality(T) <= Cardinality(S)
    BY FS_Subset, FS_CardinalityType
  <2>2. {T \in SUBSET S : Cardinality(T) <= Cardinality(S)} = SUBSET S
    BY <2>1
  <2> DEFINE Small(n) == {T \in SUBSET S : Cardinality(T) <= n}
  <2>3. \A n \in Nat : \E g \in [Small(n) -> Nat] : \A T \in Small(n) : g[T] = SumOf(f, T, g)
    BY SumsUpTo
  <2>4. Small(Cardinality(S)) = SUBSET S
    BY <2>2
  <2> HIDE DEF Small
  <2>5. PICK g \in [SUBSET S -> Nat] : \A T \in SUBSET S : g[T] = SumOf(f, T, g)
    BY <2>1, <2>3, <2>4
  <2> QED
    BY <2>5
<1>2. iter = [T \in SUBSET S |-> SumOf(f, T, iter)]
  BY <1>1
<1> HIDE DEF iter
<1>3. iter[S] \in Nat
  <2> DEFINE Bad == {n \in Nat : \E T \in SUBSET S : Cardinality(T) = n /\ iter[T] \notin Nat}
  <2>1. \A T \in SUBSET S : IsFiniteSet(T) /\ Cardinality(T) \in Nat
    BY FS_Subset, FS_CardinalityType
  <2>2. SUFFICES ASSUME Bad # {} PROVE FALSE
    BY <2>1
  <2>3. Bad \subseteq Nat
    OBVIOUS
  <2>4. PICK n \in Bad : \A m \in Bad : n =< m
    <3> HIDE DEF Bad
    <3> QED
      BY <2>2, <2>3, LeastMember
  <2>5. PICK T \in SUBSET S : Cardinality(T) = n /\ iter[T] \notin Nat
    OBVIOUS
  <2>6. iter[T] = SumOf(f, T, iter)
    BY <1>2
  <2>7. T # {}
    BY <2>5, <2>6 DEF SumOf
  <2> DEFINE x == CHOOSE x \in T : TRUE
  <2>8. x \in T
    BY <2>7
  <2>9. iter[T] = f[x] + iter[T \ {x}]
    BY <2>6, <2>7 DEF SumOf
  <2> HIDE DEF x
  <2>10. Cardinality(T \ {x}) = n - 1 /\ T \ {x} \in SUBSET S
    BY <2>1, <2>5, <2>8, FS_RemoveElement
  <2>11. n - 1 \in Nat /\ n - 1 < n
    BY <2>1, <2>10, <2>3
  <2>12. n - 1 \notin Bad
    <3> HIDE DEF Bad
    <3> QED
      BY <2>4, <2>11, <2>3
  <2>13. iter[T \ {x}] \in Nat
    BY <2>10, <2>11, <2>12
  <2>14. f[x] \in Nat
    BY <2>8
  <2> QED
    BY <2>5, <2>9, <2>13, <2>14
<1>4. SumFunction(f) = iter[S]
  BY DEF SumFunction, SumFunctionOnSet, FoldFunctionOnSet, MapThenFoldSet, SumOf, iter
<1> QED
  BY <1>3, <1>4

LEMMA SumOfNone ==
    ASSUME NEW f, f = [i \in {} |-> 0] PROVE SumFunction(f) = 0
<1> DEFINE iter == CHOOSE g : g = [T \in SUBSET {} |-> SumOf(f, T, g)]
<1>1. \E g : g = [T \in SUBSET {} |-> SumOf(f, T, g)]
  <2> DEFINE g == [T \in SUBSET {} |-> 0]
  <2>1. g = [T \in SUBSET {} |-> SumOf(f, T, g)]
    BY DEF SumOf
  <2> QED
    BY <2>1
<1>2. iter = [T \in SUBSET {} |-> SumOf(f, T, iter)]
  BY <1>1
<1>3. iter[{}] = 0
  <2> HIDE DEF iter
  <2> QED
    BY <1>2 DEF SumOf
<1>4. SumFunction(f) = iter[{}]
  BY DEF SumFunction, SumFunctionOnSet, FoldFunctionOnSet, MapThenFoldSet, SumOf, iter
<1> QED
  BY <1>3, <1>4

-----------------------------------------------------------------------------
(* The database.                                                           *)

LEMMA Numbers ==
    /\ MaxRows \in Nat /\ MaxForms \in Nat /\ MaxAttempts \in Nat /\ MaxChanges \in Nat
    /\ RecentLimit \in Nat /\ ListLimit \in Nat
    /\ Newest \in Portfolios /\ Oldest \in Portfolios /\ Added \subseteq Entries
    /\ Ids = 1..MaxRows /\ Forms = 1..MaxForms
BY LedgerAssumption DEF LedgerAssumption, Ids, Forms

LEMMA RowKinds == NoRow \notin Entered
<1> SUFFICES ASSUME NoRow \in Entered PROVE FALSE
  OBVIOUS
<1>1. DOMAIN NoRow = {"portfolio"}
  BY DEF NoRow
<1>2. "form" \in DOMAIN NoRow
  BY DEF Entered
<1> QED
  BY <1>1, <1>2

RowsOK == rows \in Seq(Entered \cup {NoRow}) /\ Len(rows) <= MaxRows

LEMMA LiveRows ==
    ASSUME RowsOK, NEW i \in Ids, Live(i)
    PROVE  /\ i \in DOMAIN rows /\ rows[i] \in Entered
           /\ rows[i].entry.qty \in Nat /\ rows[i].entry.price \in Nat
<1>1. i \in DOMAIN rows /\ rows[i] \in Entered
  BY Numbers DEF RowsOK, Live
<1>2. rows[i].entry \in Entries
  BY <1>1 DEF Entered
<1> QED
  BY <1>1, <1>2, LedgerAssumption DEF LedgerAssumption

\* What recomputeHoldings() writes of a symbol is a holding.
LEMMA HoldingTyped ==
    ASSUME RowsOK, NEW p, NEW symbol
    PROVE  Holding(p, symbol) \in Held
<1> DEFINE OfAction(A) == {i \in RowsOf(p, symbol) : rows[i].entry.action \in A}
           Quantity(A) == SumFunction([i \in OfAction(A) |-> rows[i].entry.qty])
           cost == [i \in OfAction({"buy"}) |-> rows[i].entry.qty * rows[i].entry.price]
           qty == Quantity({"buy", "split"}) - Quantity({"sell"})
<1>1. \A i \in RowsOf(p, symbol) : rows[i].entry.qty \in Nat /\ rows[i].entry.price \in Nat
  BY LiveRows DEF RowsOf
<1>2. \A A : IsFiniteSet(OfAction(A))
  <2>1. IsFiniteSet(Ids)
    BY Numbers, FS_Interval
  <2>2. \A A : OfAction(A) \in SUBSET Ids
    BY DEF RowsOf
  <2> QED
    BY <2>1, <2>2, FS_Subset
<1>3. \A A : Quantity(A) \in Nat
  <2> SUFFICES ASSUME NEW A PROVE Quantity(A) \in Nat
    OBVIOUS
  <2>1. [i \in OfAction(A) |-> rows[i].entry.qty] \in [OfAction(A) -> Nat]
    BY <1>1
  <2> QED
    BY <1>2, <2>1, SumOfNaturals
<1>4. SumFunction(cost) \in Nat
  <2>1. cost \in [OfAction({"buy"}) -> Nat]
    BY <1>1
  <2> QED
    BY <1>2, <2>1, SumOfNaturals
<1>5. Holding(p, symbol) = IF qty <= 0 THEN [qty |-> 0]
                           ELSE [qty |-> qty, bought |-> Quantity({"buy"}), paid |-> SumFunction(cost)]
  BY DEF Holding
<1> HIDE DEF Quantity, cost
<1> QED
  BY <1>3, <1>4, <1>5 DEF Held

HoldingsTyped == \A p, symbol : Holding(p, symbol) \in Held

\* Both hold in every state, hence also in the next one.
LEMMA HoldingTypedNext == (RowsOK => HoldingsTyped)'
<1>1. RowsOK => HoldingsTyped
  BY HoldingTyped DEF HoldingsTyped
<1> QED
  BY <1>1, PTL

LEMMA LiveRowsNext == (RowsOK => \A i \in Ids : Live(i) => i \in DOMAIN rows /\ rows[i] \in Entered)'
<1>1. RowsOK => \A i \in Ids : Live(i) => i \in DOMAIN rows /\ rows[i] \in Entered
  BY LiveRows
<1> QED
  BY <1>1, PTL

\* The transactions of a portfolio stay as they are.
Untouched(p) == \A i \in Ids : /\ Live(i) /\ rows[i].portfolio = p <=> Live(i)' /\ rows'[i].portfolio = p
                               /\ Live(i) /\ rows[i].portfolio = p => rows'[i] = rows[i]

LEMMA HoldingsStay ==
    ASSUME NEW p, Untouched(p)
    PROVE  Recomputed(p)' = Recomputed(p)
<1> SUFFICES ASSUME NEW symbol \in Symbols PROVE Holding(p, symbol)' = Holding(p, symbol)
  BY DEF Recomputed
<1>1. RowsOf(p, symbol)' = RowsOf(p, symbol) /\ \A i \in RowsOf(p, symbol) : rows'[i] = rows[i]
  BY DEF Untouched, RowsOf
<1>2. \A A : {i \in RowsOf(p, symbol)' : rows'[i].entry.action \in A} = {i \in RowsOf(p, symbol) : rows[i].entry.action \in A}
  BY <1>1
<1>3. \A A : [i \in {i \in RowsOf(p, symbol)' : rows'[i].entry.action \in A} |-> rows'[i].entry.qty]
             = [i \in {i \in RowsOf(p, symbol) : rows[i].entry.action \in A} |-> rows[i].entry.qty]
  BY <1>1, <1>2
<1>4. \A A : [i \in {i \in RowsOf(p, symbol)' : rows'[i].entry.action \in A} |-> rows'[i].entry.qty * rows'[i].entry.price]
             = [i \in {i \in RowsOf(p, symbol) : rows[i].entry.action \in A} |-> rows[i].entry.qty * rows[i].entry.price]
  BY <1>1, <1>2
<1> QED
  BY <1>3, <1>4 DEF Holding

\* A row is added.
LEMMA Inserted ==
    ASSUME RowsOK, NEW p \in Portfolios, NEW entry \in Entries, NEW number \in 0..MaxForms,
           Insert(p, entry, number)
    PROVE  /\ RowsOK' /\ \A q : q # p => Untouched(q)
           /\ \A n : Made(n)' = Made(n) \cup (IF n = number THEN {Len(rows) + 1} ELSE {})
<1> DEFINE row == [portfolio |-> p, entry |-> entry, form |-> number]
<1>1. row \in Entered /\ row # NoRow
  BY RowKinds DEF Entered
<1>2. rows \in Seq(Entered \cup {NoRow}) /\ Len(rows) < MaxRows /\ rows' = Append(rows, row)
  BY DEF RowsOK, Insert
<1> HIDE DEF row
<1>3. /\ rows' \in Seq(Entered \cup {NoRow}) /\ Len(rows') = Len(rows) + 1
      /\ \A i \in 1..Len(rows) : rows'[i] = rows[i]
      /\ rows'[Len(rows) + 1] = row
  BY <1>1, <1>2
<1>4. RowsOK' /\ Len(rows) + 1 \in Ids /\ Len(rows) \in Nat
  BY <1>2, <1>3, Numbers DEF RowsOK
<1>5. \A i \in Ids : i <= Len(rows) => (Live(i)' <=> Live(i)) /\ rows'[i] = rows[i]
  BY <1>3, <1>4, Numbers DEF Live
<1>6. \A i \in Ids : i > Len(rows) => ~Live(i) /\ (Live(i)' <=> i = Len(rows) + 1)
  BY <1>1, <1>3, <1>4, Numbers DEF Live
<1>7. row.portfolio = p /\ row.form = number
  BY DEF row
<1>8. \A i \in Ids : i <= Len(rows) \/ i > Len(rows)
  BY <1>4, Numbers
<1>9. ASSUME NEW q, q # p PROVE Untouched(q)
  BY <1>3, <1>5, <1>6, <1>7, <1>8, <1>9 DEF Untouched
<1>10. ASSUME NEW n PROVE Made(n)' = Made(n) \cup (IF n = number THEN {Len(rows) + 1} ELSE {})
  BY <1>3, <1>4, <1>5, <1>6, <1>7, <1>8 DEF Made
<1> QED
  BY <1>4, <1>9, <1>10

\* A row is changed, or deleted.
LEMMA RowChanged ==
    ASSUME RowsOK, NEW i \in Ids, NEW row \in Entered \cup {NoRow}, Change(i, row),
           row # NoRow => row.form = rows[i].form
    PROVE  /\ RowsOK' /\ changes' = changes + 1 /\ changes < MaxChanges
           /\ \A q : q # rows[i].portfolio /\ (row # NoRow => q # row.portfolio) => Untouched(q)
           /\ \A n : Made(n)' \subseteq Made(n)
<1>1. i \in DOMAIN rows /\ rows[i] \in Entered
  BY LiveRows DEF Change
<1>2. rows \in Seq(Entered \cup {NoRow}) /\ rows' = [rows EXCEPT ![i] = row]
  BY DEF RowsOK, Change
<1>3. /\ rows' \in Seq(Entered \cup {NoRow}) /\ Len(rows') = Len(rows)
      /\ rows'[i] = row /\ \A j \in DOMAIN rows : j # i => rows'[j] = rows[j]
  BY <1>1, <1>2
<1>4. Live(i) /\ (Live(i)' <=> row # NoRow)
  BY <1>1, <1>3, Numbers DEF Change, Live
<1>5. \A j \in Ids : j # i => (Live(j)' <=> Live(j)) /\ (Live(j) => rows'[j] = rows[j])
  <2>1. Len(rows) \in Nat /\ DOMAIN rows = 1..Len(rows)
    BY <1>2
  <2> QED
    BY <1>3, <2>1, Numbers DEF Live
<1>6. ASSUME NEW q, q # rows[i].portfolio, row # NoRow => q # row.portfolio PROVE Untouched(q)
  BY <1>3, <1>4, <1>5, <1>6 DEF Untouched
<1>7. ASSUME NEW n PROVE Made(n)' \subseteq Made(n)
  BY <1>3, <1>4, <1>5 DEF Made
<1> QED
  BY <1>2, <1>3, <1>6, <1>7 DEF RowsOK, Change

\* Whatever part of the new holdings is written, those of the portfolios left are torn.
LEMMA Recomputing ==
    ASSUME DbOK, Derived, RowsOK', changes' \in 0..MaxChanges,
           NEW done \in SUBSET Portfolios, NEW left \in SUBSET Portfolios,
           \A q \in Portfolios : q \notin done \cup left => Untouched(q),
           RecomputeOf(done, left)
    PROVE  DbOK' /\ Derived' /\ torn' = (torn \ done) \cup left
<1>1. /\ holdings' = [p \in Portfolios |-> IF p \in done THEN Recomputed(p)' ELSE holdings[p]]
      /\ torn' = (torn \ done) \cup left
  BY DEF RecomputeOf
<1>2. \A p \in Portfolios : Recomputed(p)' \in [Symbols -> Held]
  BY HoldingTypedNext DEF HoldingsTyped, Recomputed
<1>3. DbOK'
  BY <1>1, <1>2 DEF DbOK, RowsOK
<1>4. ASSUME NEW p \in Portfolios, p \notin torn' PROVE holdings'[p] = Recomputed(p)'
  <2>1. CASE p \in done
    BY <1>1, <2>1
  <2>2. CASE p \notin done
    <3>1. p \notin torn /\ Untouched(p) /\ holdings'[p] = holdings[p]
      BY <1>1, <1>4, <2>2
    <3> QED
      BY <3>1, HoldingsStay DEF Derived
  <2> QED
    BY <2>1, <2>2
<1> QED
  BY <1>1, <1>3, <1>4 DEF Derived


LEMMA TypesOfDb == DbOK => RowsOK /\ changes \in 0..MaxChanges
BY DEF DbOK, RowsOK

LEMMA AddDb ==
    ASSUME LedgerInv, Add
    PROVE  /\ DbOK' /\ Derived' /\ \A n \in Forms : Made(n)' = Made(n)
           /\ \/ Broadcast
              \/ torn' # {} /\ UNCHANGED pageVars
<1>1. PICK p \in Portfolios, entry \in Added :
         /\ Insert(p, entry, 0)
         /\ \/ Recompute({p}) /\ Broadcast
            \/ Tear({p}) /\ UNCHANGED pageVars
  BY DEF Add
<1>2. DbOK /\ Derived /\ RowsOK /\ changes \in 0..MaxChanges /\ entry \in Entries /\ 0 \in 0..MaxForms
  BY TypesOfDb, Numbers DEF LedgerInv
<1>3. /\ RowsOK' /\ \A q : q # p => Untouched(q)
      /\ \A n : Made(n)' = Made(n) \cup (IF n = 0 THEN {Len(rows) + 1} ELSE {})
  BY <1>1, <1>2, Inserted
<1>4. changes' \in 0..MaxChanges
  BY <1>1, <1>2 DEF Insert
<1>5. ASSUME NEW n \in Forms PROVE Made(n)' = Made(n)
  <2>1. n # 0
    BY Numbers
  <2> QED
    BY <1>3, <2>1
<1>6. CASE Recompute({p}) /\ Broadcast
  <2>1. RecomputeOf({p}, {}) /\ {p} \in SUBSET Portfolios /\ {} \in SUBSET Portfolios
    BY <1>6 DEF Recompute
  <2>2. \A q \in Portfolios : q \notin {p} \cup {} => Untouched(q)
    BY <1>3
  <2> QED
    BY <1>2, <1>3, <1>4, <1>5, <1>6, <2>1, <2>2, Recomputing
<1>7. CASE Tear({p}) /\ UNCHANGED pageVars
  <2>1. RecomputeOf({}, {p}) /\ {p} \in SUBSET Portfolios /\ {} \in SUBSET Portfolios
    BY <1>7 DEF Tear
  <2>2. \A q \in Portfolios : q \notin {} \cup {p} => Untouched(q)
    BY <1>3
  <2>3. DbOK' /\ Derived' /\ torn' = (torn \ {}) \cup {p}
    BY <1>2, <1>3, <1>4, <2>1, <2>2, Recomputing
  <2> QED
    BY <1>5, <1>7, <2>3
<1> QED
  BY <1>1, <1>6, <1>7

LEMMA UpdateDb ==
    ASSUME LedgerInv, Update
    PROVE  /\ DbOK' /\ Derived' /\ \A n \in Forms : Made(n)' \subseteq Made(n)
           /\ \/ Broadcast
              \/ torn' # {} /\ UNCHANGED pageVars
<1>1. PICK i \in Ids, p \in Portfolios, entry \in Entries :
             /\ Live(i)
             /\ Change(i, [rows[i] EXCEPT !.portfolio = p, !.entry = entry])
             /\ \/ Recompute(Affected(i, p)) /\ Broadcast
                \/ Tear(Affected(i, p)) /\ UNCHANGED pageVars
                \/ /\ rows[i].portfolio # p
                   /\ RecomputeOf({rows[i].portfolio}, {p})
                   /\ UNCHANGED pageVars
  BY DEF Update
<1> DEFINE row == [rows[i] EXCEPT !.portfolio = p, !.entry = entry]
           old == rows[i].portfolio
<1>2. DbOK /\ Derived /\ RowsOK /\ changes \in 0..MaxChanges
  BY TypesOfDb DEF LedgerInv
<1>3. rows[i] \in Entered
  BY <1>1, <1>2, LiveRows
<1>4. row \in Entered /\ row # NoRow /\ row.form = rows[i].form /\ row.portfolio = p /\ old \in Portfolios
  BY <1>3, RowKinds DEF Entered
<1>5. Change(i, row)
  BY <1>1
<1> HIDE DEF row
<1>6. /\ RowsOK' /\ changes' = changes + 1 /\ changes < MaxChanges
      /\ \A q : q # old /\ (row # NoRow => q # row.portfolio) => Untouched(q)
      /\ \A n : Made(n)' \subseteq Made(n)
  BY <1>2, <1>4, <1>5, RowChanged
<1>7. changes' \in 0..MaxChanges
  BY <1>2, <1>6, Numbers
<1>8. \A q : q \notin {old, p} => Untouched(q)
  BY <1>4, <1>6
<1> HIDE DEF old
<1>9. CASE RecomputeOf({old, p}, {}) /\ Broadcast
  <2>1. {old, p} \in SUBSET Portfolios /\ {} \in SUBSET Portfolios
    BY <1>4
  <2>2. \A q \in Portfolios : q \notin {old, p} \cup {} => Untouched(q)
    BY <1>8
  <2> QED
    BY <1>2, <1>6, <1>7, <1>9, <2>1, <2>2, Recomputing
<1>10. ASSUME NEW done \in SUBSET Portfolios, RecomputeOf(done, {old, p} \ done), p \notin done, UNCHANGED pageVars
       PROVE  DbOK' /\ Derived' /\ torn' # {} /\ UNCHANGED pageVars
  <2>1. {old, p} \ done \in SUBSET Portfolios
    BY <1>4
  <2>2. \A q \in Portfolios : q \notin done \cup ({old, p} \ done) => Untouched(q)
    BY <1>8
  <2>3. DbOK' /\ Derived' /\ torn' = (torn \ done) \cup ({old, p} \ done)
    BY <1>2, <1>6, <1>7, <1>10, <2>1, <2>2, Recomputing
  <2> QED
    BY <1>10, <2>3
<1>11. \/ RecomputeOf({old, p}, {}) /\ Broadcast
       \/ RecomputeOf({}, {old, p}) /\ UNCHANGED pageVars
       \/ old # p /\ RecomputeOf({old}, {p}) /\ UNCHANGED pageVars
  BY <1>1 DEF Recompute, Tear, Affected, old
<1>12. CASE RecomputeOf({}, {old, p}) /\ UNCHANGED pageVars
  <2>1. {old, p} \ {} = {old, p} /\ {} \in SUBSET Portfolios
    OBVIOUS
  <2> QED
    BY <1>6, <1>10, <1>12, <2>1
<1>13. CASE old # p /\ RecomputeOf({old}, {p}) /\ UNCHANGED pageVars
  <2>1. {old, p} \ {old} = {p} /\ {old} \in SUBSET Portfolios
    BY <1>4, <1>13
  <2> QED
    BY <1>6, <1>10, <1>13, <2>1
<1> QED
  BY <1>6, <1>9, <1>11, <1>12, <1>13

\* What a request or an answer of some kind holds.
LEMMA UpKinds ==
    ASSUME NEW f \in UpFrames
    PROVE  /\ f.kind \in {"get", "list", "delete", "add"}
           /\ f.kind = "delete" => f.id \in Ids
           /\ f.kind = "add" => f.number \in Forms /\ f.attempt \in 0..MaxAttempts /\ f.entry \in Added
BY DEF UpFrames

LEMMA DownKinds ==
    ASSUME NEW f \in DownFrames
    PROVE  /\ f.kind = "got" => f.held \in [Symbols -> Held] /\ f.recent \in SUBSET Ids
           /\ f.kind = "listed" => f.listed \in SUBSET Ids
           /\ f.kind = "added" => f.number \in Forms /\ f.attempt \in 0..MaxAttempts /\ f.ok \in BOOLEAN
BY DEF DownFrames

\* A step that leaves the database alone.
LEMMA DbStays ==
    ASSUME DbOK, Derived, UNCHANGED dbVars
    PROVE  /\ DbOK' /\ Derived' /\ \A n : Made(n)' = Made(n)
           /\ \A p, n : Latest(p, n)' = Latest(p, n)
<1>1. rows' = rows /\ holdings' = holdings /\ torn' = torn /\ changes' = changes
  BY DEF dbVars
<1>2. DbOK' /\ \A i : Live(i)' = Live(i)
  BY <1>1 DEF DbOK, Live
<1>3. \A p : Recomputed(p)' = Recomputed(p)
  BY <1>1, <1>2, HoldingsStay DEF Untouched
<1>4. Derived'
  BY <1>1, <1>3 DEF Derived
<1>5. \A n : Made(n)' = Made(n)
  BY <1>1, <1>2 DEF Made
<1>6. \A p, n : Latest(p, n)' = Latest(p, n)
  BY <1>1, <1>2 DEF Latest
<1> QED
  BY <1>2, <1>4, <1>5, <1>6

LEMMA DeletedDb ==
    ASSUME DbOK, Derived, NEW i \in Ids, Change(i, NoRow), NEW done, NEW left,
           done \cup left = {rows[i].portfolio}, RecomputeOf(done, left)
    PROVE  /\ DbOK' /\ Derived' /\ \A n : Made(n)' \subseteq Made(n)
           /\ torn' = (torn \ done) \cup left
<1>1. RowsOK /\ changes \in 0..MaxChanges
  BY TypesOfDb
<1>2. rows[i] \in Entered /\ rows[i].portfolio \in Portfolios
  BY <1>1, LiveRows DEF Change, Entered
<1> DEFINE row == NoRow
<1>3. row \in Entered \cup {NoRow} /\ Change(i, row) /\ (row # NoRow => row.form = rows[i].form)
  OBVIOUS
<1> HIDE DEF row
<1>4. /\ RowsOK' /\ changes' = changes + 1 /\ changes < MaxChanges
      /\ \A q : q # rows[i].portfolio /\ (row # NoRow => q # row.portfolio) => Untouched(q)
      /\ \A n : Made(n)' \subseteq Made(n)
  BY <1>1, <1>3, RowChanged
<1>5. changes' \in 0..MaxChanges
  BY <1>1, <1>4, Numbers
<1>6. \A q \in Portfolios : q \notin done \cup left => Untouched(q)
  BY <1>4 DEF row
<1>7. done \in SUBSET Portfolios /\ left \in SUBSET Portfolios
  BY <1>2
<1> QED
  BY <1>4, <1>5, <1>6, <1>7, Recomputing

LEMMA DeleteDb ==
    ASSUME LedgerInv, Delete
    PROVE  /\ DbOK' /\ Derived' /\ \A n \in Forms : Made(n)' \subseteq Made(n)
           /\ \/ Broadcast
              \/ torn' # {} /\ UNCHANGED pageVars
<1>1. PICK i \in Ids :
             /\ Change(i, NoRow)
             /\ \/ Recompute({rows[i].portfolio}) /\ Broadcast
                \/ Tear({rows[i].portfolio}) /\ UNCHANGED pageVars
  BY DEF Delete
<1> DEFINE p == rows[i].portfolio
<1>2. DbOK /\ Derived
  BY DEF LedgerInv
<1>3. CASE RecomputeOf({p}, {}) /\ Broadcast
  <2>1. {p} \cup {} = {p}
    OBVIOUS
  <2> QED
    BY <1>1, <1>2, <1>3, <2>1, DeletedDb
<1>4. CASE RecomputeOf({}, {p}) /\ UNCHANGED pageVars
  <2>1. {} \cup {p} = {p}
    OBVIOUS
  <2> QED
    BY <1>1, <1>2, <1>4, <2>1, DeletedDb
<1> QED
  BY <1>1, <1>3, <1>4 DEF Recompute, Tear

Answer(ok) == [kind |-> "added", number |-> Head(up).number, attempt |-> Head(up).attempt, ok |-> ok]

LEMMA ServeAddDb ==
    ASSUME LedgerInv, ServeAdd
    PROVE  /\ up # <<>> /\ Head(up) \in UpFrames /\ Head(up).kind = "add" /\ up' = Tail(up)
           /\ DbOK' /\ Derived' /\ Len(rows) + 1 \in Int
           /\ \A n : Made(n)' = Made(n) \cup (IF n = Head(up).number THEN {Len(rows) + 1} ELSE {})
           /\ \/ down' = Append(Changed, Answer(TRUE))
              \/ torn' # {} /\ down' = Append(down, Answer(FALSE))
           /\ UNCHANGED <<online, view, current, form, failed>>
<1> DEFINE r == Head(up)
<1>1. /\ up # <<>> /\ r.kind = "add" /\ up' = Tail(up)
      /\ Insert(Oldest, r.entry, r.number)
      /\ \/ Recompute({Oldest}) /\ down' = Append(Changed, Answer(TRUE))
         \/ Tear({Oldest}) /\ down' = Append(down, Answer(FALSE))
      /\ UNCHANGED <<online, view, current, form, failed>>
  BY DEF ServeAdd, Serves, Reply, Answer
<1>2. DbOK /\ Derived /\ RowsOK /\ changes \in 0..MaxChanges /\ up \in Seq(UpFrames)
  BY TypesOfDb DEF LedgerInv, PageOK
<1>3. r \in UpFrames
  BY <1>1, <1>2
<1>4. r.entry \in Entries /\ r.number \in 0..MaxForms /\ Oldest \in Portfolios
  BY <1>1, <1>3, UpKinds, Numbers
<1>5. /\ RowsOK' /\ \A q : q # Oldest => Untouched(q)
      /\ \A n : Made(n)' = Made(n) \cup (IF n = r.number THEN {Len(rows) + 1} ELSE {})
  BY <1>1, <1>2, <1>4, Inserted
<1>6. changes' \in 0..MaxChanges /\ Len(rows) + 1 \in Int
  BY <1>1, <1>2 DEF Insert, RowsOK
<1>7. CASE Recompute({Oldest}) /\ down' = Append(Changed, Answer(TRUE))
  <2>1. RecomputeOf({Oldest}, {}) /\ {Oldest} \in SUBSET Portfolios /\ {} \in SUBSET Portfolios
    BY <1>4, <1>7 DEF Recompute
  <2>2. \A q \in Portfolios : q \notin {Oldest} \cup {} => Untouched(q)
    BY <1>5
  <2>3. DbOK' /\ Derived'
    BY <1>2, <1>5, <1>6, <2>1, <2>2, Recomputing
  <2> QED
    BY <1>1, <1>3, <1>5, <1>6, <1>7, <2>3
<1>8. CASE Tear({Oldest}) /\ down' = Append(down, Answer(FALSE))
  <2>1. RecomputeOf({}, {Oldest}) /\ {Oldest} \in SUBSET Portfolios /\ {} \in SUBSET Portfolios
    BY <1>4, <1>8 DEF Tear
  <2>2. \A q \in Portfolios : q \notin {} \cup {Oldest} => Untouched(q)
    BY <1>5
  <2>3. DbOK' /\ Derived' /\ torn' = (torn \ {}) \cup {Oldest}
    BY <1>2, <1>5, <1>6, <2>1, <2>2, Recomputing
  <2> QED
    BY <1>1, <1>3, <1>5, <1>6, <1>8, <2>3
<1> QED
  BY <1>1, <1>7, <1>8

LEMMA ServeDeleteDb ==
    ASSUME LedgerInv, ServeDelete
    PROVE  /\ up # <<>> /\ Head(up) \in UpFrames /\ Head(up).kind = "delete" /\ up' = Tail(up)
           /\ DbOK' /\ Derived' /\ \A n : Made(n)' \subseteq Made(n)
           /\ \/ UNCHANGED dbVars /\ down' = Append(down, [kind |-> "refused"])
              \/ down' = Append(Changed, [kind |-> "deleted"])
              \/ torn' # {} /\ down' = Append(down, [kind |-> "refused"])
           /\ UNCHANGED <<online, view, current, form, failed>>
<1> DEFINE i == Head(up).id
           p == rows[i].portfolio
<1>1. /\ up # <<>> /\ Head(up).kind = "delete" /\ up' = Tail(up)
      /\ UNCHANGED <<online, view, current, form, failed>>
  BY DEF ServeDelete, Serves
<1>2. DbOK /\ Derived /\ up \in Seq(UpFrames)
  BY DEF LedgerInv, PageOK
<1>3. Head(up) \in UpFrames
  BY <1>1, <1>2
<1>4. i \in Ids
  BY <1>1, <1>3, UpKinds
<1>5. CASE UNCHANGED dbVars /\ down' = Append(down, [kind |-> "refused"])
  <2>1. DbOK' /\ Derived' /\ \A n : Made(n)' = Made(n)
    BY <1>2, <1>5, DbStays
  <2> QED
    BY <1>1, <1>3, <1>5, <2>1
<1>6. CASE Change(i, NoRow) /\ RecomputeOf({p}, {}) /\ down' = Append(Changed, [kind |-> "deleted"])
  <2>1. {p} \cup {} = {p}
    OBVIOUS
  <2>2. DbOK' /\ Derived' /\ \A n : Made(n)' \subseteq Made(n)
    BY <1>2, <1>4, <1>6, <2>1, DeletedDb
  <2> QED
    BY <1>1, <1>3, <1>6, <2>2
<1>7. CASE Change(i, NoRow) /\ RecomputeOf({}, {p}) /\ down' = Append(down, [kind |-> "refused"])
  <2>1. {} \cup {p} = {p}
    OBVIOUS
  <2>2. DbOK' /\ Derived' /\ (\A n : Made(n)' \subseteq Made(n)) /\ torn' = (torn \ {}) \cup {p}
    BY <1>2, <1>4, <1>7, <2>1, DeletedDb
  <2> QED
    BY <1>1, <1>3, <1>7, <2>2
<1> QED
  BY <1>5, <1>6, <1>7 DEF ServeDelete, Recompute, Tear, Reply

-----------------------------------------------------------------------------
(* The page.                                                               *)

LEMMA Frames ==
    /\ [kind |-> "changed"] \in DownFrames /\ [kind |-> "deleted"] \in DownFrames
    /\ [kind |-> "refused"] \in DownFrames
    /\ [kind |-> "get"] \in UpFrames /\ [kind |-> "list"] \in UpFrames
BY DEF DownFrames, UpFrames

LEMMA ChangedTyped ==
    ASSUME down \in Seq(DownFrames) PROVE Changed \in Seq(DownFrames)
BY Frames DEF Changed

LEMMA FrameAdded ==
    ASSUME NEW frames \in Seq(DownFrames), NEW f \in DownFrames
    PROVE  Append(frames, f) \in Seq(DownFrames)
OBVIOUS

LEMMA LatestTyped ==
    ASSUME NEW p, NEW n PROVE Latest(p, n) \in SUBSET Ids
BY DEF Latest

\* The server's steps.
LEMMA ServerTypes ==
    ASSUME LedgerInv, Server
    PROVE  PageOK' /\ Offline' /\ UNCHANGED <<online, view, current, form, failed>>
<1>1. PageOK /\ Offline /\ DbOK
  BY DEF LedgerInv
<1>2. up \in Seq(UpFrames) /\ down \in Seq(DownFrames)
  BY <1>1 DEF PageOK
<1>3. SUFFICES /\ up' \in Seq(UpFrames) /\ down' \in Seq(DownFrames)
               /\ ~online => up' = <<>> /\ down' = <<>>
               /\ UNCHANGED <<online, view, current, form, failed>>
  BY <1>1 DEF PageOK, Offline
<1>4. ~online => Changed = <<>> /\ up = <<>> /\ down = <<>>
  BY <1>1 DEF Offline, Changed
<1>5. CASE Add \/ Update \/ Delete
  <2>1. Broadcast \/ UNCHANGED pageVars
    BY <1>5, AddDb, UpdateDb, DeleteDb
  <2> QED
    BY <1>2, <1>4, <2>1, ChangedTyped DEF Broadcast, pageVars
<1>6. CASE ServeGet
  <2> DEFINE f == [kind |-> "got", held |-> holdings[Newest], recent |-> Latest(Newest, RecentLimit)]
  <2>1. up # <<>> /\ up' = Tail(up) /\ down' = Append(down, f) /\ UNCHANGED <<online, view, current, form, failed>>
    BY <1>6 DEF ServeGet, Serves, Reply
  <2>2. holdings[Newest] \in [Symbols -> Held] /\ Latest(Newest, RecentLimit) \in SUBSET Ids
    BY <1>1, Numbers, LatestTyped DEF DbOK
  <2>3. f \in DownFrames
    BY <2>2 DEF DownFrames
  <2> HIDE DEF f
  <2> QED
    BY <1>2, <1>4, <2>1, <2>3
<1>7. CASE ServeList
  <2> DEFINE f == [kind |-> "listed", listed |-> Latest(Newest, ListLimit)]
  <2>1. up # <<>> /\ up' = Tail(up) /\ down' = Append(down, f) /\ UNCHANGED <<online, view, current, form, failed>>
    BY <1>7 DEF ServeList, Serves, Reply
  <2>2. f \in DownFrames
    BY LatestTyped DEF DownFrames
  <2> HIDE DEF f
  <2> QED
    BY <1>2, <1>4, <2>1, <2>2
<1>8. CASE ServeAdd
  <2>1. Head(up).number \in Forms /\ Head(up).attempt \in 0..MaxAttempts
    BY <1>8, ServeAddDb, UpKinds
  <2>2. \A ok \in BOOLEAN : Answer(ok) \in DownFrames
    BY <2>1 DEF Answer, DownFrames
  <2>3. /\ up # <<>> /\ up' = Tail(up) /\ UNCHANGED <<online, view, current, form, failed>>
        /\ down' = Append(Changed, Answer(TRUE)) \/ down' = Append(down, Answer(FALSE))
    BY <1>8, ServeAddDb
  <2>4. Answer(TRUE) \in DownFrames /\ Answer(FALSE) \in DownFrames /\ Changed \in Seq(DownFrames)
    BY <1>2, <2>2, ChangedTyped
  <2>5. down' \in Seq(DownFrames)
    BY <1>2, <2>3, <2>4, FrameAdded, Zenon
  <2>6. up' \in Seq(UpFrames)
    BY <1>2, <2>3
  <2>7. online
    BY <1>4, <2>3, Zenon
  <2> QED
    BY <2>3, <2>5, <2>6, <2>7
<1>9. CASE ServeDelete
  <2>1. /\ up # <<>> /\ up' = Tail(up) /\ UNCHANGED <<online, view, current, form, failed>>
        /\ \/ down' = Append(Changed, [kind |-> "deleted"])
           \/ down' = Append(down, [kind |-> "refused"])
    BY <1>9, ServeDeleteDb
  <2>2. Changed \in Seq(DownFrames)
    BY <1>2, ChangedTyped
  <2>3. down' \in Seq(DownFrames)
    BY <1>2, <2>1, <2>2, Frames, FrameAdded, Zenon
  <2>4. up' \in Seq(UpFrames)
    BY <1>2, <2>1
  <2>5. online
    BY <1>4, <2>1, Zenon
  <2> QED
    BY <2>1, <2>3, <2>4, <2>5
<1> QED
  BY <1>5, <1>6, <1>7, <1>8, <1>9 DEF Server

LEMMA FailsTyped ==
    ASSUME PageOK, form.at = "submitting", AttemptFails
    PROVE  /\ form' = [form EXCEPT !.at = "open"] /\ form' \in FormStates /\ failed' \in [Forms -> Nat]
           /\ form.number \in Forms /\ failed' = [failed EXCEPT ![form.number] = @ + 1]
<1>1. form \in FormStates /\ failed \in [Forms -> Nat] /\ form.number \in Forms
  BY DEF PageOK
<1> QED
  BY <1>1 DEF AttemptFails, FormStates

\* The page's steps.
LEMMA PageTypes ==
    ASSUME LedgerInv, Page
    PROVE  PageOK' /\ Offline' /\ UNCHANGED dbVars
<1>1. PageOK /\ Offline
  BY DEF LedgerInv
<1>2. /\ up \in Seq(UpFrames) /\ down \in Seq(DownFrames) /\ online \in BOOLEAN /\ current \in BOOLEAN
      /\ view \in [held : [Symbols -> Held], listed : SUBSET Ids, waiting : BOOLEAN]
      /\ form \in FormStates /\ failed \in [Forms -> Nat]
      /\ form.at # "closed" => form.number \in Forms
  BY <1>1 DEF PageOK
<1>3. ~online => up = <<>> /\ down = <<>> /\ ~current
  BY <1>1 DEF Offline
<1>4. down # <<>> => Head(down) \in DownFrames /\ Tail(down) \in Seq(DownFrames)
  BY <1>2
<1>5. Load(up) \in Seq(UpFrames)
  BY <1>2, Frames DEF Load
<1>6. CASE Refresh
  BY <1>2, <1>3, <1>5, <1>6 DEF Refresh, PageOK, Offline
<1>7. CASE OnChanged
  <2>1. [view EXCEPT !.waiting = FALSE] \in [held : [Symbols -> Held], listed : SUBSET Ids, waiting : BOOLEAN]
    BY <1>2
  <2> QED
    BY <1>2, <1>3, <1>4, <1>5, <1>7, <2>1 DEF OnChanged, Gets, PageOK, Offline
<1>8. CASE OnGot
  <2> DEFINE a == Head(down)
             full == Cardinality(a.recent) >= RecentLimit
             v == [view EXCEPT !.held = a.held]
             w == [v EXCEPT !.listed = IF full THEN a.recent ELSE @]
  <2>1. down # <<>> /\ a.kind = "got" /\ down' = Tail(down) /\ up' = (IF full THEN up ELSE Append(up, [kind |-> "list"]))
        /\ UNCHANGED <<dbVars, online, current, form, failed>>
    BY <1>8 DEF OnGot, Gets
  <2>2. a.held \in [Symbols -> Held] /\ a.recent \in SUBSET Ids
    BY <1>4, <2>1, DownKinds
  <2>3. v \in [held : [Symbols -> Held], listed : SUBSET Ids, waiting : BOOLEAN]
    BY <1>2, <2>2
  <2>4. w \in [held : [Symbols -> Held], listed : SUBSET Ids, waiting : BOOLEAN]
    <3> HIDE DEF v
    <3> QED
      BY <2>2, <2>3
  <2>5. view' = w
    BY <1>8, Zenon DEF OnGot
  <2>6. up' \in Seq(UpFrames)
    BY <1>2, <2>1, Frames
  <2> HIDE DEF w
  <2> QED
    BY <1>2, <1>3, <1>4, <2>1, <2>4, <2>5, <2>6 DEF PageOK, Offline
<1>9. CASE OnListed
  <2>1. Head(down).listed \in SUBSET Ids
    BY <1>4, <1>9, DownKinds DEF OnListed, Gets
  <2>2. [view EXCEPT !.listed = Head(down).listed] \in [held : [Symbols -> Held], listed : SUBSET Ids, waiting : BOOLEAN]
    BY <1>2, <2>1
  <2> QED
    BY <1>2, <1>3, <1>4, <1>9, <2>2 DEF OnListed, Gets, PageOK, Offline
<1>10. CASE AskDelete
  <2>1. PICK i \in view.listed : up' = Append(up, [kind |-> "delete", id |-> i])
    BY <1>10 DEF AskDelete
  <2>2. i \in Ids
    BY <1>2
  <2>3. [kind |-> "delete", id |-> i] \in UpFrames
    BY <2>2 DEF UpFrames
  <2> HIDE DEF UpFrames
  <2> QED
    BY <1>2, <1>3, <1>10, <2>1, <2>3 DEF AskDelete, PageOK, Offline
<1>11. CASE OnDeleted
  <2>1. [view EXCEPT !.waiting = TRUE] \in [held : [Symbols -> Held], listed : SUBSET Ids, waiting : BOOLEAN]
    BY <1>2
  <2> QED
    BY <1>2, <1>3, <1>4, <1>11, <2>1 DEF OnDeleted, Gets, PageOK, Offline
<1>12. CASE DeleteTimer
  <2>1. [view EXCEPT !.waiting = FALSE] \in [held : [Symbols -> Held], listed : SUBSET Ids, waiting : BOOLEAN]
    BY <1>2
  <2> QED
    BY <1>2, <1>3, <1>5, <1>12, <2>1 DEF DeleteTimer, PageOK, Offline
<1>13. CASE OnRefused
  BY <1>2, <1>3, <1>4, <1>13 DEF OnRefused, Gets, PageOK, Offline
<1>14. CASE OpenForm
  <2>1. form' \in FormStates /\ form'.number \in Forms
    BY <1>2, <1>14, Numbers DEF OpenForm, FormStates
  <2> QED
    BY <1>2, <1>3, <1>14, <2>1 DEF OpenForm, PageOK, Offline
<1>15. CASE Submit
  <2> DEFINE g == [form EXCEPT !.at = "submitting"]
  <2>1. form.attempt + 1 \in 0..MaxAttempts /\ form.number \in Forms
    BY <1>2, <1>15, Numbers DEF Submit, MaySubmit, FormStates
  <2>2. g \in FormStates /\ g.number = form.number
    BY <1>2 DEF FormStates
  <2>3. form' = [g EXCEPT !.attempt = @ + 1]
    BY <1>15, Zenon DEF Submit
  <2>4. g.attempt = form.attempt
    BY <1>2 DEF FormStates
  <2>5. form' \in FormStates /\ form'.number \in Forms
    <3> HIDE DEF g
    <3> QED
      BY <2>1, <2>2, <2>3, <2>4 DEF FormStates
  <2>6. PICK entry \in Added : up' = Append(up, [kind |-> "add", number |-> form.number,
                                                 attempt |-> form.attempt + 1, entry |-> entry])
    BY <1>15 DEF Submit
  <2>7. [kind |-> "add", number |-> form.number, attempt |-> form.attempt + 1, entry |-> entry] \in UpFrames
    BY <2>1 DEF UpFrames
  <2>8. up' \in Seq(UpFrames)
    BY <1>2, <2>6, <2>7
  <2> HIDE DEF g
  <2> QED
    BY <1>2, <1>3, <1>15, <2>5, <2>8 DEF Submit, PageOK, Offline
<1>16. CASE CloseForm
  <2>1. form' \in FormStates /\ form'.at = "closed"
    BY <1>2, <1>16 DEF CloseForm, FormStates
  <2> QED
    BY <1>2, <1>3, <1>16, <2>1 DEF CloseForm, PageOK, Offline
<1>17. CASE SubmitTimeout
  <2>1. form' \in FormStates /\ failed' \in [Forms -> Nat] /\ form'.number \in Forms
    BY <1>1, <1>2, <1>17, FailsTyped DEF SubmitTimeout, FormStates
  <2> QED
    BY <1>2, <1>3, <1>17, <2>1 DEF SubmitTimeout, PageOK, Offline
<1>18. CASE OnAdded
  <2>1. /\ down # <<>> /\ down' = Tail(down) /\ UNCHANGED <<dbVars, online, view>>
        /\ \/ UNCHANGED <<up, current, form, failed>>
           \/ form' = [form EXCEPT !.at = "closed"] /\ up' = Load(up) /\ current' = TRUE /\ UNCHANGED failed
           \/ form.at = "submitting" /\ AttemptFails /\ UNCHANGED <<up, current>>
    BY <1>18 DEF OnAdded, Gets
  <2>2. form' \in FormStates /\ failed' \in [Forms -> Nat] /\ (form'.at # "closed" => form'.number \in Forms)
    <3>1. CASE UNCHANGED <<up, current, form, failed>>
      BY <1>2, <3>1
    <3>2. CASE form' = [form EXCEPT !.at = "closed"] /\ UNCHANGED failed
      BY <1>2, <3>2 DEF FormStates
    <3>3. CASE form.at = "submitting" /\ AttemptFails
      BY <1>1, <1>2, <3>3, FailsTyped DEF FormStates
    <3> QED
      BY <2>1, <3>1, <3>2, <3>3
  <2> QED
    BY <1>2, <1>3, <1>4, <1>5, <2>1, <2>2 DEF PageOK, Offline
<1>19. CASE Disconnect
  <2>1. form' \in FormStates /\ failed' \in [Forms -> Nat] /\ (form'.at # "closed" => form'.number \in Forms)
    <3>1. CASE form.at = "submitting"
      BY <1>1, <1>2, <1>19, <3>1, FailsTyped DEF Disconnect, FormStates
    <3>2. CASE form.at # "submitting"
      BY <1>2, <1>19, <3>2 DEF Disconnect
    <3> QED
      BY <3>1, <3>2
  <2>2. online' = FALSE /\ up' = <<>> /\ down' = <<>> /\ current' = FALSE /\ view' = view /\ UNCHANGED dbVars
    BY <1>19 DEF Disconnect
  <2>3. up' \in Seq(UpFrames) /\ down' \in Seq(DownFrames)
    BY <2>2
  <2> QED
    BY <1>2, <2>1, <2>2, <2>3 DEF PageOK, Offline
<1>20. CASE Reconnect
  BY <1>2, <1>3, <1>20 DEF Reconnect, PageOK, Offline
<1> QED
  BY <1>6, <1>7, <1>8, <1>9, <1>10, <1>11, <1>12, <1>13, <1>14, <1>15, <1>16, <1>17, <1>18, <1>19, <1>20 DEF Page

LEMMA NoRows ==
    ASSUME rows = <<>> PROVE (\A p : Recomputed(p) = Nothing) /\ \A n : Made(n) = {}
<1>1. \A i \in Ids : ~Live(i)
  BY Numbers DEF Live
<1>2. \A n : Made(n) = {}
  BY <1>1 DEF Made
<1>3. ASSUME NEW p, NEW symbol PROVE Holding(p, symbol) = [qty |-> 0]
  <2> DEFINE OfAction(A) == {i \in RowsOf(p, symbol) : rows[i].entry.action \in A}
             Quantity(A) == SumFunction([i \in OfAction(A) |-> rows[i].entry.qty])
             cost == [i \in OfAction({"buy"}) |-> rows[i].entry.qty * rows[i].entry.price]
             qty == Quantity({"buy", "split"}) - Quantity({"sell"})
  <2>1. \A A : OfAction(A) = {}
    BY <1>1 DEF RowsOf
  <2>2. \A A : [i \in OfAction(A) |-> rows[i].entry.qty] = [i \in {} |-> 0]
    BY <2>1
  <2>3. \A A : Quantity(A) = 0
    BY <2>2, SumOfNone
  <2>4. Holding(p, symbol) = IF qty <= 0 THEN [qty |-> 0]
                             ELSE [qty |-> qty, bought |-> Quantity({"buy"}), paid |-> SumFunction(cost)]
    BY DEF Holding
  <2> HIDE DEF Quantity, cost
  <2> QED
    BY <2>3, <2>4
<1> QED
  BY <1>2, <1>3 DEF Recomputed, Nothing

\* The page is empty and the tables are.
LEMMA InitHolds == Init => LedgerInv
<1> SUFFICES ASSUME Init PROVE LedgerInv
  OBVIOUS
<1>1. Nothing \in [Symbols -> Held]
  BY DEF Nothing, Held
<1>2. DbOK
  BY <1>1, Numbers DEF Init, DbOK
<1>3. form = Closed /\ form \in FormStates /\ form.at = "closed" /\ form.number = 0
  BY Numbers DEF Init, Closed, FormStates
<1>4. PageOK
  <2>1. view \in [held : [Symbols -> Held], listed : SUBSET Ids, waiting : BOOLEAN]
    BY <1>1 DEF Init
  <2>2. online \in BOOLEAN /\ current \in BOOLEAN
    BY DEF Init
  <2>3. up \in Seq(UpFrames) /\ down \in Seq(DownFrames) /\ failed \in [Forms -> Nat]
    BY DEF Init
  <2> QED
    BY <1>3, <2>1, <2>2, <2>3 DEF PageOK
<1>5. Derived
  BY NoRows DEF Init, Derived
<1>6. FormsInv
  <2>1. form.number \notin Forms
    BY <1>3, Numbers
  <2>2. ASSUME NEW n \in Forms PROVE Copies(n) <= Attempts(n)
    <3>1. Made(n) = {} /\ Asked(n) = {}
      BY NoRows DEF Init, Asked, AskedIn
    <3>2. Attempts(n) = 0
      BY <1>3, Numbers DEF Attempts
    <3> QED
      BY <3>1, <3>2, FS_EmptySet DEF Copies
  <2> QED
    BY <2>1, <2>2 DEF FormsInv
<1>7. Offline /\ PageInv
  BY DEF Init, Offline, PageInv, FramesTrue, ListsAsked, ListsReplaced, ViewHolds, ViewLists
<1> QED
  BY <1>2, <1>4, <1>5, <1>6, <1>7 DEF LedgerInv

-----------------------------------------------------------------------------
(* The forms.                                                              *)

LEMMA AskedFinite ==
    ASSUME NEW S, NEW frames \in Seq(S), NEW n
    PROVE  IsFiniteSet(AskedIn(frames, n)) /\ Cardinality(AskedIn(frames, n)) \in Nat
<1>1. Len(frames) \in Nat /\ DOMAIN frames = 1..Len(frames)
  OBVIOUS
<1>2. IsFiniteSet(1..Len(frames)) /\ AskedIn(frames, n) \in SUBSET (1..Len(frames))
  BY <1>1, FS_Interval DEF AskedIn
<1> QED
  BY <1>2, FS_Subset, FS_CardinalityType

\* A frame is sent, and taken.
LEMMA AskedMore ==
    ASSUME NEW S, NEW frames \in Seq(S), NEW f \in S, NEW n
    PROVE  Cardinality(AskedIn(Append(frames, f), n)) = Cardinality(AskedIn(frames, n)) + (IF Mine(f, n) THEN 1 ELSE 0)
<1> DEFINE last == Len(frames) + 1
<1>1. /\ Len(frames) \in Nat /\ DOMAIN frames = 1..Len(frames) /\ DOMAIN Append(frames, f) = 1..last
      /\ \A i \in 1..Len(frames) : Append(frames, f)[i] = frames[i]
      /\ Append(frames, f)[last] = f
  OBVIOUS
<1>2. last \notin AskedIn(frames, n) /\ 1..last = (1..Len(frames)) \cup {last}
  BY <1>1 DEF AskedIn
<1>3. IsFiniteSet(AskedIn(frames, n)) /\ Cardinality(AskedIn(frames, n)) \in Nat
  BY AskedFinite
<1>4. CASE Mine(f, n)
  <2>1. AskedIn(Append(frames, f), n) = AskedIn(frames, n) \cup {last}
    BY <1>1, <1>2, <1>4 DEF AskedIn
  <2>2. Cardinality(AskedIn(frames, n) \cup {last}) = Cardinality(AskedIn(frames, n)) + 1
    BY <1>2, <1>3, FS_AddElement
  <2> QED
    BY <1>4, <2>1, <2>2
<1>5. CASE ~Mine(f, n)
  <2>1. AskedIn(Append(frames, f), n) = AskedIn(frames, n)
    BY <1>1, <1>2, <1>5 DEF AskedIn
  <2> QED
    BY <1>3, <1>5, <2>1
<1> QED
  BY <1>4, <1>5

LEMMA AskedLess ==
    ASSUME NEW S, NEW frames \in Seq(S), frames # <<>>, NEW n
    PROVE  Cardinality(AskedIn(Tail(frames), n))
           = Cardinality(AskedIn(frames, n)) - (IF Mine(Head(frames), n) THEN 1 ELSE 0)
<1> DEFINE Old == AskedIn(frames, n) \ {1}
           New == AskedIn(Tail(frames), n)
<1>1. /\ Len(frames) \in Nat \ {0} /\ DOMAIN frames = 1..Len(frames)
      /\ Tail(frames) \in Seq(S) /\ DOMAIN Tail(frames) = 1..(Len(frames) - 1)
      /\ \A i \in 1..(Len(frames) - 1) : Tail(frames)[i] = frames[i + 1]
      /\ Head(frames) = frames[1]
  OBVIOUS
<1>2. \A i \in New : i + 1 \in Old
  BY <1>1 DEF AskedIn
<1>3. \A j \in Old : j - 1 \in New /\ j = (j - 1) + 1
  <2> TAKE j \in Old
  <2>1. j \in 2..Len(frames) /\ Mine(frames[j], n)
    BY <1>1 DEF AskedIn
  <2>2. j - 1 \in 1..(Len(frames) - 1) /\ j = (j - 1) + 1
    BY <1>1, <2>1
  <2>3. Tail(frames)[j - 1] = frames[j]
    BY <1>1, <2>2
  <2> QED
    BY <1>1, <2>1, <2>2, <2>3 DEF AskedIn
<1>4. New \subseteq Int
  BY <1>1 DEF AskedIn
<1>5. ExistsBijection(New, Old)
  <2> DEFINE shift == [i \in New |-> i + 1]
  <2> HIDE DEF New, Old
  <2>1. shift \in [New -> Old] /\ \A i, j \in New : shift[i] = shift[j] => i = j
    BY <1>2, <1>4
  <2>2. \A j \in Old : \E i \in New : shift[i] = j
    BY <1>3
  <2> QED
    BY <2>1, <2>2 DEF ExistsBijection, Bijection, Injection, Surjection, IsInjective
<1>6. IsFiniteSet(New) /\ IsFiniteSet(AskedIn(frames, n)) /\ Cardinality(AskedIn(frames, n)) \in Nat
  BY <1>1, AskedFinite
<1>7. Cardinality(New) = Cardinality(Old)
  BY <1>5, <1>6, FS_Bijection
<1>8. Cardinality(Old) = IF 1 \in AskedIn(frames, n) THEN Cardinality(AskedIn(frames, n)) - 1
                         ELSE Cardinality(AskedIn(frames, n))
  BY <1>6, FS_RemoveElement
<1>9. 1 \in AskedIn(frames, n) <=> Mine(Head(frames), n)
  BY <1>1 DEF AskedIn
<1> QED
  BY <1>6, <1>7, <1>8, <1>9

LEMMA CountsTyped ==
    ASSUME PageOK, NEW n
    PROVE  /\ IsFiniteSet(Made(n)) /\ Cardinality(Made(n)) \in Nat
           /\ IsFiniteSet(Asked(n)) /\ Cardinality(Asked(n)) \in Nat /\ Copies(n) \in Nat
<1>1. IsFiniteSet(Ids) /\ Made(n) \in SUBSET Ids
  BY Numbers, FS_Interval DEF Made
<1>2. IsFiniteSet(Made(n)) /\ Cardinality(Made(n)) \in Nat
  BY <1>1, FS_Subset, FS_CardinalityType
<1>3. IsFiniteSet(Asked(n)) /\ Cardinality(Asked(n)) \in Nat
  BY AskedFinite DEF PageOK, Asked
<1> QED
  BY <1>2, <1>3 DEF Copies

\* Nothing of a form's is added, and no attempt is made.
LEMMA FewerMade ==
    ASSUME PageOK, NEW n, Made(n)' \subseteq Made(n), Cardinality(Asked(n))' \in Nat,
           Cardinality(Asked(n))' <= Cardinality(Asked(n))
    PROVE  Copies(n)' <= Copies(n) /\ Copies(n)' \in Nat
<1>1. IsFiniteSet(Made(n)) /\ Cardinality(Made(n)) \in Nat /\ Cardinality(Asked(n)) \in Nat
  BY CountsTyped
<1>2. Cardinality(Made(n)') \in Nat /\ Cardinality(Made(n)') <= Cardinality(Made(n))
  BY <1>1, FS_Subset, FS_CardinalityType
<1> QED
  BY <1>1, <1>2 DEF Copies

AskedSame == \/ up' = up \/ up' = <<>>
             \/ up # <<>> /\ up' = Tail(up)
             \/ \E f \in UpFrames : up' = Append(up, f) /\ f.kind # "add"

LEMMA FewerAsked ==
    ASSUME PageOK, AskedSame, NEW n
    PROVE  Cardinality(Asked(n))' \in Nat /\ Cardinality(Asked(n))' <= Cardinality(Asked(n))
<1>1. up \in Seq(UpFrames) /\ Cardinality(AskedIn(up, n)) \in Nat
  BY AskedFinite DEF PageOK
<1>2. Asked(n)' = AskedIn(up', n) /\ Asked(n) = AskedIn(up, n)
  BY DEF Asked, AskedIn
<1>3. CASE up' = up
  BY <1>1, <1>2, <1>3
<1>4. CASE up' = <<>>
  <2>1. AskedIn(up', n) = {}
    BY <1>4 DEF AskedIn
  <2>2. Cardinality(Asked(n))' = 0 /\ Cardinality(Asked(n)) \in Nat
    BY <1>1, <1>2, <2>1, FS_EmptySet, Zenon
  <2> QED
    BY <2>2
<1>5. CASE up # <<>> /\ up' = Tail(up)
  <2>1. Cardinality(AskedIn(Tail(up), n)) = Cardinality(AskedIn(up, n)) - (IF Mine(Head(up), n) THEN 1 ELSE 0)
    BY <1>1, <1>5, AskedLess
  <2>2. Tail(up) \in Seq(UpFrames)
    BY <1>1, <1>5
  <2>3. Cardinality(AskedIn(Tail(up), n)) \in Nat
    BY <2>2, AskedFinite
  <2> QED
    BY <1>1, <1>2, <1>5, <2>1, <2>3
<1>6. CASE \E f \in UpFrames : up' = Append(up, f) /\ f.kind # "add"
  <2>1. PICK f \in UpFrames : up' = Append(up, f) /\ f.kind # "add"
    BY <1>6
  <2>2. Cardinality(AskedIn(Append(up, f), n)) = Cardinality(AskedIn(up, n)) + (IF Mine(f, n) THEN 1 ELSE 0)
    BY <1>1, AskedMore
  <2>3. ~Mine(f, n)
    BY <2>1 DEF Mine
  <2> QED
    BY <1>1, <1>2, <2>1, <2>2, <2>3
<1> QED
  BY <1>3, <1>4, <1>5, <1>6 DEF AskedSame

\* The form's attempts are no fewer than before.
AttemptsGrow == /\ form'.number \in Forms =>
                     form'.attempt <= failed'[form'.number] + (IF form'.at = "open" THEN 0 ELSE 1)
                /\ \A n \in Forms : Attempts(n)' \in Int /\ Attempts(n) <= Attempts(n)'

LEMMA AttemptsTyped ==
    ASSUME PageOK, NEW n \in Forms
    PROVE  Attempts(n) \in Nat /\ failed[n] \in Nat /\ n \in Nat \ {0} /\ form.attempt \in Nat /\ form.number \in Nat
BY Numbers DEF PageOK, FormStates, Attempts

LEMMA FormsKept ==
    ASSUME PageOK, FormsInv, AttemptsGrow, \A n \in Forms : Copies(n)' <= Copies(n) /\ Copies(n)' \in Nat
    PROVE  FormsInv'
<1>1. ASSUME NEW n \in Forms PROVE Copies(n)' <= Attempts(n)'
  <2>1. Copies(n) <= Attempts(n) /\ Copies(n) \in Nat /\ Attempts(n) \in Nat
    BY CountsTyped, AttemptsTyped DEF FormsInv
  <2>2. Copies(n)' <= Copies(n) /\ Copies(n)' \in Nat /\ Attempts(n)' \in Int /\ Attempts(n) <= Attempts(n)'
    BY DEF AttemptsGrow
  <2> QED
    BY <2>1, <2>2
<1> QED
  BY <1>1 DEF FormsInv, AttemptsGrow

LEMMA FormStays ==
    ASSUME PageOK, FormsInv, UNCHANGED <<form, failed>>
    PROVE  AttemptsGrow
<1>1. \A n \in Forms : Attempts(n)' = Attempts(n)
  BY DEF Attempts
<1>2. form' = form /\ failed' = failed
  OBVIOUS
<1> QED
  BY <1>1, <1>2, AttemptsTyped DEF AttemptsGrow, FormsInv

LEMMA FormCloses ==
    ASSUME PageOK, FormsInv, form' = [form EXCEPT !.at = "closed"], UNCHANGED failed
    PROVE  AttemptsGrow
<1>1. form \in FormStates
  BY DEF PageOK
<1>2. form'.at = "closed" /\ form'.number = form.number /\ form'.attempt = form.attempt /\ failed' = failed
  BY <1>1 DEF FormStates
<1>3. \A n \in Forms : Attempts(n)' = Attempts(n)
  BY <1>2 DEF Attempts
<1> QED
  BY <1>2, <1>3, AttemptsTyped DEF AttemptsGrow, FormsInv

LEMMA AttemptFailed ==
    ASSUME PageOK, FormsInv, form.at = "submitting", AttemptFails
    PROVE  AttemptsGrow
<1>1. /\ form' = [form EXCEPT !.at = "open"] /\ form.number \in Forms
      /\ failed' = [failed EXCEPT ![form.number] = @ + 1]
  BY FailsTyped
<1>2. form \in FormStates /\ failed \in [Forms -> Nat]
  BY DEF PageOK
<1>3. form'.at = "open" /\ form'.number = form.number /\ form'.attempt = form.attempt
  BY <1>1, <1>2 DEF FormStates
<1>4. failed'[form.number] = failed[form.number] + 1 /\ \A n \in Forms : n # form.number => failed'[n] = failed[n]
  BY <1>1, <1>2
<1>5. \A n \in Forms : Attempts(n)' = Attempts(n)
  BY <1>3, <1>4, Numbers DEF Attempts
<1>6. form.attempt <= failed[form.number] + 1
  BY <1>1 DEF FormsInv
<1> QED
  BY <1>1, <1>3, <1>4, <1>5, <1>6, AttemptsTyped DEF AttemptsGrow

LEMMA FormOpens ==
    ASSUME PageOK, FormsInv, OpenForm
    PROVE  AttemptsGrow
<1>1. form.at = "closed" /\ form' = [at |-> "open", number |-> form.number + 1, attempt |-> 0] /\ failed' = failed
  BY DEF OpenForm
<1>2. form \in FormStates /\ failed \in [Forms -> Nat]
  BY DEF PageOK
<1>3. form'.at = "open" /\ form'.number = form.number + 1 /\ form'.attempt = 0
  BY <1>1
<1>4. form.number \in Nat /\ form.attempt \in Nat
  BY <1>2, Numbers DEF FormStates
<1>5. ASSUME NEW n \in Forms PROVE Attempts(n)' \in Int /\ Attempts(n) <= Attempts(n)'
  <2>1. n \in Nat /\ failed[n] \in Nat
    BY <1>2, Numbers
  <2>2. Attempts(n)' = IF n = form.number + 1 THEN 0 ELSE IF n < form.number + 1 THEN 1 + failed[n] ELSE 0
    BY <1>1, <1>3 DEF Attempts
  <2>3. CASE n = form.number
    <3>1. form.attempt <= failed[n] + 1
      BY <1>1, <2>3 DEF FormsInv
    <3> QED
      BY <1>4, <2>1, <2>2, <2>3, <3>1 DEF Attempts
  <2>4. CASE n # form.number
    BY <1>4, <2>1, <2>2, <2>4 DEF Attempts
  <2> QED
    BY <2>3, <2>4
<1>6. form'.number \in Forms => form'.attempt <= failed'[form'.number] + (IF form'.at = "open" THEN 0 ELSE 1)
  <2>1. ASSUME form'.number \in Forms PROVE failed'[form'.number] \in Nat
    BY <1>1, <1>2, <2>1
  <2> QED
    BY <1>3, <2>1
<1> QED
  BY <1>5, <1>6 DEF AttemptsGrow

\* The server makes a transaction of an attempt.
LEMMA AttemptServed ==
    ASSUME LedgerInv, ServeAdd, NEW n \in Forms
    PROVE  Copies(n)' <= Copies(n) /\ Copies(n)' \in Nat
<1>1. /\ up # <<>> /\ Head(up) \in UpFrames /\ Head(up).kind = "add" /\ up' = Tail(up) /\ Len(rows) + 1 \in Int
      /\ \A m : Made(m)' = Made(m) \cup (IF m = Head(up).number THEN {Len(rows) + 1} ELSE {})
  BY ServeAddDb
<1>2. PageOK /\ up \in Seq(UpFrames)
  BY DEF LedgerInv, PageOK
<1>3. Cardinality(Asked(n))' = Cardinality(Asked(n)) - (IF Mine(Head(up), n) THEN 1 ELSE 0)
  <2>1. Cardinality(AskedIn(Tail(up), n)) = Cardinality(AskedIn(up, n)) - (IF Mine(Head(up), n) THEN 1 ELSE 0)
    BY <1>1, <1>2, AskedLess
  <2> QED
    BY <1>1, <2>1 DEF Asked, AskedIn
<1>4. Cardinality(Asked(n))' \in Nat
  <2>1. AskedSame
    BY <1>1 DEF AskedSame
  <2> QED
    BY <1>2, <2>1, FewerAsked
<1>5. IsFiniteSet(Made(n)) /\ Cardinality(Made(n)) \in Nat /\ Cardinality(Asked(n)) \in Nat
  BY <1>2, CountsTyped
<1>6. CASE n = Head(up).number
  <2>1. Made(n)' = Made(n) \cup {Len(rows) + 1} /\ Mine(Head(up), n)
    BY <1>1, <1>6 DEF Mine
  <2>2. /\ Cardinality(Made(n) \cup {Len(rows) + 1}) \in Nat
        /\ Cardinality(Made(n) \cup {Len(rows) + 1}) <= Cardinality(Made(n)) + 1
    <3> DEFINE new == Len(rows) + 1
    <3> HIDE DEF new
    <3>1. Cardinality(Made(n) \cup {new}) = IF new \in Made(n) THEN Cardinality(Made(n)) ELSE Cardinality(Made(n)) + 1
      BY <1>5, FS_AddElement
    <3> QED
      BY <1>5, <3>1 DEF new
  <2> QED
    BY <1>3, <1>4, <1>5, <2>1, <2>2 DEF Copies
<1>7. CASE n # Head(up).number
  <2>1. Made(n)' = Made(n) /\ ~Mine(Head(up), n)
    BY <1>1, <1>7 DEF Mine
  <2> QED
    BY <1>3, <1>4, <1>5, <2>1 DEF Copies
<1> QED
  BY <1>6, <1>7

\* The page makes an attempt: the ones before it have failed.
LEMMA AttemptMade ==
    ASSUME LedgerInv, Submit
    PROVE  FormsInv'
<1>1. PageOK /\ FormsInv /\ DbOK /\ Derived
  BY DEF LedgerInv
<1>2. form \in FormStates /\ failed \in [Forms -> Nat] /\ up \in Seq(UpFrames)
  BY <1>1 DEF PageOK
<1>3. form.at = "open" /\ form.number \in Forms /\ form.attempt + 1 \in 0..MaxAttempts
  BY <1>1, <1>2, Numbers DEF Submit, MaySubmit, PageOK, FormStates
<1> DEFINE g == [form EXCEPT !.at = "submitting"]
<1>4. form'.at = "submitting" /\ form'.number = form.number /\ form'.attempt = form.attempt + 1 /\ failed' = failed
  <2>1. g \in FormStates /\ g.at = "submitting" /\ g.number = form.number /\ g.attempt = form.attempt
    BY <1>2 DEF FormStates
  <2>2. form' = [g EXCEPT !.attempt = @ + 1]
    BY Zenon DEF Submit
  <2> HIDE DEF g
  <2> QED
    BY <2>1, <2>2 DEF Submit, FormStates
<1>5. PICK entry \in Added : up' = Append(up, [kind |-> "add", number |-> form.number,
                                               attempt |-> form.attempt + 1, entry |-> entry])
  BY DEF Submit
<1> DEFINE f == [kind |-> "add", number |-> form.number, attempt |-> form.attempt + 1, entry |-> entry]
<1>6. f \in UpFrames
  BY <1>3 DEF UpFrames
<1>7. \A n : Mine(f, n) <=> n = form.number
  BY DEF Mine
<1> HIDE DEF f
<1>8. ASSUME NEW n \in Forms
      PROVE  Copies(n)' = Copies(n) + (IF n = form.number THEN 1 ELSE 0)
  <2>1. up' = Append(up, f)
    BY <1>5 DEF f
  <2>2. Cardinality(AskedIn(up', n)) = Cardinality(AskedIn(up, n)) + (IF Mine(f, n) THEN 1 ELSE 0)
    BY <1>2, <1>6, <2>1, AskedMore
  <2>3. Made(n)' = Made(n)
    BY <1>1, DbStays DEF Submit
  <2>4. Cardinality(Made(n)) \in Nat /\ Cardinality(Asked(n)) \in Nat
    BY <1>1, CountsTyped
  <2> QED
    BY <1>7, <2>2, <2>3, <2>4 DEF Copies, Asked, AskedIn
<1>9. form.attempt <= failed[form.number] /\ form.attempt \in Nat /\ failed[form.number] \in Nat
  BY <1>1, <1>3, AttemptsTyped DEF FormsInv
<1>10. ASSUME NEW n \in Forms PROVE Copies(n)' <= Attempts(n)'
  <2>1. Copies(n) <= Attempts(n) /\ Copies(n) \in Nat /\ Attempts(n) \in Nat
    BY <1>1, CountsTyped, AttemptsTyped DEF FormsInv
  <2>2. Attempts(n)' = Attempts(n) + (IF n = form.number THEN 1 ELSE 0)
    BY <1>4, <2>1 DEF Attempts
  <2> QED
    BY <1>8, <2>1, <2>2
<1> QED
  BY <1>4, <1>9, <1>10 DEF FormsInv

LEMMA FormsStep ==
    ASSUME LedgerInv, Next
    PROVE  FormsInv'
<1>1. PageOK /\ FormsInv /\ DbOK /\ Derived
  BY DEF LedgerInv
<1>2. ASSUME AskedSame, \A n \in Forms : Made(n)' \subseteq Made(n)
      PROVE  \A n \in Forms : Copies(n)' <= Copies(n) /\ Copies(n)' \in Nat
  BY <1>1, <1>2, FewerAsked, FewerMade
<1>3. CASE Server
  <2>1. AttemptsGrow
    BY <1>1, <1>3, ServerTypes, FormStays
  <2>2. \A n \in Forms : Copies(n)' <= Copies(n) /\ Copies(n)' \in Nat
    <3>1. CASE Add \/ Update \/ Delete
      <4>1. up' = up /\ \A n \in Forms : Made(n)' \subseteq Made(n)
        BY <3>1, AddDb, UpdateDb, DeleteDb DEF Broadcast, pageVars
      <4> QED
        BY <1>2, <4>1 DEF AskedSame
    <3>2. CASE ServeGet \/ ServeList
      <4>1. up # <<>> /\ up' = Tail(up) /\ UNCHANGED dbVars
        BY <3>2 DEF ServeGet, ServeList, Serves
      <4>2. \A n \in Forms : Made(n)' \subseteq Made(n)
        BY <1>1, <4>1, DbStays
      <4> QED
        BY <1>2, <4>1, <4>2 DEF AskedSame
    <3>3. CASE ServeAdd
      BY <3>3, AttemptServed
    <3>4. CASE ServeDelete
      <4>1. up # <<>> /\ up' = Tail(up) /\ \A n \in Forms : Made(n)' \subseteq Made(n)
        BY <3>4, ServeDeleteDb
      <4> QED
        BY <1>2, <4>1 DEF AskedSame
    <3> QED
      BY <1>3, <3>1, <3>2, <3>3, <3>4 DEF Server
  <2> QED
    BY <1>1, <2>1, <2>2, FormsKept
<1>4. ASSUME Page, ~Submit PROVE FormsInv'
  <2>1. \A n \in Forms : Made(n)' \subseteq Made(n)
    BY <1>1, <1>4, PageTypes, DbStays
  <2>2. [kind |-> "get"].kind = "get" /\ [kind |-> "list"].kind = "list"
    OBVIOUS
  <2>3. AskedSame
    <3>1. CASE up' = Load(up)
      BY <3>1, <2>2, Frames DEF AskedSame, Load
    <3>2. CASE up' = Append(up, [kind |-> "list"])
      BY <3>2, <2>2, Frames DEF AskedSame
    <3>3. CASE AskDelete
      <4>1. PICK i \in view.listed : up' = Append(up, [kind |-> "delete", id |-> i])
        BY <3>3 DEF AskDelete
      <4>2. i \in Ids
        BY <1>1 DEF PageOK
      <4>3. [kind |-> "delete", id |-> i] \in UpFrames
        BY <4>2 DEF UpFrames
      <4>4. [kind |-> "delete", id |-> i].kind # "add"
        OBVIOUS
      <4> QED
        BY <4>1, <4>3, <4>4, Zenon DEF AskedSame
    <3>4. CASE up' = up \/ up' = <<>>
      BY <3>4 DEF AskedSame
    <3> QED
      BY <1>4, <3>1, <3>2, <3>3, <3>4
      DEF Page, Refresh, OnChanged, OnGot, OnListed, OnDeleted, DeleteTimer, OnRefused, OpenForm, CloseForm,
          SubmitTimeout, OnAdded, Disconnect, Reconnect
  <2>4. AttemptsGrow
    <3>1. CASE OpenForm
      BY <1>1, <3>1, FormOpens
    <3>2. CASE form' = [form EXCEPT !.at = "closed"] /\ UNCHANGED failed
      BY <1>1, <3>2, FormCloses
    <3>3. CASE form.at = "submitting" /\ AttemptFails
      BY <1>1, <3>3, AttemptFailed
    <3>4. CASE UNCHANGED <<form, failed>>
      BY <1>1, <3>4, FormStays
    <3> QED
      BY <1>4, <3>1, <3>2, <3>3, <3>4
      DEF Page, Refresh, OnChanged, OnGot, OnListed, AskDelete, OnDeleted, DeleteTimer, OnRefused, CloseForm,
          SubmitTimeout, OnAdded, Disconnect, Reconnect
  <2> QED
    BY <1>1, <1>2, <2>1, <2>3, <2>4, FormsKept
<1> QED
  BY <1>3, <1>4, AttemptMade DEF Next

-----------------------------------------------------------------------------
(* What the page is told.  The i-th of the new frames stems from an old    *)
(* one if what was behind that one is behind it.                           *)
Stems(old, new, i) == \E j \in DOMAIN old : old[j] = new[i] /\ \A kind : Behind(old, j, kind) => Behind(new, i, kind)

LEMMA FramesSame ==
    ASSUME NEW frames PROVE \A i \in DOMAIN frames : Stems(frames, frames, i)
BY DEF Stems

LEMMA FrameTaken ==
    ASSUME NEW S, NEW old \in Seq(S), old # <<>>, NEW new, new = Tail(old)
    PROVE  /\ 1 \in DOMAIN old /\ old[1] = Head(old)
           /\ \A i \in DOMAIN new : Stems(old, new, i)
           /\ \A kind : Under(old, kind) => Head(old).kind = kind \/ Under(new, kind)
           /\ \A kind : Behind(old, 1, kind) => Under(new, kind)
<1>1. /\ Len(old) \in Nat \ {0} /\ DOMAIN old = 1..Len(old) /\ DOMAIN new = 1..(Len(old) - 1)
      /\ \A i \in 1..(Len(old) - 1) : new[i] = old[i + 1]
      /\ Head(old) = old[1]
  OBVIOUS
<1>2. \A j \in DOMAIN old : j = 1 \/ (j - 1 \in DOMAIN new /\ new[j - 1] = old[j])
  BY <1>1
<1>3. ASSUME NEW i \in DOMAIN new PROVE Stems(old, new, i)
  <2>1. i + 1 \in DOMAIN old /\ old[i + 1] = new[i]
    BY <1>1
  <2>2. ASSUME NEW kind, Behind(old, i + 1, kind) PROVE Behind(new, i, kind)
    <3>1. PICK j \in DOMAIN old : j > i + 1 /\ old[j].kind = kind
      BY <2>2 DEF Behind
    <3>2. j - 1 \in DOMAIN new /\ j - 1 > i /\ new[j - 1] = old[j]
      BY <1>1, <3>1
    <3> QED
      BY <3>1, <3>2 DEF Behind
  <2> QED
    BY <2>1, <2>2 DEF Stems
<1>4. \A kind : Under(old, kind) => Head(old).kind = kind \/ Under(new, kind)
  BY <1>1, <1>2 DEF Under
<1>5. ASSUME NEW kind, Behind(old, 1, kind) PROVE Under(new, kind)
  <2>1. PICK j \in DOMAIN old : j > 1 /\ old[j].kind = kind
    BY <1>5 DEF Behind
  <2>2. j - 1 \in DOMAIN new /\ new[j - 1] = old[j]
    BY <1>1, <2>1
  <2> QED
    BY <2>1, <2>2 DEF Under
<1> QED
  BY <1>1, <1>3, <1>4, <1>5

LEMMA FrameSent ==
    ASSUME NEW S, NEW old \in Seq(S), NEW f \in S, NEW new, new = Append(old, f)
    PROVE  /\ \A i \in DOMAIN new : new[i] = f \/ (Stems(old, new, i) /\ Behind(new, i, f.kind))
           /\ \A kind : Under(old, kind) => Under(new, kind)
           /\ Under(new, f.kind)
<1>1. /\ Len(old) \in Nat /\ DOMAIN old = 1..Len(old) /\ DOMAIN new = 1..(Len(old) + 1)
      /\ \A i \in 1..Len(old) : new[i] = old[i]
      /\ new[Len(old) + 1] = f
  OBVIOUS
<1>2. \A i \in DOMAIN old : i \in DOMAIN new /\ new[i] = old[i] /\ i < Len(old) + 1
  BY <1>1
<1>3. Len(old) + 1 \in DOMAIN new
  BY <1>1
<1>4. ASSUME NEW i \in DOMAIN new, new[i] # f PROVE Stems(old, new, i) /\ Behind(new, i, f.kind)
  <2>1. i \in DOMAIN old /\ i < Len(old) + 1
    BY <1>1, <1>4
  <2>2. Behind(new, i, f.kind)
    BY <1>1, <1>3, <2>1 DEF Behind
  <2>3. \A kind : Behind(old, i, kind) => Behind(new, i, kind)
    BY <1>2 DEF Behind
  <2> QED
    BY <1>2, <2>1, <2>2, <2>3 DEF Stems
<1>5. \A kind : Under(old, kind) => Under(new, kind)
  BY <1>2 DEF Under
<1>6. Under(new, f.kind)
  BY <1>1, <1>3 DEF Under
<1> QED
  BY <1>4, <1>5, <1>6

LEMMA PagePrimed ==
    /\ Loading' <=> Under(up', "get") \/ Under(down', "changed")
    /\ FramesTrue' <=> \A i \in DOMAIN down' :
          \/ Behind(down', i, "changed")
          \/ /\ down'[i].kind = "got" => down'[i].held = holdings'[Newest] /\ down'[i].recent = Recent'
             /\ down'[i].kind = "listed" => down'[i].listed = Latest(Newest, ListLimit)'
    /\ ListsAsked' <=> (Full' => \A i \in DOMAIN up' : up'[i].kind = "list" =>
                                    Under(down', "changed") \/ Behind(up', i, "get"))
    /\ ListsReplaced' <=> (Full' => \A i \in DOMAIN down' : down'[i].kind = "listed" =>
                                       Loading' \/ Behind(down', i, "got"))
    /\ ViewHolds' <=> (current' => Loading' \/ Under(down', "got") \/ view'.held = holdings'[Newest])
    /\ ViewLists' <=> (current' => \/ Loading' \/ Under(down', "got")
                                   \/ ~Full' /\ (Under(up', "list") \/ Under(down', "listed"))
                                   \/ view'.listed = Target')
BY DEF Loading, FramesTrue, Tells, ListsAsked, ListsReplaced, ViewHolds, ViewLists, Under, Behind, Recent, Target, Full, Latest, Live

LEMMA DbSame ==
    ASSUME LedgerInv, UNCHANGED dbVars
    PROVE  /\ holdings' = holdings /\ torn' = torn /\ Recent' = Recent /\ Target' = Target
           /\ Latest(Newest, ListLimit)' = Latest(Newest, ListLimit) /\ (Full' <=> Full)
<1>1. \A p, n : Latest(p, n)' = Latest(p, n)
  BY DbStays DEF LedgerInv
<1>2. Recent' = Recent /\ Latest(Newest, ListLimit)' = Latest(Newest, ListLimit) /\ Latest(Newest, RecentLimit)' = Latest(Newest, RecentLimit)
  BY <1>1 DEF Recent
<1> QED
  BY <1>2 DEF Full, Target, dbVars

\* A notification is the last thing that the page is told, but for answers that show nothing.
Notifies(frames) == /\ Under(frames, "changed")
                    /\ \A i \in DOMAIN frames : frames[i].kind \in {"got", "listed"} => Behind(frames, i, "changed")

LEMMA Notified ==
    ASSUME Notifies(down')
    PROVE  PageInv'
<1>1. Loading' /\ Under(down', "changed")
  BY PagePrimed DEF Notifies
<1>2. FramesTrue'
  BY PagePrimed DEF Notifies
<1>3. ListsAsked' /\ ListsReplaced' /\ ViewHolds' /\ ViewLists'
  BY <1>1, PagePrimed
<1> QED
  BY <1>2, <1>3 DEF PageInv

LEMMA Notifying ==
    ASSUME NEW old \in Seq(DownFrames), NEW frames, frames = Append(old, [kind |-> "changed"])
    PROVE  Notifies(frames)
<1> DEFINE f == [kind |-> "changed"]
<1>1. f \in DownFrames /\ f.kind = "changed"
  BY Frames
<1> HIDE DEF f
<1>2. frames = Append(old, f)
  BY DEF f
<1>3. Under(frames, "changed") /\ \A i \in DOMAIN frames : frames[i] = f \/ Behind(frames, i, "changed")
  <2>1. Under(frames, f.kind) /\ \A i \in DOMAIN frames : frames[i] = f \/ Behind(frames, i, f.kind)
    BY <1>1, <1>2, FrameSent, Zenon
  <2> QED
    BY <1>1, <2>1, Zenon
<1>4. ASSUME NEW i \in DOMAIN frames
      PROVE  frames[i].kind \in {"got", "listed"} => Behind(frames, i, "changed")
  <2>1. frames[i] = f \/ Behind(frames, i, "changed")
    BY <1>3, Zenon
  <2>2. f.kind \notin {"got", "listed"}
    BY DEF f
  <2> QED
    BY <2>1, <2>2, Zenon
<1> QED
  BY <1>3, <1>4, Zenon DEF Notifies

LEMMA NotifyingFirst ==
    ASSUME NEW old \in Seq(DownFrames), Notifies(old), NEW f \in DownFrames, f.kind \notin {"got", "listed"},
           NEW frames, frames = Append(old, f)
    PROVE  Notifies(frames)
<1>1. /\ \A i \in DOMAIN frames : frames[i] = f \/ Stems(old, frames, i)
      /\ \A kind : Under(old, kind) => Under(frames, kind)
  BY FrameSent
<1> QED
  BY <1>1 DEF Notifies, Stems

LEMMA Silent ==
    ASSUME up' = <<>>, down' = <<>>, ~current'
    PROVE  PageInv'
<1>1. DOMAIN up' = {} /\ DOMAIN down' = {}
  OBVIOUS
<1>2. FramesTrue' /\ ListsAsked' /\ ListsReplaced'
  BY <1>1, PagePrimed
<1>3. ViewHolds' /\ ViewLists'
  BY PagePrimed
<1> QED
  BY <1>2, <1>3 DEF PageInv

\* The parts that only need what was under way to be so still.
LEMMA FramesStayTrue ==
    ASSUME LedgerInv, torn = {}, UNCHANGED dbVars, \A i \in DOMAIN down' : Stems(down, down', i) \/ down'[i].kind \notin {"got", "listed"}
    PROVE  FramesTrue'
<1>1. FramesTrue
  BY DEF LedgerInv, PageInv
<1>2. holdings' = holdings /\ Recent' = Recent /\ Latest(Newest, ListLimit)' = Latest(Newest, ListLimit)
  BY DbSame
<1> QED
  BY <1>1, <1>2, PagePrimed DEF FramesTrue, Tells, Stems

LEMMA ListsStayAsked ==
    ASSUME LedgerInv, torn = {}, UNCHANGED dbVars, Under(down, "changed") => Under(down', "changed"),
           \A i \in DOMAIN up' : Stems(up, up', i) \/ up'[i].kind # "list"
    PROVE  ListsAsked'
<1>1. ListsAsked
  BY DEF LedgerInv, PageInv
<1> QED
  BY <1>1, DbSame, PagePrimed DEF ListsAsked, Stems

LEMMA ListsStayReplaced ==
    ASSUME LedgerInv, torn = {}, UNCHANGED dbVars, Loading => Loading',
           \A i \in DOMAIN down' : Stems(down, down', i) \/ down'[i].kind # "listed"
    PROVE  ListsReplaced'
<1>1. ListsReplaced
  BY DEF LedgerInv, PageInv
<1> QED
  BY <1>1, DbSame, PagePrimed DEF ListsReplaced, Stems

LEMMA GetSent ==
    ASSUME NEW old \in Seq(UpFrames), NEW new, new = Load(old)
    PROVE  Under(new, "get") /\ \A i \in DOMAIN new : new[i].kind = "get" \/ Behind(new, i, "get")
<1> DEFINE f == [kind |-> "get"]
<1>1. f \in UpFrames /\ f.kind = "get"
  BY Frames
<1>2. new = Append(old, f)
  BY DEF Load
<1> HIDE DEF f
<1>3. Under(new, "get") /\ \A i \in DOMAIN new : new[i] = f \/ Behind(new, i, "get")
  <2>1. Under(new, f.kind) /\ \A i \in DOMAIN new : new[i] = f \/ Behind(new, i, f.kind)
    BY <1>1, <1>2, FrameSent, Zenon
  <2> QED
    BY <1>1, <2>1, Zenon
<1>4. ASSUME NEW i \in DOMAIN new
      PROVE  new[i].kind = "get" \/ Behind(new, i, "get")
  BY <1>1, <1>3, Zenon
<1> QED
  BY <1>3, <1>4, Zenon

\* load() is called, whatever else is done.
LEMMA Loads ==
    ASSUME LedgerInv, torn = {}, UNCHANGED dbVars, up' = Load(up),
           down' = down \/ (down # <<>> /\ down' = Tail(down))
    PROVE  PageInv'
<1>1. up \in Seq(UpFrames) /\ down \in Seq(DownFrames)
  BY DEF LedgerInv, PageOK
<1>3. Under(up', "get") /\ \A i \in DOMAIN up' : up'[i].kind = "get" \/ Behind(up', i, "get")
  BY <1>1, GetSent
<1>4. Loading' /\ ListsAsked'
  BY <1>3, PagePrimed
<1>5. \A i \in DOMAIN down' : Stems(down, down', i)
  <2>1. CASE down' = down
    BY <2>1 DEF Stems
  <2>2. CASE down # <<>> /\ down' = Tail(down)
    BY <1>1, <2>2, FrameTaken
  <2> QED
    BY <2>1, <2>2
<1>6. FramesTrue'
  BY <1>5, FramesStayTrue
<1> QED
  BY <1>4, <1>6, PagePrimed DEF PageInv

\* Frames that tell the page nothing come and go.
Kinds == {"get", "list", "changed", "got", "listed"}
Carried(old, new) == /\ \A kind \in Kinds : Under(old, kind) => Under(new, kind)
                     /\ \A i \in DOMAIN new : Stems(old, new, i) \/ new[i].kind \notin Kinds

LEMMA Carries ==
    ASSUME NEW S, NEW old \in Seq(S), NEW new,
           \/ new = old
           \/ old # <<>> /\ new = Tail(old) /\ Head(old).kind \notin Kinds
           \/ \E f \in S : new = Append(old, f) /\ f.kind \notin Kinds
    PROVE  Carried(old, new)
<1>1. CASE new = old
  BY <1>1, FramesSame DEF Carried
<1>2. CASE old # <<>> /\ new = Tail(old) /\ Head(old).kind \notin Kinds
  <2>1. /\ \A i \in DOMAIN new : Stems(old, new, i)
        /\ \A kind : Under(old, kind) => Head(old).kind = kind \/ Under(new, kind)
    BY <1>2, FrameTaken
  <2> QED
    BY <1>2, <2>1 DEF Carried
<1>3. CASE \E f \in S : new = Append(old, f) /\ f.kind \notin Kinds
  <2>1. PICK f \in S : new = Append(old, f) /\ f.kind \notin Kinds
    BY <1>3
  <2>2. /\ \A i \in DOMAIN new : new[i] = f \/ Stems(old, new, i)
        /\ \A kind : Under(old, kind) => Under(new, kind)
    BY <2>1, FrameSent
  <2> QED
    BY <2>1, <2>2 DEF Carried
<1> QED
  BY <1>1, <1>2, <1>3

LEMMA NothingTold ==
    ASSUME LedgerInv, torn = {}, UNCHANGED dbVars, Carried(up, up'), Carried(down, down'),
           current' = current, view'.held = view.held, view'.listed = view.listed
    PROVE  PageInv'
<1>1. /\ \A kind \in Kinds : Under(up, kind) => Under(up', kind)
      /\ \A kind \in Kinds : Under(down, kind) => Under(down', kind)
  BY DEF Carried
<1>2. /\ Under(up, "get") => Under(up', "get")
      /\ Under(up, "list") => Under(up', "list")
      /\ Under(down, "changed") => Under(down', "changed")
      /\ Under(down, "got") => Under(down', "got")
      /\ Under(down, "listed") => Under(down', "listed")
  BY <1>1 DEF Kinds
<1>3. /\ \A i \in DOMAIN up' : Stems(up, up', i) \/ up'[i].kind # "list"
      /\ \A i \in DOMAIN down' : Stems(down, down', i) \/ down'[i].kind \notin {"got", "listed"}
      /\ \A i \in DOMAIN down' : Stems(down, down', i) \/ down'[i].kind # "listed"
  BY DEF Carried, Kinds
<1>4. Loading => Loading'
  BY <1>2, PagePrimed DEF Loading
<1>5. FramesTrue'
  BY <1>3, FramesStayTrue
<1>6. ListsAsked'
  BY <1>2, <1>3, ListsStayAsked
<1>7. ListsReplaced'
  BY <1>3, <1>4, ListsStayReplaced
<1>8. ViewHolds /\ ViewLists
  BY DEF LedgerInv, PageInv
<1>9. ViewHolds' /\ ViewLists'
  BY <1>2, <1>4, <1>8, DbSame, PagePrimed DEF ViewHolds, ViewLists
<1> QED
  BY <1>5, <1>6, <1>7, <1>9 DEF PageInv

\* A snapshot is taken.
LEMMA GetServed ==
    ASSUME LedgerInv, torn = {}, ServeGet
    PROVE  PageInv'
<1> DEFINE f == [kind |-> "got", held |-> holdings[Newest], recent |-> Latest(Newest, RecentLimit)]
<1>1. /\ up # <<>> /\ Head(up).kind = "get" /\ up' = Tail(up) /\ down' = Append(down, f)
      /\ UNCHANGED dbVars /\ UNCHANGED <<current, view>>
  BY DEF ServeGet, Serves, Reply
<1>2. up \in Seq(UpFrames) /\ down \in Seq(DownFrames) /\ DbOK
  BY DEF LedgerInv, PageOK
<1>3. f \in DownFrames
  BY <1>2, LatestTyped, Numbers DEF DbOK, DownFrames
<1>4. f.kind = "got" /\ f.held = holdings[Newest] /\ f.recent = Recent
  BY DEF Recent
<1> HIDE DEF f
<1>5. /\ \A i \in DOMAIN down' : down'[i] = f \/ (Stems(down, down', i) /\ Behind(down', i, "got"))
      /\ \A kind : Under(down, kind) => Under(down', kind)
      /\ Under(down', "got")
  <2>1. /\ \A i \in DOMAIN down' : down'[i] = f \/ (Stems(down, down', i) /\ Behind(down', i, f.kind))
        /\ \A kind : Under(down, kind) => Under(down', kind)
        /\ Under(down', f.kind)
    BY <1>1, <1>2, <1>3, FrameSent
  <2> QED
    BY <1>4, <2>1
<1>6. \A i \in DOMAIN up' : Stems(up, up', i)
  BY <1>1, <1>2, FrameTaken
<1>7. FramesTrue'
  <2>1. FramesTrue
    BY DEF LedgerInv, PageInv
  <2>2. holdings' = holdings /\ Recent' = Recent /\ Latest(Newest, ListLimit)' = Latest(Newest, ListLimit)
    BY <1>1, DbSame
  <2> QED
    BY <1>4, <1>5, <2>1, <2>2, PagePrimed DEF FramesTrue, Tells, Stems
<1>8. ListsAsked'
  BY <1>1, <1>5, <1>6, ListsStayAsked
<1>9. ListsReplaced' /\ ViewHolds' /\ ViewLists'
  BY <1>4, <1>5, PagePrimed
<1> QED
  BY <1>7, <1>8, <1>9 DEF PageInv

\* A list is taken.
LEMMA ListServed ==
    ASSUME LedgerInv, torn = {}, ServeList
    PROVE  PageInv'
<1> DEFINE f == [kind |-> "listed", listed |-> Latest(Newest, ListLimit)]
<1>1. /\ up # <<>> /\ Head(up).kind = "list" /\ up' = Tail(up) /\ down' = Append(down, f)
      /\ UNCHANGED dbVars /\ current' = current /\ view' = view
  BY DEF ServeList, Serves, Reply
<1>2. up \in Seq(UpFrames) /\ down \in Seq(DownFrames) /\ DbOK
  BY DEF LedgerInv, PageOK
<1>3. f \in DownFrames
  BY LatestTyped DEF DownFrames
<1>4. f.kind = "listed" /\ f.listed = Latest(Newest, ListLimit)
  OBVIOUS
<1> HIDE DEF f
<1>5. /\ \A i \in DOMAIN down' : down'[i] = f \/ Stems(down, down', i)
      /\ \A kind : Under(down, kind) => Under(down', kind)
      /\ Under(down', "listed")
  BY <1>1, <1>2, <1>3, <1>4, FrameSent
<1>6. /\ 1 \in DOMAIN up /\ up[1] = Head(up) /\ \A i \in DOMAIN up' : Stems(up, up', i)
      /\ \A kind : Under(up, kind) => Head(up).kind = kind \/ Under(up', kind)
      /\ \A kind : Behind(up, 1, kind) => Under(up', kind)
  BY <1>1, <1>2, FrameTaken
<1>7. FramesTrue /\ ListsAsked /\ ListsReplaced /\ ViewHolds /\ ViewLists
  BY DEF LedgerInv, PageInv
<1>8. /\ holdings' = holdings /\ Recent' = Recent /\ Latest(Newest, ListLimit)' = Latest(Newest, ListLimit)
      /\ (Full' <=> Full) /\ Target' = Target
  BY <1>1, DbSame
<1>9. FramesTrue'
  BY <1>4, <1>5, <1>7, <1>8, PagePrimed DEF FramesTrue, Tells, Stems
<1>10. ListsAsked'
  BY <1>1, <1>5, <1>6, ListsStayAsked
<1>11. Loading => Loading'
  BY <1>1, <1>5, <1>6, PagePrimed DEF Loading
<1>12. Full => Loading'
  BY <1>1, <1>5, <1>6, <1>7, PagePrimed DEF ListsAsked
<1>13. ListsReplaced'
  BY <1>8, <1>12, PagePrimed
<1>14. ViewHolds'
  BY <1>1, <1>5, <1>7, <1>8, <1>11, PagePrimed DEF ViewHolds
<1>15. ViewLists'
  BY <1>1, <1>5, <1>7, <1>8, <1>11, <1>12, PagePrimed DEF ViewLists
<1> QED
  BY <1>9, <1>10, <1>13, <1>14, <1>15 DEF PageInv

LEMMA ListSent ==
    ASSUME NEW old \in Seq(UpFrames), NEW new, new = Append(old, [kind |-> "list"])
    PROVE  /\ Under(new, "list") /\ \A kind : Under(old, kind) => Under(new, kind)
           /\ \A i \in DOMAIN new : Stems(old, new, i) \/ new[i].kind = "list"
<1> DEFINE f == [kind |-> "list"]
<1>1. f \in UpFrames /\ f.kind = "list"
  BY Frames
<1>2. new = Append(old, f)
  OBVIOUS
<1> HIDE DEF f
<1>3. /\ \A i \in DOMAIN new : new[i] = f \/ Stems(old, new, i)
      /\ \A kind : Under(old, kind) => Under(new, kind)
      /\ Under(new, f.kind)
  BY <1>1, <1>2, FrameSent
<1> QED
  BY <1>1, <1>3

\* A snapshot is shown.  It is what is stored, or a notification is behind it.
LEMMA GotShown ==
    ASSUME LedgerInv, torn = {}, OnGot
    PROVE  PageInv'
<1> DEFINE a == Head(down)
           full == Cardinality(a.recent) >= RecentLimit
<1>1. /\ down # <<>> /\ a.kind = "got" /\ down' = Tail(down)
      /\ view' = [view EXCEPT !.held = a.held, !.listed = IF full THEN a.recent ELSE @]
      /\ up' = (IF full THEN up ELSE Append(up, [kind |-> "list"]))
      /\ UNCHANGED dbVars /\ current' = current
  BY DEF OnGot, Gets
<1>2. /\ up \in Seq(UpFrames) /\ down \in Seq(DownFrames)
      /\ view \in [held : [Symbols -> Held], listed : SUBSET Ids, waiting : BOOLEAN]
  BY DEF LedgerInv, PageOK
<1>3. /\ 1 \in DOMAIN down /\ down[1] = a /\ \A i \in DOMAIN down' : Stems(down, down', i)
      /\ \A kind : Under(down, kind) => a.kind = kind \/ Under(down', kind)
      /\ \A kind : Behind(down, 1, kind) => Under(down', kind)
  BY <1>1, <1>2, FrameTaken
<1>4. /\ \A kind : Under(up, kind) => Under(up', kind)
      /\ \A i \in DOMAIN up' : Stems(up, up', i) \/ (up'[i].kind = "list" /\ ~full)
  <2>1. CASE full
    BY <1>1, <2>1, FramesSame
  <2>2. CASE ~full
    BY <1>1, <1>2, <2>2, ListSent
  <2> QED
    BY <2>1, <2>2
<1>5. ~full => Under(up', "list")
  BY <1>1, <1>2, ListSent
<1>6. view'.held = a.held /\ (full => view'.listed = a.recent)
  BY <1>1, <1>2
<1>7. FramesTrue /\ ListsAsked /\ ListsReplaced
  BY DEF LedgerInv, PageInv
<1>8. /\ holdings' = holdings /\ Recent' = Recent /\ Target' = Target /\ (Full' <=> Full)
  BY <1>1, DbSame
<1>9. Under(down', "changed") \/ (a.held = holdings[Newest] /\ a.recent = Recent)
  BY <1>1, <1>3, <1>7 DEF FramesTrue, Tells
<1>10. Under(down', "changed") \/ (full <=> Full)
  BY <1>9 DEF Full
<1> HIDE DEF full
<1>11. Under(down, "changed") => Under(down', "changed")
  BY <1>1, <1>3
<1>12. Loading => Loading'
  BY <1>4, <1>11, PagePrimed DEF Loading
<1>13. Under(down', "changed") => Loading'
  BY PagePrimed
<1>14. FramesTrue'
  BY <1>1, <1>3, FramesStayTrue
<1>15. ListsAsked'
  BY <1>4, <1>7, <1>8, <1>10, <1>11, PagePrimed DEF ListsAsked, Stems
<1>16. ListsReplaced'
  BY <1>1, <1>3, <1>12, ListsStayReplaced
<1>17. ViewHolds'
  BY <1>6, <1>8, <1>9, <1>13, PagePrimed
<1>18. ViewLists'
  <2>1. CASE Under(down', "changed")
    BY <1>13, <2>1, PagePrimed
  <2>2. CASE ~Under(down', "changed") /\ Full
    <3>1. view'.listed = Recent
      BY <1>6, <1>9, <1>10, <2>2
    <3>2. Target = Recent
      BY <2>2 DEF Target, Recent
    <3> QED
      BY <1>8, <3>1, <3>2, PagePrimed
  <2>3. CASE ~Under(down', "changed") /\ ~Full
    BY <1>5, <1>8, <1>10, <2>3, PagePrimed
  <2> QED
    BY <2>1, <2>2, <2>3
<1> QED
  BY <1>14, <1>15, <1>16, <1>17, <1>18 DEF PageInv

\* A list is shown.
LEMMA ListShown ==
    ASSUME LedgerInv, torn = {}, OnListed
    PROVE  PageInv'
<1> DEFINE a == Head(down)
<1>1. /\ down # <<>> /\ a.kind = "listed" /\ down' = Tail(down)
      /\ view' = [view EXCEPT !.listed = a.listed]
      /\ up' = up /\ UNCHANGED dbVars /\ current' = current
  BY DEF OnListed, Gets
<1>2. /\ up \in Seq(UpFrames) /\ down \in Seq(DownFrames)
      /\ view \in [held : [Symbols -> Held], listed : SUBSET Ids, waiting : BOOLEAN]
  BY DEF LedgerInv, PageOK
<1>3. /\ 1 \in DOMAIN down /\ down[1] = a /\ \A i \in DOMAIN down' : Stems(down, down', i)
      /\ \A kind : Under(down, kind) => a.kind = kind \/ Under(down', kind)
      /\ \A kind : Behind(down, 1, kind) => Under(down', kind)
  BY <1>1, <1>2, FrameTaken
<1>4. view'.held = view.held /\ view'.listed = a.listed
  BY <1>1, <1>2
<1>5. FramesTrue /\ ListsAsked /\ ListsReplaced /\ ViewHolds /\ ViewLists
  BY DEF LedgerInv, PageInv
<1>6. /\ holdings' = holdings /\ Target' = Target /\ (Full' <=> Full)
  BY <1>1, DbSame
<1>7. Under(down', "changed") \/ a.listed = Latest(Newest, ListLimit)
  BY <1>1, <1>3, <1>5 DEF FramesTrue, Tells
<1>8. \A kind : kind # "listed" /\ Under(down, kind) => Under(down', kind)
  BY <1>1, <1>3
<1>9. Loading => Loading'
  BY <1>1, <1>8, PagePrimed DEF Loading
<1>10. FramesTrue'
  BY <1>1, <1>3, FramesStayTrue
<1>11. ListsAsked'
  BY <1>1, <1>8, FramesSame, ListsStayAsked
<1>12. ListsReplaced'
  BY <1>1, <1>3, <1>9, ListsStayReplaced
<1>13. ViewHolds'
  BY <1>1, <1>4, <1>5, <1>6, <1>8, <1>9, PagePrimed DEF ViewHolds
<1>14. ViewLists'
  <2>1. CASE Under(down', "changed")
    BY <2>1, PagePrimed
  <2>2. CASE Full
    <3>1. Loading' \/ Under(down', "got")
      BY <1>1, <1>3, <1>5, <1>9, <2>2 DEF ListsReplaced
    <3> QED
      BY <3>1, PagePrimed
  <2>3. CASE ~Under(down', "changed") /\ ~Full
    <3>1. view'.listed = Target
      BY <1>4, <1>7, <2>3 DEF Target
    <3> QED
      BY <1>6, <3>1, PagePrimed
  <2> QED
    BY <2>1, <2>2, <2>3
<1> QED
  BY <1>10, <1>11, <1>12, <1>13, <1>14 DEF PageInv

\* Every change of the database that is not torn is notified.
LEMMA ServerTells ==
    ASSUME LedgerInv, Server
    PROVE  PageInv'
<1>1. up \in Seq(UpFrames) /\ down \in Seq(DownFrames) /\ Offline /\ DbOK /\ PageInv
  BY DEF LedgerInv, PageOK
<1>2. CASE torn' # {}
  BY <1>2 DEF PageInv
<1>3. online => Changed \in Seq(DownFrames) /\ Notifies(Changed)
  BY <1>1, ChangedTyped, Notifying DEF Changed
<1>4. CASE Add \/ Update \/ Delete
  <2>1. CASE Broadcast
    <3>1. down' = Changed /\ up' = up /\ current' = current
      BY <2>1 DEF Broadcast
    <3>2. CASE online
      BY <1>3, <3>1, <3>2, Notified
    <3>3. CASE ~online
      <4>1. up' = <<>> /\ down' = <<>> /\ ~current'
        BY <1>1, <3>1, <3>3 DEF Offline, Changed
      <4> QED
        BY <4>1, Silent
    <3> QED
      BY <3>2, <3>3
  <2> QED
    BY <1>2, <1>4, <2>1, AddDb, UpdateDb, DeleteDb
<1>5. up # <<>> => online
  BY <1>1 DEF Offline
<1>6. ASSUME NEW f \in DownFrames, f.kind \notin {"got", "listed"}, down' = Append(Changed, f), up # <<>>
      PROVE  PageInv'
  BY <1>3, <1>5, <1>6, NotifyingFirst, Notified
<1>7. CASE ServeAdd
  <2>1. up # <<>> /\ Head(up) \in UpFrames /\ Head(up).kind = "add"
    BY <1>7, ServeAddDb
  <2>2. Answer(TRUE) \in DownFrames
    BY <2>1, UpKinds DEF Answer, DownFrames
  <2>3. Answer(TRUE).kind = "added"
    BY DEF Answer
  <2>4. down' = Append(Changed, Answer(TRUE)) \/ torn' # {}
    BY <1>7, ServeAddDb
  <2> QED
    BY <1>2, <1>6, <2>1, <2>2, <2>3, <2>4
<1>8. CASE ServeDelete
  <2> DEFINE deleted == [kind |-> "deleted"]
             refused == [kind |-> "refused"]
  <2>1. deleted \in DownFrames /\ deleted.kind = "deleted" /\ refused \in DownFrames /\ refused.kind = "refused"
    BY Frames
  <2>2. /\ up # <<>> /\ Head(up).kind = "delete" /\ up' = Tail(up)
        /\ \/ UNCHANGED dbVars /\ down' = Append(down, refused)
           \/ down' = Append(Changed, deleted)
           \/ torn' # {}
        /\ UNCHANGED <<online, view, current, form, failed>>
    BY <1>8, ServeDeleteDb
  <2> HIDE DEF deleted, refused
  <2>3. CASE UNCHANGED dbVars /\ down' = Append(down, refused) /\ torn = {}
    <3>1. Carried(up, up')
      BY <1>1, <2>2, Carries DEF Kinds
    <3>2. Carried(down, down')
      BY <1>1, <2>1, <2>3, Carries DEF Kinds
    <3> QED
      BY <2>2, <2>3, <3>1, <3>2, NothingTold
  <2>4. CASE down' = Append(Changed, deleted)
    BY <1>6, <2>1, <2>2, <2>4
  <2>5. UNCHANGED dbVars => torn' = torn
    BY DEF dbVars
  <2> QED
    BY <1>2, <2>2, <2>3, <2>4, <2>5
<1>9. CASE ServeGet \/ ServeList
  <2>1. torn' = torn
    BY <1>9 DEF ServeGet, ServeList, dbVars
  <2> QED
    BY <1>2, <1>9, <2>1, GetServed, ListServed
<1> QED
  BY <1>4, <1>7, <1>8, <1>9 DEF Server

\* The page loads again, or shows what it is told.
LEMMA PageShows ==
    ASSUME LedgerInv, Page
    PROVE  PageInv'
<1>1. UNCHANGED dbVars /\ torn' = torn
  BY PageTypes DEF dbVars
<1>2. SUFFICES ASSUME torn = {} PROVE PageInv'
  BY <1>1 DEF PageInv
<1>3. /\ up \in Seq(UpFrames) /\ down \in Seq(DownFrames) /\ Offline
      /\ view \in [held : [Symbols -> Held], listed : SUBSET Ids, waiting : BOOLEAN] /\ form.number \in 0..MaxForms
  BY DEF LedgerInv, PageOK, FormStates
<1>4. CASE up' = Load(up) /\ (down' = down \/ (down # <<>> /\ down' = Tail(down)))
  BY <1>1, <1>2, <1>4, Loads
<1>5. ASSUME NEW w \in BOOLEAN, view' = [view EXCEPT !.waiting = w]
      PROVE  view'.held = view.held /\ view'.listed = view.listed
  BY <1>3, <1>5
<1>6. ASSUME Carried(up, up'), Carried(down, down'), current' = current, view'.held = view.held, view'.listed = view.listed
      PROVE  PageInv'
  BY <1>1, <1>2, <1>6, NothingTold
<1>7. Carried(up, up) /\ Carried(down, down)
  BY <1>3, Carries
<1>8. (down # <<>> /\ down' = Tail(down) /\ Head(down).kind \notin Kinds) => Carried(down, down')
  BY <1>3, Carries
<1>9. CASE Refresh \/ OnChanged
  BY <1>4, <1>9 DEF Refresh, OnChanged, Gets
<1>10. CASE OnGot \/ OnListed
  BY <1>2, <1>10, GotShown, ListShown
<1>11. CASE AskDelete
  <2>1. PICK i \in view.listed : up' = Append(up, [kind |-> "delete", id |-> i])
    BY <1>11 DEF AskDelete
  <2> DEFINE f == [kind |-> "delete", id |-> i]
  <2>2. f \in UpFrames /\ f.kind = "delete"
    BY <1>3 DEF UpFrames
  <2> HIDE DEF f
  <2>3. Carried(up, up')
    BY <1>3, <2>1, <2>2, Carries DEF Kinds, f
  <2> QED
    BY <1>6, <1>7, <1>11, <2>3 DEF AskDelete
<1>12. CASE OnDeleted
  <2>1. view'.held = view.held /\ view'.listed = view.listed
    BY <1>5, <1>12 DEF OnDeleted
  <2>2. Carried(down, down')
    BY <1>8, <1>12 DEF OnDeleted, Gets, Kinds
  <2> QED
    BY <1>6, <1>7, <1>12, <2>1, <2>2 DEF OnDeleted
<1>13. CASE DeleteTimer
  <2>1. CASE online
    BY <1>4, <1>13, <2>1 DEF DeleteTimer
  <2>2. CASE ~online
    <3>1. up' = <<>> /\ down' = <<>> /\ ~current'
      BY <1>3, <1>13, <2>2 DEF DeleteTimer, Offline
    <3> QED
      BY <3>1, Silent
  <2> QED
    BY <2>1, <2>2
<1>14. CASE OnRefused
  <2>1. Carried(down, down')
    BY <1>8, <1>14 DEF OnRefused, Gets, Kinds
  <2> QED
    BY <1>6, <1>7, <1>14, <2>1 DEF OnRefused
<1>15. CASE OpenForm \/ CloseForm \/ SubmitTimeout \/ Reconnect
  BY <1>6, <1>7, <1>15 DEF OpenForm, CloseForm, SubmitTimeout, Reconnect
<1>16. CASE Submit
  <2>1. form.number \in Forms /\ form.attempt + 1 \in 0..MaxAttempts
    BY <1>16, Numbers DEF LedgerInv, PageOK, FormStates, Submit, MaySubmit
  <2>2. PICK entry \in Added : up' = Append(up, [kind |-> "add", number |-> form.number,
                                                 attempt |-> form.attempt + 1, entry |-> entry])
    BY <1>16 DEF Submit
  <2> DEFINE f == [kind |-> "add", number |-> form.number, attempt |-> form.attempt + 1, entry |-> entry]
  <2>3. f \in UpFrames /\ f.kind = "add"
    BY <2>1 DEF UpFrames
  <2> HIDE DEF f
  <2>4. Carried(up, up')
    BY <1>3, <2>2, <2>3, Carries DEF Kinds, f
  <2> QED
    BY <1>6, <1>7, <1>16, <2>4 DEF Submit
<1>17. CASE OnAdded
  <2>1. /\ down # <<>> /\ Head(down).kind = "added" /\ down' = Tail(down) /\ view' = view
        /\ \/ up' = up /\ current' = current
           \/ up' = Load(up)
    BY <1>17 DEF OnAdded, Gets
  <2>2. Carried(down, down')
    BY <1>8, <2>1 DEF Kinds
  <2> QED
    BY <1>4, <1>6, <1>7, <2>1, <2>2
<1>18. CASE Disconnect
  <2>1. up' = <<>> /\ down' = <<>> /\ ~current'
    BY <1>18 DEF Disconnect
  <2> QED
    BY <2>1, Silent
<1> QED
  BY <1>9, <1>10, <1>11, <1>12, <1>13, <1>14, <1>15, <1>16, <1>17, <1>18 DEF Page

-----------------------------------------------------------------------------
(* The invariant, and what follows from it.                                *)

LEMMA LedgerStep ==
    ASSUME LedgerInv, [Next]_vars
    PROVE  LedgerInv'
<1>1. CASE Server
  <2>1. PageOK' /\ Offline' /\ FormsInv' /\ PageInv'
    BY <1>1, ServerTypes, FormsStep, ServerTells DEF Next
  <2>2. DbOK' /\ Derived'
    <3>1. CASE ServeGet \/ ServeList
      BY <3>1, DbStays DEF LedgerInv, ServeGet, ServeList
    <3> QED
      BY <1>1, <3>1, AddDb, UpdateDb, DeleteDb, ServeAddDb, ServeDeleteDb DEF Server
  <2> QED
    BY <2>1, <2>2 DEF LedgerInv
<1>2. CASE Page
  <2>1. PageOK' /\ Offline' /\ FormsInv' /\ PageInv' /\ UNCHANGED dbVars
    BY <1>2, PageTypes, FormsStep, PageShows DEF Next
  <2>2. DbOK' /\ Derived'
    BY <2>1, DbStays DEF LedgerInv
  <2> QED
    BY <2>1, <2>2 DEF LedgerInv
<1>3. CASE UNCHANGED vars
  <2>1. UNCHANGED dbVars /\ UNCHANGED pageVars
    BY <1>3 DEF vars
  <2>2. /\ online' = online /\ up' = up /\ down' = down /\ view' = view /\ current' = current
        /\ form' = form /\ failed' = failed /\ torn' = torn
    BY <2>1 DEF dbVars, pageVars
  <2>3. DbOK' /\ Derived' /\ \A n : Made(n)' = Made(n)
    BY <2>1, DbStays DEF LedgerInv
  <2>4. PageOK' /\ Offline'
    BY <2>2 DEF LedgerInv, PageOK, Offline
  <2>5. FormsInv'
    BY <2>2, <2>3 DEF LedgerInv, FormsInv, Copies, Asked, AskedIn, Mine, Attempts
  <2>6. PageInv'
    <3>1. CASE torn = {}
      <4>1. Carried(up, up') /\ Carried(down, down')
        BY <2>2, Carries DEF LedgerInv, PageOK
      <4> QED
        BY <2>1, <2>2, <3>1, <4>1, NothingTold
    <3>2. CASE torn # {}
      BY <2>2, <3>2 DEF PageInv
    <3> QED
      BY <3>1, <3>2
  <2> QED
    BY <2>3, <2>4, <2>5, <2>6 DEF LedgerInv
<1> QED
  BY <1>1, <1>2, <1>3 DEF Next

LEMMA LedgerTyped == LedgerInv => TypeOK
<1> SUFFICES ASSUME LedgerInv PROVE TypeOK
  OBVIOUS
<1>1. \A i \in DOMAIN rows : Row(rows[i])
  <2>1. \A i \in DOMAIN rows : rows[i] \in Entered \cup {NoRow}
    BY DEF LedgerInv, DbOK
  <2> QED
    BY <2>1 DEF Row, Entered
<1>2. /\ Len(rows) <= MaxRows /\ holdings \in [Portfolios -> [Symbols -> Held]]
      /\ torn \subseteq Portfolios /\ changes \in 0..MaxChanges
  BY DEF LedgerInv, DbOK
<1>3. /\ online \in BOOLEAN /\ current \in BOOLEAN /\ failed \in [Forms -> Nat]
      /\ view.held \in [Symbols -> Held] /\ view.listed \subseteq Ids /\ view.waiting \in BOOLEAN
  BY DEF LedgerInv, PageOK
<1>4. form.at \in {"closed", "open", "submitting"} /\ form.number \in 0..MaxForms /\ form.attempt \in 0..MaxAttempts
  BY DEF LedgerInv, PageOK, FormStates
<1> QED
  BY <1>1, <1>2, <1>3, <1>4 DEF TypeOK

LEMMA ViewSettles == LedgerInv => ViewFollows
<1> SUFFICES ASSUME LedgerInv, Quiet, current, torn = {}
             PROVE  view.held = holdings[Newest] /\ view.listed = Target
  BY DEF ViewFollows, Target, Full, Recent
<1>1. \A kind : ~Under(up, kind) /\ ~Under(down, kind)
  BY DEF Quiet, Under
<1>2. ViewHolds /\ ViewLists
  BY DEF LedgerInv, PageInv
<1> QED
  BY <1>1, <1>2 DEF ViewHolds, ViewLists, Loading

LEMMA FormsEnterOnce == LedgerInv => EnteredOnce
<1> SUFFICES ASSUME LedgerInv, NEW n \in Forms
             PROVE  Cardinality(Made(n)) <= 1 + failed[n]
  BY DEF EnteredOnce, Made
<1>1. PageOK /\ FormsInv
  BY DEF LedgerInv
<1>2. Cardinality(Made(n)) \in Nat /\ Cardinality(Asked(n)) \in Nat /\ Copies(n) <= Attempts(n)
  BY <1>1, CountsTyped DEF FormsInv
<1>3. Attempts(n) <= 1 + failed[n] /\ Attempts(n) \in Nat /\ failed[n] \in Nat
  <2>1. Attempts(n) \in Nat /\ failed[n] \in Nat /\ form.attempt \in Nat
    BY <1>1, AttemptsTyped
  <2>2. n = form.number => form.attempt <= 1 + failed[n]
    BY <1>1, <2>1 DEF FormsInv
  <2> QED
    BY <2>1, <2>2 DEF Attempts
<1> QED
  BY <1>2, <1>3 DEF Copies

\* The inductive invariant of the ledger: the tables and frames are well-formed,
\* holdings are the ones recomputed, requests and transactions of a form do not
\* outnumber its attempts, and whatever of the page is stale has a load, a
\* notification or a snapshot under way behind it.
THEOREM LedgerSafe == Spec => []LedgerInv
<1>1. LedgerInv /\ [Next]_vars => LedgerInv'
  BY LedgerStep
<1> QED
  BY InitHolds, <1>1, PTL DEF Spec

\* Rows, holdings, view and form are always well-formed.
THEOREM LedgerTypeCorrect == Spec => []TypeOK
BY LedgerSafe, LedgerTyped, PTL

\* The holdings of a portfolio are those of its transactions, unless its last
\* change was cut off between the two SQL transactions.  (transactions.ts:
\* recomputeHoldings, updateTransaction)
THEOREM HoldingsHold == Spec => []HoldingsDerived
<1>1. LedgerInv => HoldingsDerived
  BY LedgerTyped DEF LedgerInv, Derived, HoldingsDerived
<1> QED
  BY LedgerSafe, <1>1, PTL

\* Once nothing is under way, a page that stayed connected shows what is stored,
\* and a form enters its transaction once, and once more for every attempt that
\* the page saw fail.  (portfolio-view.ts: load; transaction-form.ts: onSubmit)
THEOREM PageIsKept == Spec => []PageKept
<1>1. LedgerInv => PageKept
  BY ViewSettles, FormsEnterOnce DEF PageKept
<1> QED
  BY LedgerSafe, <1>1, PTL

-----------------------------------------------------------------------------
(* Memory: places of the texts that the cache lacks.                       *)

\* Places are numbered by how many there are up to each.
LEMMA PlacesInOrder ==
    ASSUME NEW n \in Nat, NEW S \in SUBSET (1..n)
    PROVE  /\ Cardinality(S) \in Nat /\ DOMAIN InOrder(S) = 1..Cardinality(S)
           /\ \A j \in 1..Cardinality(S) : InOrder(S)[j] \in S
           /\ \A i \in S : \E j \in 1..Cardinality(S) : InOrder(S)[j] = i
<1> DEFINE UpTo(i) == {k \in S : k <= i}
           rank == [i \in S |-> Cardinality(UpTo(i))]
           N == Cardinality(S)
           seq == InOrder(S)
<1>0. seq = [j \in 1..Cardinality(S) |-> CHOOSE i \in S : Cardinality(UpTo(i)) = j]
  BY DEF InOrder
<1>1. IsFiniteSet(1..n)
  BY FS_Interval
<1>2. IsFiniteSet(S) /\ N \in Nat
  BY <1>1, FS_Subset, FS_CardinalityType
<1>3. ASSUME NEW i \in S
      PROVE  IsFiniteSet(UpTo(i)) /\ Cardinality(UpTo(i)) \in 1..N /\ i \in UpTo(i)
  <2>1. UpTo(i) \in SUBSET S /\ i \in UpTo(i)
    OBVIOUS
  <2> HIDE DEF UpTo
  <2>2. IsFiniteSet(UpTo(i)) /\ Cardinality(UpTo(i)) <= N
    BY <1>2, <2>1, FS_Subset
  <2>3. Cardinality(UpTo(i)) \in Nat /\ Cardinality(UpTo(i)) # 0
    BY <2>1, <2>2, FS_CardinalityType, FS_EmptySet
  <2> QED
    BY <1>2, <2>1, <2>2, <2>3
<1>4. ASSUME NEW a \in S, NEW b \in S, a < b
      PROVE  Cardinality(UpTo(a)) # Cardinality(UpTo(b))
  <2>1. UpTo(a) \in SUBSET UpTo(b) /\ b \notin UpTo(a) /\ b \in UpTo(b)
    <3>1. a \in Int /\ b \in Int /\ S \subseteq Int
      OBVIOUS
    <3>2. b <= b /\ ~(b <= a) /\ \A k \in S : k <= a => k <= b
      BY <1>4, <3>1
    <3> QED
      BY <3>2
  <2>2. IsFiniteSet(UpTo(b))
    BY <1>3
  <2> HIDE DEF UpTo
  <2> QED
    BY <2>1, <2>2, FS_Subset
<1>5. \A a, b \in S : rank[a] = rank[b] => a = b
  <2> HIDE DEF UpTo
  <2> SUFFICES ASSUME NEW a \in S, NEW b \in S, rank[a] = rank[b]
               PROVE  a = b
    OBVIOUS
  <2>1. ~(a < b) /\ ~(b < a)
    BY <1>4
  <2> QED
    BY <2>1
<1> HIDE DEF UpTo, seq
<1>6. rank \in [S -> 1..N]
  BY <1>3
<1>7. rank \in Injection(S, 1..N)
  BY <1>5, <1>6 DEF Injection, IsInjective
<1>8. IsFiniteSet(1..N) /\ Cardinality(1..N) = N
  BY <1>2, FS_Interval
<1>9. rank \in Surjection(S, 1..N)
  BY <1>7, <1>8, FS_Injection
<1>10. \A j \in 1..N : \E i \in S : rank[i] = j
  BY <1>9 DEF Surjection
<1>11. \A j \in 1..N : seq[j] \in S /\ rank[seq[j]] = j
  BY <1>0, <1>10
<1>12. \A i \in S : rank[i] \in 1..N /\ seq[rank[i]] = i
  <2> SUFFICES ASSUME NEW i \in S
               PROVE  rank[i] \in 1..N /\ seq[rank[i]] = i
    OBVIOUS
  <2>1. rank[i] \in 1..N
    BY <1>6
  <2>2. seq[rank[i]] \in S /\ rank[seq[rank[i]]] = rank[i]
    BY <1>11, <2>1
  <2> QED
    BY <1>5, <2>1, <2>2
<1> QED
  BY <1>0, <1>2, <1>11, <1>12 DEF seq

\* Every text is in the cache or among the misses.
Covers(content, misses) ==
    /\ misses \in Seq(DOMAIN content)
    /\ \A i \in DOMAIN content : cache[content[i]] = content[i] \/ \E j \in DOMAIN misses : misses[j] = i

\* What the cache has of a text is its vector.
CacheTrue == DOMAIN cache = Texts /\ \A t \in Texts : cache[t] \in {None, t}

LEMMA ContentOf ==
    ASSUME NEW content \in Contents
    PROVE  \E n \in 1..3 : DOMAIN content = 1..n /\ \A i \in 1..n : content[i] \in Texts
  BY MemoryAssumption

LEMMA MissesCover ==
    ASSUME CacheTrue, NEW content \in Contents
    PROVE  Covers(content, Misses(content))
<1> DEFINE S == {i \in DOMAIN content : cache[content[i]] = None}
           misses == Misses(content)
<1>1. PICK n \in 1..3 : DOMAIN content = 1..n /\ \A i \in 1..n : content[i] \in Texts
  BY ContentOf
<1>2. n \in Nat /\ S \in SUBSET (1..n)
  BY <1>1
<1>3. misses = InOrder(S)
  BY DEF Misses
<1> HIDE DEF S, misses
<1>4. /\ Cardinality(S) \in Nat /\ DOMAIN misses = 1..Cardinality(S)
      /\ \A j \in 1..Cardinality(S) : misses[j] \in S
      /\ \A i \in S : \E j \in 1..Cardinality(S) : misses[j] = i
  BY <1>2, <1>3, PlacesInOrder
<1>5. misses \in Seq(DOMAIN content)
  <2>1. misses \in [1..Cardinality(S) -> DOMAIN content]
    BY <1>3, <1>4 DEF S, InOrder
  <2> QED
    BY <1>4, <2>1
<1>6. ASSUME NEW i \in DOMAIN content, cache[content[i]] # content[i]
      PROVE  \E j \in DOMAIN misses : misses[j] = i
  <2>1. i \in S
    BY <1>1, <1>6 DEF S, CacheTrue
  <2> QED
    BY <1>4, <1>5, <2>1
<1> QED
  BY <1>5, <1>6 DEF Covers, misses

\* The vectors of a call are those of its texts.
LEMMA ResultsTrue ==
    ASSUME NEW content, NEW misses, Covers(content, misses)
    PROVE  LET results == Results(content, misses, [j \in DOMAIN misses |-> content[misses[j]]]) IN
           DOMAIN results = DOMAIN content /\ \A i \in DOMAIN content : results[i] = content[i]
<1> DEFINE results == Results(content, misses, [j \in DOMAIN misses |-> content[misses[j]]])
<1>1. ASSUME NEW i \in DOMAIN content
      PROVE  results[i] = content[i]
  <2>1. CASE \E j \in DOMAIN misses : misses[j] = i
    <3> DEFINE c == CHOOSE j \in DOMAIN misses : misses[j] = i
    <3>1. c \in DOMAIN misses /\ misses[c] = i
      BY <2>1
    <3>2. results[i] = [j \in DOMAIN misses |-> content[misses[j]]][c]
      BY <2>1 DEF Results
    <3> QED
      BY <3>1, <3>2
  <2>2. CASE ~\E j \in DOMAIN misses : misses[j] = i
    BY <2>2 DEF Results, Covers
  <2> QED
    BY <2>1, <2>2
<1> QED
  BY <1>1 DEF Results

\* The cache has learnt the first texts that a call missed.
LEMMA CacheLearns ==
    ASSUME CacheTrue, NEW c, NEW n \in Nat, call[c].content \in Contents,
           Covers(call[c].content, call[c].misses), n <= Len(call[c].misses), CacheFirst(c, n)
    PROVE  CacheTrue' /\ \A t \in Texts : cache[t] = t => cache'[t] = t
<1> DEFINE content == call[c].content
           misses == call[c].misses
           first == SubSeq(misses, 1, n)
<1>0. n <= Len(misses)
  OBVIOUS
<1>1. misses \in Seq(DOMAIN content) /\ Len(misses) \in Nat
  BY DEF Covers
<1>2. first \in Seq(DOMAIN content) /\ Len(first) = n /\ \A j \in 1..n : first[j] = misses[j]
  <2> HIDE DEF misses, content
  <2> QED
    BY <1>0, <1>1, SubSeqProperties
<1>3. Range(first) = {misses[j] : j \in 1..n} /\ Range(first) \subseteq DOMAIN content
  <2>1. DOMAIN first = 1..n
    BY <1>2
  <2> HIDE DEF first
  <2> QED
    BY <1>2, <2>1 DEF Range
<1>4. \A i \in DOMAIN content : ResultsOf(c)[i] = content[i]
  BY ResultsTrue DEF ResultsOf
<1>5. cache' = [t \in Texts |-> IF \E j \in 1..n : content[misses[j]] = t
                                THEN ResultsOf(c)[CHOOSE i \in Range(first) : content[i] = t]
                                ELSE cache[t]]
  BY DEF CacheFirst
<1> HIDE DEF content, misses, first
<1>6. ASSUME NEW t \in Texts
      PROVE  cache'[t] = t \/ cache'[t] = cache[t]
  <2>1. CASE \E j \in 1..n : content[misses[j]] = t
    <3> DEFINE i == CHOOSE i \in Range(first) : content[i] = t
    <3>1. i \in Range(first) /\ content[i] = t
      BY <1>3, <2>1
    <3>2. cache'[t] = ResultsOf(c)[i]
      BY <1>5, <2>1
    <3> QED
      BY <1>3, <1>4, <3>1, <3>2
  <2>2. CASE ~\E j \in 1..n : content[misses[j]] = t
    BY <1>5, <2>2
  <2> QED
    BY <2>1, <2>2
<1> QED
  BY <1>5, <1>6 DEF CacheTrue

-----------------------------------------------------------------------------
(* Memory: rows, chunks and vectors.                                       *)

MemRows == [content : Contents, copy : {1, 2}]

\* A call that waits for the provider has what it needs to store vectors later.
Waits(c) == /\ call[c].content \in Contents
            /\ call[c].ids = ChunkIds(c, [content |-> call[c].content, copy |-> 1])
            /\ Covers(call[c].content, call[c].misses)
            /\ memories[c] \in {Absent, [content |-> call[c].content, copy |-> 1]}

MemTypes == /\ DOMAIN memories = Writers /\ \A m \in Rows : memories[m] \in MemRows
            /\ DOMAIN call = Writers
            /\ \A c \in Writers : call[c].at \in {"idle", "run", "embed", "done", "failed", "lost"}
            /\ \A c \in Writers : call[c].at = "embed" => Waits(c)

\* Nothing is stored for a call before it says so, and no vectors before it is over.
InTime == /\ \A m \in Rows : call[m].at \notin {"idle", "run"}
          /\ \A v \in vectors : v[1][1] \in Writers /\ call[v[1][1]].at \in {"done", "lost"}

RunOwn == DOMAIN run = Runs /\ \A r \in Runs : run[r] # Absent => run[r] \in [memory : {None, r}]

MemInv == MemTypes /\ CacheTrue /\ InTime /\ IndexCoherent /\ RunOwn /\ RunLinked

LEMMA RowIs ==
    ASSUME NEW m \in MemRows
    PROVE  /\ m # Absent /\ m.content \in Contents /\ m.copy \in {1, 2}
  BY DEF MemRows, Absent

LEMMA IdsOf ==
    \A m, row : Range(ChunkIds(m, row)) = {<<m, row.copy, i>> : i \in DOMAIN row.content}
  BY DEF ChunkIds, Range

LEMMA ChunkIs ==
    \A k : k \in Chunks <=>
           \E m \in Rows : \E i \in DOMAIN memories[m].content : k = <<m, memories[m].copy, i>>
<1>1. Chunks = UNION {{<<m, memories[m].copy, i>> : i \in DOMAIN memories[m].content} : m \in Rows}
  BY IdsOf DEF Chunks
<1> QED
  BY <1>1

LEMMA ChunkIsNext ==
    \A k : k \in Chunks' <=>
           \E m \in Rows' : \E i \in DOMAIN memories'[m].content : k = <<m, memories'[m].copy, i>>
<1>1. Chunks' = UNION {{<<m, memories'[m].copy, i>> : i \in DOMAIN memories'[m].content}
                               : m \in Rows'}
  BY IdsOf DEF Chunks
<1> QED
  BY <1>1

\* A row enters with its chunks, or what is stored stays.
Enters(c) == /\ DOMAIN memories' = Writers /\ \A m \in Writers \ {c} : memories'[m] = memories[m]
             /\ memories'[c] = memories[c] \/ (memories[c] = Absent /\ memories'[c] \in MemRows)

LEMMA ChunksStay ==
    ASSUME NEW c \in Writers, Enters(c)
    PROVE  /\ \A k \in Chunks : k \in Chunks' /\ k[1] \in Rows /\ TextOf(k)' = TextOf(k)
           /\ \A k \in Chunks' : k[1] \in Rows' /\ (k[1] # c => k \in Chunks)
           /\ Rows \subseteq Rows' /\ Rows' \subseteq Rows \cup {c}
<1>1. \A m \in Rows : m \in Rows' /\ memories'[m] = memories[m]
  BY RowIs DEF Enters, Rows
<1>2. \A m \in Rows' : m # c => m \in Rows /\ memories'[m] = memories[m]
  BY DEF Enters, Rows
<1>3. ASSUME NEW k \in Chunks
      PROVE  k \in Chunks' /\ k[1] \in Rows /\ TextOf(k)' = TextOf(k)
  <2>1. PICK m \in Rows : \E i \in DOMAIN memories[m].content : k = <<m, memories[m].copy, i>>
    BY ChunkIs
  <2>2. k[1] = m
    BY <2>1
  <2>3. k \in Chunks'
    BY <1>1, <2>1, ChunkIsNext
  <2>4. TextOf(k)' = TextOf(k)
    BY <1>1, <2>2 DEF TextOf
  <2> QED
    BY <2>2, <2>3, <2>4
<1>4. ASSUME NEW k \in Chunks'
      PROVE  k[1] \in Rows' /\ (k[1] # c => k \in Chunks)
  <2>1. PICK m \in Rows' : \E i \in DOMAIN memories'[m].content : k = <<m, memories'[m].copy, i>>
    BY ChunkIsNext
  <2>2. k[1] = m
    BY <2>1
  <2>3. m # c => k \in Chunks
    BY <1>2, <2>1, ChunkIs
  <2> QED
    BY <2>2, <2>3
<1> QED
  BY <1>1, <1>2, <1>3, <1>4

\* A call moves on, and nothing else does but what is lost.
Moves(c) == /\ DOMAIN call' = Writers
            /\ call[c].at \in {"idle", "run", "embed"}
            /\ call'[c].at \in {"embed", "done", "failed", "lost"}
            /\ \A d \in Writers \ {c} : \/ call'[d] = call[d]
                                        \/ call[d].at \in {"run", "embed"} /\ call'[d].at = "lost"

\* A call stores vectors of its chunks: those at places, and of those at updated it
\* says so in the chunk, if it is there.
Stores(c, content, places, updated) ==
    /\ content \in Contents /\ places \subseteq DOMAIN content /\ updated \subseteq places
    /\ vectors' = vectors \cup {<<<<c, 1, i>>, content[i]>> : i \in places}
    /\ embedded' = embedded \cup ({<<c, 1, i>> : i \in updated} \cap Chunks')
    /\ places # {} => /\ call'[c].at \in {"done", "lost"}
                      /\ memories'[c] \in {Absent, [content |-> content, copy |-> 1]}
    /\ call'[c].at = "done" /\ c \in Rows' =>
         updated = DOMAIN content /\ memories'[c] = [content |-> content, copy |-> 1]

LEMMA IndexKept ==
    ASSUME MemTypes, InTime, IndexCoherent, NEW c \in Writers, NEW content, NEW places, NEW updated,
           Enters(c), Moves(c), Stores(c, content, places, updated)
    PROVE  /\ InTime'
           /\ embedded' \subseteq {v[1] : v \in vectors'} \intersect Chunks'
           /\ \A v \in vectors' : IF v[1] \in Chunks' THEN v[2] = TextOf(v[1])'
                                                      ELSE memories'[v[1][1]] = Absent
           /\ \A k \in Chunks' \ embedded' : call'[k[1]].at \in {"embed", "failed", "lost"}
<1> DEFINE id(i) == <<c, 1, i>>
<1>1. /\ \A k \in Chunks : k \in Chunks' /\ k[1] \in Rows /\ TextOf(k)' = TextOf(k)
      /\ \A k \in Chunks' : k[1] \in Rows' /\ (k[1] # c => k \in Chunks)
      /\ Rows \subseteq Rows' /\ Rows' \subseteq Rows \cup {c}
  BY ChunksStay
<1>2. \A v \in vectors : v[1][1] \in Writers /\ v[1][1] # c /\ call[v[1][1]].at \in {"done", "lost"}
  BY DEF InTime, Moves
<1>3. \A v \in vectors' : v \in vectors \/ \E i \in places : v = <<id(i), content[i]>>
  BY DEF Stores
<1>4. \A i : id(i)[1] = c
  OBVIOUS
<1>5. ASSUME NEW i \in places
      PROVE  IF id(i) \in Chunks' THEN content[i] = TextOf(id(i))' ELSE memories'[c] = Absent
  <2>1. memories'[c] \in {Absent, [content |-> content, copy |-> 1]} /\ i \in DOMAIN content
    BY <1>5 DEF Stores
  <2>2. CASE memories'[c] = Absent
    <3>1. c \notin Rows'
      BY <2>2 DEF Rows
    <3> QED
      BY <1>1, <1>4, <2>2, <3>1
  <2>3. CASE memories'[c] = [content |-> content, copy |-> 1] /\ memories'[c] # Absent
    <3>1. c \in Rows' /\ memories'[c].copy = 1 /\ memories'[c].content = content
      BY <2>3 DEF Rows
    <3>2. id(i) \in Chunks'
      BY <2>1, <3>1, ChunkIsNext
    <3>3. TextOf(id(i))' = content[i]
      BY <3>1 DEF TextOf
    <3> QED
      BY <3>2, <3>3
  <2> QED
    BY <2>1, <2>2, <2>3
<1>6. ASSUME NEW v \in vectors'
      PROVE  /\ IF v[1] \in Chunks' THEN v[2] = TextOf(v[1])' ELSE memories'[v[1][1]] = Absent
             /\ v[1][1] \in Writers /\ call'[v[1][1]].at \in {"done", "lost"}
  <2>1. CASE v \in vectors
    <3>1. v[1][1] \in Writers /\ v[1][1] # c /\ call[v[1][1]].at \in {"done", "lost"}
      BY <1>2, <2>1
    <3>2. call'[v[1][1]].at \in {"done", "lost"}
      BY <3>1 DEF Moves
    <3>3. IF v[1] \in Chunks THEN v[2] = TextOf(v[1]) ELSE memories[v[1][1]] = Absent
      BY <2>1 DEF IndexCoherent
    <3>4. v[1] \in Chunks' => v[1] \in Chunks
      BY <1>1, <3>1
    <3>5. memories'[v[1][1]] = memories[v[1][1]]
      BY <3>1 DEF Enters
    <3> QED
      BY <1>1, <3>1, <3>2, <3>3, <3>4, <3>5
  <2>2. CASE v \notin vectors
    <3>1. PICK i \in places : v = <<id(i), content[i]>>
      BY <1>3, <2>2
    <3>2. v[1] = id(i) /\ v[2] = content[i] /\ v[1][1] = c
      BY <3>1
    <3>3. call'[c].at \in {"done", "lost"}
      BY <3>1 DEF Stores
    <3> QED
      BY <1>5, <3>2, <3>3
  <2> QED
    BY <2>1, <2>2
<1>7. \A m \in Rows' : call'[m].at \notin {"idle", "run"}
  <2> SUFFICES ASSUME NEW m \in Rows'
               PROVE  call'[m].at \notin {"idle", "run"}
    OBVIOUS
  <2>1. CASE m = c
    BY <2>1 DEF Moves
  <2>2. CASE m # c
    <3>1. m \in Rows /\ m \in Writers
      BY <1>1, <2>2 DEF Rows
    <3> QED
      BY <2>2, <3>1 DEF Moves, InTime
  <2> QED
    BY <2>1, <2>2
<1>8. embedded' \subseteq {v[1] : v \in vectors'} \intersect Chunks'
  <2>1. \A k \in embedded : k \in Chunks /\ \E v \in vectors : k = v[1]
    BY DEF IndexCoherent
  <2>2. \A i \in places : <<id(i), content[i]>> \in vectors' /\ <<id(i), content[i]>>[1] = id(i)
    BY DEF Stores
  <2>3. vectors \subseteq vectors'
    BY DEF Stores
  <2>4. \A k \in embedded' : k \in embedded \/ (k \in Chunks' /\ \E i \in updated : k = id(i))
    BY DEF Stores
  <2>5. updated \subseteq places
    BY DEF Stores
  <2> SUFFICES ASSUME NEW k \in embedded'
               PROVE  k \in Chunks' /\ \E v \in vectors' : k = v[1]
    OBVIOUS
  <2> QED
    BY <1>1, <2>1, <2>2, <2>3, <2>4, <2>5
<1>9. ASSUME NEW k \in Chunks' \ embedded'
      PROVE  call'[k[1]].at \in {"embed", "failed", "lost"}
  <2>1. CASE k[1] # c
    <3>1. k \in Chunks \ embedded /\ k[1] \in Writers
      BY <1>1, <2>1 DEF Stores, Rows
    <3>2. call[k[1]].at \in {"embed", "failed", "lost"}
      BY <3>1 DEF IndexCoherent
    <3> QED
      BY <2>1, <3>1, <3>2 DEF Moves
  <2>2. CASE k[1] = c /\ call'[c].at = "done"
    <3>1. c \in Rows'
      BY <1>1, <2>2
    <3>2. updated = DOMAIN content /\ memories'[c] = [content |-> content, copy |-> 1]
      BY <2>2, <3>1 DEF Stores
    <3>3. PICK m \in Rows' : \E i \in DOMAIN memories'[m].content : k = <<m, memories'[m].copy, i>>
      BY ChunkIsNext
    <3>4. m = c
      BY <2>2, <3>3
    <3>5. memories'[c].content = content /\ memories'[c].copy = 1
      BY <3>2
    <3>6. \E i \in updated : k = <<c, 1, i>>
      BY <3>2, <3>3, <3>4, <3>5
    <3>7. k \in embedded'
      BY <3>6 DEF Stores
    <3> QED
      BY <3>7
  <2>3. CASE k[1] = c /\ call'[c].at # "done"
    BY <2>3 DEF Moves
  <2> QED
    BY <2>1, <2>2, <2>3
<1> QED
  BY <1>6, <1>7, <1>8, <1>9 DEF InTime

\* A row is added once for a content, with its texts in the full text index.
LEMMA RowAdded ==
    ASSUME MemTypes, IndexCoherent, NEW c \in Writers, memories[c] = Absent,
           NEW content \in Contents, NEW copy \in {1, 2}, ~Stored(content), AddMemory(c, content, copy)
    PROVE  /\ Enters(c) /\ memories'[c] = [content |-> content, copy |-> copy]
           /\ fts' = {<<k, TextOf(k)'>> : k \in Chunks'}
           /\ \A m, n \in Rows' : memories'[m].content = memories'[n].content => m = n
<1> DEFINE row == [content |-> content, copy |-> copy]
<1>1. row \in MemRows /\ row.content = content /\ row.copy = copy /\ row # Absent
  BY RowIs DEF MemRows
<1>2. memories' = [memories EXCEPT ![c] = row]
  BY DEF AddMemory
<1> HIDE DEF row
<1>3. Enters(c) /\ memories'[c] = row
  BY <1>1, <1>2 DEF MemTypes, Enters
<1>4. /\ \A k \in Chunks : k \in Chunks' /\ k[1] \in Rows /\ TextOf(k)' = TextOf(k)
      /\ \A k \in Chunks' : k[1] \in Rows' /\ (k[1] # c => k \in Chunks)
      /\ Rows \subseteq Rows' /\ Rows' \subseteq Rows \cup {c}
  BY <1>3, ChunksStay
<1>5. c \in Rows' /\ c \notin Rows
  BY <1>1, <1>3 DEF Rows
<1>6. \A k : k \in Chunks' <=> k \in Chunks \/ \E i \in DOMAIN content : k = <<c, copy, i>>
  <2>1. ASSUME NEW k \in Chunks', k \notin Chunks
        PROVE  \E i \in DOMAIN content : k = <<c, copy, i>>
    <3>1. PICK m \in Rows' : \E i \in DOMAIN memories'[m].content : k = <<m, memories'[m].copy, i>>
      BY ChunkIsNext
    <3>2. m = c
      BY <1>4, <2>1, <3>1
    <3> QED
      BY <1>1, <1>3, <3>1, <3>2
  <2>2. ASSUME NEW i \in DOMAIN content
        PROVE  <<c, copy, i>> \in Chunks'
    BY <1>1, <1>3, <1>5, ChunkIsNext
  <2> QED
    BY <1>4, <2>1, <2>2
<1>7. \A i \in DOMAIN content : TextOf(<<c, copy, i>>)' = content[i]
  BY <1>1, <1>3 DEF TextOf
<1>8. fts' = fts \cup {<<<<c, copy, i>>, content[i]>> : i \in DOMAIN content}
  BY DEF AddMemory, ChunkIds
<1>9. fts = {<<k, TextOf(k)>> : k \in Chunks}
  BY DEF IndexCoherent
<1>10. fts' = {<<k, TextOf(k)'>> : k \in Chunks'}
  <2>1. ASSUME NEW f \in fts'
        PROVE  \E k \in Chunks' : f = <<k, TextOf(k)'>>
    <3>1. CASE f \in fts
      <4>1. PICK k \in Chunks : f = <<k, TextOf(k)>>
        BY <1>9, <3>1
      <4> QED
        BY <1>4, <4>1
    <3>2. CASE f \notin fts
      <4>1. PICK i \in DOMAIN content : f = <<<<c, copy, i>>, content[i]>>
        BY <1>8, <3>2
      <4> QED
        BY <1>6, <1>7, <4>1
    <3> QED
      BY <3>1, <3>2
  <2>2. ASSUME NEW k \in Chunks'
        PROVE  <<k, TextOf(k)'>> \in fts'
    <3>1. CASE k \in Chunks
      BY <1>4, <1>8, <1>9, <3>1
    <3>2. CASE k \notin Chunks
      <4>1. PICK i \in DOMAIN content : k = <<c, copy, i>>
        BY <1>6, <3>2
      <4> QED
        BY <1>7, <1>8, <4>1
    <3> QED
      BY <3>1, <3>2
  <2> HIDE DEF row
  <2> QED
    BY <2>1, <2>2
<1>11. \A m, n \in Rows' : memories'[m].content = memories'[n].content => m = n
  <2>1. \A m \in Rows : memories'[m] = memories[m] /\ m # c /\ memories[m].content # content
    BY <1>5, <1>3 DEF Enters, Stored, Rows
  <2>2. \A m, n \in Rows : memories[m].content = memories[n].content => m = n
    BY DEF IndexCoherent
  <2> QED
    BY <1>1, <1>3, <1>4, <2>1, <2>2
<1> QED
  BY <1>3, <1>10, <1>11 DEF row

\* A call that waits keeps what it has, while rows are deleted and the cache learns.
LEMMA WaitsKept ==
    ASSUME NEW d \in Writers, Waits(d), call'[d] = call[d],
           memories'[d] \in {memories[d], Absent}, \A t \in Texts : cache[t] = t => cache'[t] = t
    PROVE  Waits(d)'
<1>1. PICK n \in 1..3 : DOMAIN call[d].content = 1..n /\ \A i \in 1..n : call[d].content[i] \in Texts
  BY ContentOf DEF Waits
<1>2. Covers(call[d].content, call[d].misses)'
  BY <1>1 DEF Waits, Covers
<1> QED
  BY <1>2 DEF Waits

\* Neither the rows nor the indexes change while calls begin, end without a row or
\* are lost.
LEMMA CallsQuiet ==
    ASSUME MemTypes, InTime, IndexCoherent, UNCHANGED <<memories, fts, vectors, embedded>>,
           \A d \in Writers : \/ call'[d] = call[d]
                              \/ call[d].at \in {"run", "embed"} /\ call'[d].at = "lost"
                              \/ call[d].at \in {"idle", "run"} /\ call'[d].at \in {"run", "done"}
    PROVE  InTime' /\ IndexCoherent'
<1>1. Rows' = Rows /\ Chunks' = Chunks /\ \A k : TextOf(k)' = TextOf(k)
  BY DEF Rows, Chunks, TextOf
<1>2. \A m \in Rows : m \in Writers /\ call[m].at \notin {"idle", "run"}
  BY DEF Rows, InTime
<1>3. \A k \in Chunks : k[1] \in Rows
  BY ChunkIs
<1>4. InTime'
  <2>1. \A m \in Rows' : call'[m].at \notin {"idle", "run"}
    BY <1>1, <1>2
  <2>2. \A v \in vectors' : v[1][1] \in Writers /\ call'[v[1][1]].at \in {"done", "lost"}
    BY DEF InTime
  <2> QED
    BY <2>1, <2>2 DEF InTime
<1>5. \A k \in Chunks \ embedded : call'[k[1]].at \in {"embed", "failed", "lost"}
  BY <1>2, <1>3 DEF IndexCoherent
<1>6. \A v \in vectors : IF v[1] \in Chunks THEN v[2] = TextOf(v[1]) ELSE memories[v[1][1]] = Absent
  BY DEF IndexCoherent
<1>7. fts' = {<<k, TextOf(k)'>> : k \in Chunks'}
  BY <1>1 DEF IndexCoherent
<1>8. \A m, n \in Rows' : memories'[m].content = memories'[n].content => m = n
  BY <1>1 DEF IndexCoherent
<1>9. embedded' \subseteq {v[1] : v \in vectors'} \intersect Chunks'
  BY <1>1 DEF IndexCoherent
<1>10. \A v \in vectors' : IF v[1] \in Chunks' THEN v[2] = TextOf(v[1])'
                                               ELSE memories'[v[1][1]] = Absent
  BY <1>1, <1>6
<1> QED
  BY <1>1, <1>4, <1>5, <1>7, <1>8, <1>9, <1>10 DEF IndexCoherent

\* No row, no run: a call that has not begun to store.
LEMMA NothingYet ==
    ASSUME MemInv, NEW c \in Writers, call[c].at \in {"idle", "run"}
    PROVE  memories[c] = Absent /\ c \notin Rows
  BY DEF MemInv, InTime, Rows

Calls == {"idle", "run", "embed", "done", "failed", "lost"}

LEMMA RememberKeeps ==
    ASSUME MemInv, NEW c \in Writers, call[c].at \in {"idle", "run"},
           NEW content \in Contents, Remember(c, content), UNCHANGED cache
    PROVE  /\ MemTypes' /\ CacheTrue' /\ InTime' /\ IndexCoherent'
           /\ Enters(c) /\ \A d \in Writers \ {c} : call'[d] = call[d]
           /\ call'[c] = Done \/ call'[c].at = "embed"
<1>1. memories[c] = Absent /\ c \notin Rows
  BY NothingYet
<1>2. MemTypes /\ CacheTrue /\ InTime /\ IndexCoherent
  BY DEF MemInv
<1>3. CacheTrue' /\ \A t \in Texts : cache[t] = t => cache'[t] = t
  BY <1>2 DEF CacheTrue
<1>4. /\ DOMAIN call' = Writers /\ \A d \in Writers \ {c} : call'[d] = call[d]
      /\ call'[c] = Done \/ call'[c].at = "embed"
  BY <1>2 DEF Remember, MemTypes, Embedding
<1>5. Moves(c)
  BY <1>4 DEF Moves, Done
<1>6. ASSUME Enters(c), call'[c].at = "embed" => Waits(c)'
      PROVE  MemTypes'
  <2>1. \A m \in Rows' : memories'[m] \in MemRows
    BY <1>2, <1>6, ChunksStay DEF Enters, MemTypes, Rows
  <2>2. \A d \in Writers : call'[d].at \in Calls
    BY <1>2, <1>4 DEF MemTypes, Done, Calls
  <2>3. ASSUME NEW d \in Writers, call'[d].at = "embed"
        PROVE  Waits(d)'
    <3>1. CASE d = c
      BY <1>6, <2>3, <3>1
    <3>2. CASE d # c
      <4>1. call'[d] = call[d] /\ memories'[d] = memories[d]
        BY <1>4, <1>6, <3>2 DEF Enters
      <4>2. Waits(d)
        BY <1>2, <2>3, <4>1 DEF MemTypes
      <4> QED
        BY <1>3, <4>1, <4>2, WaitsKept
    <3> QED
      BY <3>1, <3>2
  <2> QED
    BY <1>4, <1>6, <2>1, <2>2, <2>3 DEF MemTypes, Enters, Calls
<1>7. CASE Stored(content)
  <2>1. call' = [call EXCEPT ![c] = Done] /\ UNCHANGED <<memories, fts, vectors, embedded>>
    BY <1>7 DEF Remember
  <2>2. Enters(c)
    BY <1>2, <2>1 DEF Enters, MemTypes
  <2>3. call'[c] = Done /\ call'[c].at = "done"
    BY <1>2, <2>1 DEF MemTypes, Done
  <2>4. InTime' /\ IndexCoherent'
    BY <1>2, <1>4, <2>1, <2>3, CallsQuiet
  <2> QED
    BY <1>3, <1>4, <1>6, <2>2, <2>3, <2>4
<1>8. CASE ~Stored(content)
  <2> DEFINE row == [content |-> content, copy |-> 1]
             ids == ChunkIds(c, row)
             misses == Misses(content)
  <2>1. AddMemory(c, content, 1)
    BY <1>8 DEF Remember
  <2>2. /\ Enters(c) /\ memories'[c] = row
        /\ fts' = {<<k, TextOf(k)'>> : k \in Chunks'}
        /\ \A m, n \in Rows' : memories'[m].content = memories'[n].content => m = n
    BY <1>1, <1>2, <1>8, <2>1, RowAdded
  <2>3. Covers(content, misses)
    BY <1>2, MissesCover
  <2>4. DOMAIN ids = DOMAIN content /\ \A i \in DOMAIN content : ids[i] = <<c, 1, i>>
    BY DEF ChunkIds
  <2>5. Range(ids) = {<<c, 1, i>> : i \in DOMAIN content}
    BY <2>4 DEF Range
  <2>6. ASSUME NEW places, NEW updated, Stores(c, content, places, updated),
               call'[c].at = "embed" => Waits(c)'
        PROVE  MemTypes' /\ InTime' /\ IndexCoherent'
    <3>1. MemTypes'
      BY <1>6, <2>2, <2>6
    <3>2. /\ InTime'
          /\ embedded' \subseteq {v[1] : v \in vectors'} \intersect Chunks'
          /\ \A v \in vectors' : IF v[1] \in Chunks' THEN v[2] = TextOf(v[1])'
                                                     ELSE memories'[v[1][1]] = Absent
          /\ \A k \in Chunks' \ embedded' : call'[k[1]].at \in {"embed", "failed", "lost"}
      BY <1>2, <1>5, <2>2, <2>6, IndexKept
    <3> QED
      BY <2>2, <3>1, <3>2 DEF IndexCoherent
  <2>7. CASE misses = <<>>
    <3> DEFINE results == Results(content, misses, <<>>)
    <3>1. StoreVectors(ids, results) /\ call' = [call EXCEPT ![c] = Done]
      BY <1>8, <2>7 DEF Remember
    <3>2. call'[c].at = "done"
      BY <1>2, <3>1 DEF MemTypes, Done
    <3>3. \A i \in DOMAIN content : results[i] = content[i]
      BY <2>3, <2>7 DEF Results, Covers
    <3>4. vectors' = vectors \cup {<<<<c, 1, i>>, content[i]>> : i \in DOMAIN content}
      <4>1. vectors' = vectors \cup {<<ids[i], results[i]>> : i \in DOMAIN ids}
        BY <3>1 DEF StoreVectors
      <4> HIDE DEF ids, results
      <4> QED
        BY <2>4, <3>3, <4>1
    <3>5. embedded' = embedded \cup ({<<c, 1, i>> : i \in DOMAIN content} \cap Chunks')
      BY <2>5, <3>1 DEF StoreVectors
    <3>6. Stores(c, content, DOMAIN content, DOMAIN content)
      BY <2>2, <3>2, <3>4, <3>5 DEF Stores
    <3> QED
      BY <1>3, <1>4, <2>2, <2>6, <3>2, <3>6
  <2>8. CASE misses # <<>>
    <3>1. call' = [call EXCEPT ![c] = Embedding(content, ids, misses)] /\ UNCHANGED <<vectors, embedded>>
      BY <1>8, <2>8 DEF Remember
    <3>2. /\ call'[c].at = "embed" /\ call'[c].content = content
          /\ call'[c].ids = ids /\ call'[c].misses = misses
      BY <1>2, <3>1 DEF MemTypes, Embedding
    <3>3. Waits(c)'
      <4>1. Covers(call[c].content, call[c].misses)'
        BY <2>3, <3>2 DEF Covers
      <4> QED
        BY <2>2, <3>2, <4>1 DEF Waits
    <3>4. Stores(c, content, {}, {})
      BY <3>1, <3>2 DEF Stores
    <3> QED
      BY <1>3, <1>4, <2>2, <2>6, <3>2, <3>3, <3>4
  <2> QED
    BY <2>7, <2>8
<1> QED
  BY <1>7, <1>8

-----------------------------------------------------------------------------
(* Memory: the steps.                                                      *)

RunsKept == RunOwn /\ RunLinked

\* The run of a call says what is stored for it; the other runs are as they were.
LEMMA RunsFollow ==
    ASSUME MemInv, NEW c \in Writers, Enters(c), DOMAIN run' = Runs,
           \A d \in Writers \ {c} : call'[d] = call[d] \/ call'[d].at = "lost",
           \A r \in Runs \ {c} : run'[r] = run[r],
           c \in Runs => \/ /\ run'[c] = [memory |-> c] /\ c \in Rows'
                         \/ /\ run'[c] = [memory |-> None]
                            /\ call'[c].at \in {"done", "failed"} => c \notin Rows'
                         \/ /\ run'[c] = run[c]
                            /\ call'[c].at \in {"done", "failed"} => c \notin Rows'
    PROVE  RunsKept'
<1>1. RunOwn /\ RunLinked /\ Runs \subseteq Writers
  BY DEF MemInv, Writers
<1>2. Rows \subseteq Rows' /\ \A r \in Writers \ {c} : r \in Rows' => r \in Rows
  BY ChunksStay
<1>3. ASSUME NEW r \in Runs
      PROVE  /\ run'[r] # Absent => run'[r] \in [memory : {None, r}]
             /\ run'[r] # Absent => run'[r].memory \in {None} \union ({r} \intersect Rows')
             /\ call'[r].at \in {"done", "failed"} /\ r \in Rows' => run'[r] = [memory |-> r]
  <2>1. /\ run[r] # Absent => run[r] \in [memory : {None, r}]
        /\ run[r] # Absent => run[r].memory \in {None} \union ({r} \intersect Rows)
        /\ call[r].at \in {"done", "failed"} /\ r \in Rows => run[r] = [memory |-> r]
    BY <1>1 DEF RunOwn, RunLinked
  <2>2. CASE r # c
    BY <1>1, <1>2, <2>1, <2>2
  <2>3. CASE r = c
    BY <1>1, <1>2, <2>1, <2>3
  <2> QED
    BY <2>2, <2>3
<1> QED
  BY <1>3 DEF RunsKept, RunOwn, RunLinked

LEMMA CaptureKeeps ==
    ASSUME MemInv, NEW c \in Captures, Capture(c)
    PROVE  MemInv'
<1>1. c \in Writers /\ c \notin Runs /\ call[c].at = "idle"
  BY MemoryAssumption DEF Writers, Capture, Idle
<1>2. PICK content \in Contents : Remember(c, content)
  BY DEF Capture
<1>3. UNCHANGED <<cache, run>>
  BY DEF Capture
<1>4. /\ MemTypes' /\ CacheTrue' /\ InTime' /\ IndexCoherent'
      /\ Enters(c) /\ \A d \in Writers \ {c} : call'[d] = call[d]
  BY <1>1, <1>2, <1>3, RememberKeeps
<1>5. RunsKept'
  BY <1>1, <1>3, <1>4, RunsFollow DEF MemInv, RunOwn
<1> QED
  BY <1>4, <1>5 DEF MemInv, RunsKept

LEMMA RunStartsKeeps ==
    ASSUME MemInv, NEW r \in Runs, RunStarts(r)
    PROVE  MemInv'
<1>1. r \in Writers /\ call[r].at = "idle" /\ r \notin Rows
  BY NothingYet DEF Writers, RunStarts, Idle
<1>2. /\ call' = [call EXCEPT ![r] = Running]
      /\ UNCHANGED <<memories, fts, vectors, embedded, cache, run>>
  BY DEF RunStarts
<1>3. MemTypes /\ CacheTrue /\ InTime /\ IndexCoherent /\ RunOwn
  BY DEF MemInv
<1>4. call'[r].at = "run" /\ DOMAIN call' = Writers /\ \A d \in Writers \ {r} : call'[d] = call[d]
  BY <1>1, <1>2, <1>3 DEF MemTypes, Running
<1>5. InTime' /\ IndexCoherent'
  BY <1>1, <1>2, <1>3, <1>4, CallsQuiet
<1>6. Rows' = Rows
  BY <1>2 DEF Rows
<1>7. MemTypes'
  <2>1. ASSUME NEW d \in Writers, call'[d].at = "embed"
        PROVE  Waits(d)'
    BY <1>2, <1>3, <1>4, <2>1, WaitsKept DEF MemTypes
  <2> QED
    BY <1>2, <1>3, <1>4, <1>6, <2>1 DEF MemTypes
<1>8. Enters(r)
  BY <1>2, <1>3 DEF Enters, MemTypes
<1>9. RunsKept'
  BY <1>1, <1>2, <1>3, <1>4, <1>8, RunsFollow DEF RunOwn
<1> QED
  BY <1>2, <1>3, <1>5, <1>7, <1>9 DEF MemInv, RunsKept, CacheTrue

LEMMA RunEndsKeeps ==
    ASSUME MemInv, NEW r \in Runs, RunEnds(r)
    PROVE  MemInv'
<1>1. r \in Writers /\ call[r].at = "run" /\ r \notin Rows /\ memories[r] = Absent
  BY NothingYet DEF Writers, RunEnds, Running
<1>2. UNCHANGED cache
  BY DEF RunEnds
<1>3. MemTypes /\ CacheTrue /\ InTime /\ IndexCoherent /\ RunOwn
  BY DEF MemInv
<1>4. CASE /\ \E content \in Contents : Remember(r, content)
           /\ run' = [run EXCEPT ![r] = [memory |-> IF call'[r] = Done /\ memories'[r] # Absent
                                                      THEN r ELSE None]]
  <2>1. PICK content \in Contents : Remember(r, content)
    BY <1>4
  <2>2. /\ MemTypes' /\ CacheTrue' /\ InTime' /\ IndexCoherent'
        /\ Enters(r) /\ \A d \in Writers \ {r} : call'[d] = call[d]
        /\ call'[r] = Done \/ call'[r].at = "embed"
    BY <1>1, <1>2, <2>1, RememberKeeps
  <2>3. DOMAIN run' = Runs /\ \A d \in Runs \ {r} : run'[d] = run[d]
    BY <1>3, <1>4 DEF RunOwn
  <2>4. run'[r] = [memory |-> IF call'[r] = Done /\ memories'[r] # Absent THEN r ELSE None]
    BY <1>3, <1>4 DEF RunOwn
  <2>5. r \in Rows' <=> memories'[r] # Absent
    BY <1>1 DEF Rows
  <2>6. call'[r].at \in {"done", "failed"} => call'[r] = Done
    BY <2>2
  <2>7. RunsKept'
    <3>1. CASE call'[r] = Done /\ memories'[r] # Absent
      BY <1>1, <2>2, <2>3, <2>4, <2>5, <3>1, RunsFollow
    <3>2. CASE ~(call'[r] = Done /\ memories'[r] # Absent)
      BY <1>1, <2>2, <2>3, <2>4, <2>5, <2>6, <3>2, RunsFollow
    <3> QED
      BY <3>1, <3>2
  <2> QED
    BY <2>2, <2>7 DEF MemInv, RunsKept
<1>5. CASE /\ run' = [run EXCEPT ![r] = [memory |-> None]]
           /\ call' = [call EXCEPT ![r] = Done]
           /\ UNCHANGED <<memories, fts, vectors, embedded>>
  <2>1. call'[r].at = "done" /\ DOMAIN call' = Writers /\ \A d \in Writers \ {r} : call'[d] = call[d]
    BY <1>1, <1>3, <1>5 DEF MemTypes, Done
  <2>2. InTime' /\ IndexCoherent'
    BY <1>1, <1>3, <1>5, <2>1, CallsQuiet
  <2>3. Rows' = Rows
    BY <1>5 DEF Rows
  <2>4. MemTypes'
    <3>1. ASSUME NEW d \in Writers, call'[d].at = "embed"
          PROVE  Waits(d)'
      BY <1>2, <1>3, <1>5, <2>1, <3>1, WaitsKept DEF MemTypes
    <3> QED
      BY <1>3, <1>5, <2>1, <2>3, <3>1 DEF MemTypes
  <2>5. Enters(r)
    BY <1>3, <1>5 DEF Enters, MemTypes
  <2>6. /\ DOMAIN run' = Runs /\ \A d \in Runs \ {r} : run'[d] = run[d]
        /\ run'[r] = [memory |-> None]
    BY <1>3, <1>5 DEF RunOwn
  <2>7. RunsKept'
    BY <1>1, <2>1, <2>3, <2>5, <2>6, RunsFollow
  <2> QED
    BY <1>2, <1>3, <2>2, <2>4, <2>7 DEF MemInv, RunsKept, CacheTrue
<1> QED
  BY <1>4, <1>5 DEF RunEnds

\* What a call that waits stores: the vectors of some of its chunks, and of some of
\* these it says so.
LEMMA WaitEnds ==
    ASSUME MemInv, NEW c \in Writers, call[c].at = "embed", Enters(c),
           DOMAIN call' = Writers, call'[c].at \in {"done", "failed", "lost"},
           \A d \in Writers \ {c} : \/ call'[d] = call[d]
                                    \/ call[d].at \in {"run", "embed"} /\ call'[d].at = "lost",
           CacheTrue', \A t \in Texts : cache[t] = t => cache'[t] = t
    PROVE  Moves(c) /\ MemTypes'
<1>1. MemTypes
  BY DEF MemInv
<1>2. Moves(c)
  BY DEF Moves
<1>3. \A m \in Rows' : memories'[m] \in MemRows
  BY <1>1, ChunksStay DEF Enters, MemTypes, Rows
<1>4. \A d \in Writers : call'[d].at \in Calls
  BY <1>1 DEF MemTypes, Calls
<1>5. ASSUME NEW d \in Writers, call'[d].at = "embed"
      PROVE  Waits(d)'
  <2>1. d # c /\ call'[d] = call[d] /\ memories'[d] = memories[d]
    BY <1>5 DEF Enters
  <2>2. Waits(d)
    BY <1>1, <1>5, <2>1 DEF MemTypes
  <2> QED
    BY <2>1, <2>2, WaitsKept
<1> QED
  BY <1>2, <1>3, <1>4, <1>5 DEF MemTypes, Enters, Calls

\* The rows of the tables stay while vectors are stored.
LEMMA RowsStay ==
    ASSUME IndexCoherent, UNCHANGED <<memories, fts>>
    PROVE  /\ Rows' = Rows /\ Chunks' = Chunks
           /\ fts' = {<<k, TextOf(k)'>> : k \in Chunks'}
           /\ \A m, n \in Rows' : memories'[m].content = memories'[n].content => m = n
<1>1. Rows' = Rows /\ Chunks' = Chunks /\ \A k : TextOf(k)' = TextOf(k)
  BY DEF Rows, Chunks, TextOf
<1> QED
  BY <1>1 DEF IndexCoherent

\* What a call holds while it waits.
LEMMA Holds ==
    ASSUME MemInv, NEW c \in Writers, call[c].at = "embed"
    PROVE  LET content == call[c].content
               ids == call[c].ids IN
           /\ content \in Contents /\ Waits(c) /\ Covers(content, call[c].misses)
           /\ DOMAIN ids = DOMAIN content /\ \A i \in DOMAIN content : ids[i] = <<c, 1, i>>
           /\ \A i \in DOMAIN content : ResultsOf(c)[i] = content[i]
           /\ \E n \in 1..3 : DOMAIN content = 1..n
<1>1. Waits(c)
  BY DEF MemInv, MemTypes
<1>2. /\ DOMAIN call[c].ids = DOMAIN call[c].content
      /\ \A i \in DOMAIN call[c].content : call[c].ids[i] = <<c, 1, i>>
  BY <1>1 DEF Waits, ChunkIds
<1>3. Covers(call[c].content, call[c].misses) /\ call[c].content \in Contents
  BY <1>1 DEF Waits
<1>4. \A i \in DOMAIN call[c].content : ResultsOf(c)[i] = call[c].content[i]
  BY <1>3, ResultsTrue DEF ResultsOf
<1>5. \E n \in 1..3 : DOMAIN call[c].content = 1..n
  BY <1>3, ContentOf
<1> QED
  BY <1>1, <1>2, <1>3, <1>4, <1>5

\* The link follows the row.
LEMMA LinkKept ==
    ASSUME MemInv, NEW c \in Writers, Enters(c), Link(c),
           \A d \in Writers \ {c} : call'[d] = call[d] \/ call'[d].at = "lost"
    PROVE  RunsKept'
<1>1. DOMAIN run = Runs
  BY DEF MemInv, RunOwn
<1>2. c \in Rows' <=> memories'[c] # Absent
  BY DEF Rows
<1>3. DOMAIN run' = Runs /\ \A r \in Runs \ {c} : run'[r] = run[r]
  BY <1>1 DEF Link
<1>4. c \in Runs => \/ run'[c] = [memory |-> c] /\ c \in Rows'
                    \/ run'[c] = run[c] /\ c \notin Rows'
  BY <1>1, <1>2 DEF Link
<1> QED
  BY <1>3, <1>4, RunsFollow

LEMMA EmbeddedKeeps ==
    ASSUME MemInv, NEW c \in Writers, Embedded(c)
    PROVE  MemInv'
<1> DEFINE content == call[c].content
           ids == call[c].ids
           misses == call[c].misses
<1>1. /\ call[c].at = "embed" /\ call' = [call EXCEPT ![c] = Done] /\ UNCHANGED <<memories, fts>>
      /\ CacheFirst(c, Len(misses)) /\ StoreVectors(ids, ResultsOf(c)) /\ Link(c)
  BY DEF Embedded
<1>2. MemTypes /\ CacheTrue /\ InTime /\ IndexCoherent /\ RunOwn
  BY DEF MemInv
<1>3. /\ content \in Contents /\ Waits(c) /\ Covers(content, misses)
      /\ DOMAIN ids = DOMAIN content /\ \A i \in DOMAIN content : ids[i] = <<c, 1, i>>
      /\ \A i \in DOMAIN content : ResultsOf(c)[i] = content[i]
  BY <1>1, Holds
<1>4. Len(misses) \in Nat /\ Len(misses) <= Len(misses)
  BY <1>3 DEF Covers
<1>5. CacheTrue' /\ \A t \in Texts : cache[t] = t => cache'[t] = t
  BY <1>1, <1>2, <1>3, <1>4, CacheLearns
<1>6. /\ DOMAIN call' = Writers /\ call'[c].at = "done"
      /\ \A d \in Writers \ {c} : call'[d] = call[d]
  BY <1>1, <1>2 DEF MemTypes, Done
<1>7. Enters(c)
  BY <1>1, <1>2 DEF Enters, MemTypes
<1>8. Moves(c) /\ MemTypes'
  BY <1>1, <1>5, <1>6, <1>7, WaitEnds
<1>9. memories'[c] \in {Absent, [content |-> content, copy |-> 1]}
  BY <1>1, <1>3 DEF Waits
<1>10. Range(ids) = {<<c, 1, i>> : i \in DOMAIN content}
  <2> HIDE DEF content, ids
  <2> QED
    BY <1>3 DEF Range
<1>11. vectors' = vectors \cup {<<<<c, 1, i>>, content[i]>> : i \in DOMAIN content}
  <2>1. vectors' = vectors \cup {<<ids[i], ResultsOf(c)[i]>> : i \in DOMAIN ids}
    BY <1>1 DEF StoreVectors
  <2> HIDE DEF content, ids
  <2> QED
    BY <1>3, <2>1
<1>12. embedded' = embedded \cup ({<<c, 1, i>> : i \in DOMAIN content} \cap Chunks')
  BY <1>1, <1>10 DEF StoreVectors
<1>13. c \in Rows' => memories'[c] = [content |-> content, copy |-> 1]
  BY <1>9 DEF Rows
<1>14. Stores(c, content, DOMAIN content, DOMAIN content)
  BY <1>3, <1>6, <1>9, <1>11, <1>12, <1>13 DEF Stores
<1>15. /\ InTime'
       /\ embedded' \subseteq {v[1] : v \in vectors'} \intersect Chunks'
       /\ \A v \in vectors' : IF v[1] \in Chunks' THEN v[2] = TextOf(v[1])'
                                                  ELSE memories'[v[1][1]] = Absent
       /\ \A k \in Chunks' \ embedded' : call'[k[1]].at \in {"embed", "failed", "lost"}
  BY <1>2, <1>7, <1>8, <1>14, IndexKept
<1>16. IndexCoherent'
  BY <1>1, <1>2, <1>15, RowsStay DEF IndexCoherent
<1>17. RunsKept'
  BY <1>1, <1>2, <1>6, <1>7, LinkKept
<1> QED
  BY <1>5, <1>8, <1>15, <1>16, <1>17 DEF MemInv, RunsKept

LEMMA EmbeddingFailsKeeps ==
    ASSUME MemInv, NEW c \in Writers, EmbeddingFails(c)
    PROVE  MemInv'
<1> DEFINE content == call[c].content
           row == [content |-> content, copy |-> 2]
<1>1. /\ call[c].at = "embed" /\ call' = [call EXCEPT ![c] = Failed]
      /\ IF Stored(content) THEN UNCHANGED <<memories, fts>> ELSE AddMemory(c, content, 2)
      /\ UNCHANGED <<vectors, embedded, cache>> /\ Link(c)
  BY DEF EmbeddingFails
<1>2. MemTypes /\ CacheTrue /\ InTime /\ IndexCoherent /\ RunOwn
  BY DEF MemInv
<1>3. content \in Contents /\ Waits(c)
  BY <1>1, Holds
<1>4. CacheTrue' /\ \A t \in Texts : cache[t] = t => cache'[t] = t
  BY <1>1, <1>2 DEF CacheTrue
<1>5. /\ DOMAIN call' = Writers /\ call'[c].at = "failed"
      /\ \A d \in Writers \ {c} : call'[d] = call[d]
  BY <1>1, <1>2 DEF MemTypes, Failed
<1>6. /\ Enters(c) /\ fts' = {<<k, TextOf(k)'>> : k \in Chunks'}
      /\ \A m, n \in Rows' : memories'[m].content = memories'[n].content => m = n
  <2>1. CASE Stored(content)
    <3>1. UNCHANGED <<memories, fts>>
      BY <1>1, <2>1
    <3>2. Enters(c)
      BY <1>2, <3>1 DEF Enters, MemTypes
    <3> QED
      BY <1>2, <3>1, <3>2, RowsStay
  <2>2. CASE ~Stored(content)
    <3>1. AddMemory(c, content, 2)
      BY <1>1, <2>2
    <3>2. memories[c] = Absent
      <4>1. CASE memories[c] = [content |-> content, copy |-> 1] /\ memories[c] # Absent
        <5>1. c \in Rows /\ memories[c].content = content
          BY <4>1 DEF Rows
        <5> QED
          BY <2>2, <5>1 DEF Stored
      <4> QED
        BY <1>3, <4>1 DEF Waits
    <3> HIDE DEF content
    <3> QED
      BY <1>2, <1>3, <2>2, <3>1, <3>2, RowAdded
  <2> QED
    BY <2>1, <2>2
<1>7. Moves(c) /\ MemTypes'
  BY <1>1, <1>4, <1>5, <1>6, WaitEnds
<1>8. Stores(c, content, {}, {})
  BY <1>1, <1>3, <1>5 DEF Stores
<1>9. /\ InTime'
      /\ embedded' \subseteq {v[1] : v \in vectors'} \intersect Chunks'
      /\ \A v \in vectors' : IF v[1] \in Chunks' THEN v[2] = TextOf(v[1])'
                                                 ELSE memories'[v[1][1]] = Absent
      /\ \A k \in Chunks' \ embedded' : call'[k[1]].at \in {"embed", "failed", "lost"}
  BY <1>2, <1>6, <1>7, <1>8, IndexKept
<1>10. IndexCoherent'
  BY <1>6, <1>9 DEF IndexCoherent
<1>11. RunsKept'
  BY <1>1, <1>2, <1>5, <1>6, LinkKept
<1> QED
  BY <1>4, <1>7, <1>9, <1>10, <1>11 DEF MemInv, RunsKept

LEMMA RestartStoringKeeps ==
    ASSUME MemInv, NEW c \in Writers, RestartStoring(c)
    PROVE  MemInv'
<1> DEFINE content == call[c].content
           ids == call[c].ids
           misses == call[c].misses
<1>1. call[c].at = "embed" /\ LoseCalls /\ UNCHANGED <<memories, fts, run>>
  BY DEF RestartStoring
<1>2. MemTypes /\ CacheTrue /\ InTime /\ IndexCoherent /\ RunOwn
  BY DEF MemInv
<1>3. /\ content \in Contents /\ Waits(c) /\ Covers(content, misses)
      /\ DOMAIN ids = DOMAIN content /\ \A i \in DOMAIN content : ids[i] = <<c, 1, i>>
      /\ \A i \in DOMAIN content : ResultsOf(c)[i] = content[i]
  BY <1>1, Holds
<1>4. PICK N \in 1..3 : DOMAIN content = 1..N
  BY <1>1, Holds
<1>5. /\ DOMAIN call' = Writers /\ call'[c].at = "lost"
      /\ \A d \in Writers : \/ call'[d] = call[d]
                            \/ call[d].at \in {"run", "embed"} /\ call'[d].at = "lost"
  BY <1>1 DEF LoseCalls, Lost
<1>6. Enters(c)
  BY <1>1, <1>2 DEF Enters, MemTypes
<1>7. Chunks' = Chunks
  BY <1>1, <1>2, RowsStay
<1>8. memories'[c] \in {Absent, [content |-> content, copy |-> 1]}
  BY <1>1, <1>3 DEF Waits
<1>9. RunsKept'
  <2>1. c \in Runs => run'[c] = run[c] /\ call'[c].at \notin {"done", "failed"}
    BY <1>1, <1>5
  <2>2. DOMAIN run' = Runs /\ \A r \in Runs \ {c} : run'[r] = run[r]
    BY <1>1, <1>2 DEF RunOwn
  <2>3. \A d \in Writers \ {c} : call'[d] = call[d] \/ call'[d].at = "lost"
    BY <1>5
  <2> QED
    BY <1>6, <2>1, <2>2, <2>3, RunsFollow
<1>10. Len(misses) \in Nat /\ ids \in Seq(Range(ids)) /\ Len(ids) = N
  <2>1. ids = ChunkIds(c, [content |-> content, copy |-> 1])
    BY <1>3 DEF Waits
  <2>2. ids = [i \in 1..N |-> <<c, 1, i>>]
    BY <1>4, <2>1 DEF ChunkIds
  <2>3. \A i \in 1..N : ids[i] \in Range(ids)
    BY <1>3, <1>4 DEF Range
  <2> HIDE DEF ids
  <2>4. ids \in Seq(Range(ids)) /\ Len(ids) = N
    BY <1>4, <2>2, <2>3
  <2> QED
    BY <1>3, <2>4 DEF Covers
<1>11. ASSUME NEW n \in Nat, n <= Len(misses), CacheFirst(c, n),
              NEW places, NEW updated, Stores(c, content, places, updated)
       PROVE  MemInv'
  <2>1. CacheTrue' /\ \A t \in Texts : cache[t] = t => cache'[t] = t
    BY <1>2, <1>3, <1>11, CacheLearns
  <2>2. Moves(c) /\ MemTypes'
    BY <1>1, <1>5, <1>6, <2>1, WaitEnds
  <2>3. /\ InTime'
        /\ embedded' \subseteq {v[1] : v \in vectors'} \intersect Chunks'
        /\ \A v \in vectors' : IF v[1] \in Chunks' THEN v[2] = TextOf(v[1])'
                                                   ELSE memories'[v[1][1]] = Absent
        /\ \A k \in Chunks' \ embedded' : call'[k[1]].at \in {"embed", "failed", "lost"}
    BY <1>2, <1>6, <1>11, <2>2, IndexKept
  <2>4. IndexCoherent'
    BY <1>1, <1>2, <2>3, RowsStay DEF IndexCoherent
  <2> QED
    BY <1>9, <2>1, <2>2, <2>3, <2>4 DEF MemInv, RunsKept
<1> HIDE DEF content, ids, misses
<1>12. CASE \E n \in 1..Len(misses) : CacheFirst(c, n) /\ UNCHANGED <<vectors, embedded>>
  <2>1. PICK n \in 1..Len(misses) : CacheFirst(c, n) /\ UNCHANGED <<vectors, embedded>>
    BY <1>12
  <2>2. Stores(c, content, {}, {})
    BY <1>3, <1>5, <2>1 DEF Stores
  <2> QED
    BY <1>10, <1>11, <2>1, <2>2
<1>13. CASE \E n \in 1..Len(ids), u \in 0..1 :
              /\ CacheFirst(c, Len(misses))
              /\ vectors' = vectors \union {<<ids[i], ResultsOf(c)[i]>> : i \in 1..n}
              /\ embedded' = embedded \union (Range(SubSeq(ids, 1, n - u)) \intersect Chunks)
  <2>1. PICK n \in 1..Len(ids), u \in 0..1 :
              /\ CacheFirst(c, Len(misses))
              /\ vectors' = vectors \union {<<ids[i], ResultsOf(c)[i]>> : i \in 1..n}
              /\ embedded' = embedded \union (Range(SubSeq(ids, 1, n - u)) \intersect Chunks)
    BY <1>13
  <2>2. n \in Nat /\ n <= N /\ n - u \in Nat /\ n - u <= n
    BY <1>10
  <2>3. Range(SubSeq(ids, 1, n - u)) = {<<c, 1, i>> : i \in 1..(n - u)}
    <3> DEFINE first == SubSeq(ids, 1, n - u)
    <3>1. first \in Seq(Range(ids)) /\ Len(first) = n - u /\ \A i \in 1..(n - u) : first[i] = ids[i]
      BY <1>10, <2>2, SubSeqProperties
    <3> HIDE DEF first
    <3>2. DOMAIN first = 1..(n - u)
      BY <3>1
    <3>3. \A i \in 1..(n - u) : first[i] = <<c, 1, i>>
      BY <1>3, <1>4, <2>2, <3>1
    <3> QED
      BY <3>2, <3>3 DEF Range, first
  <2>4. vectors' = vectors \cup {<<<<c, 1, i>>, content[i]>> : i \in 1..n}
    <3>1. \A i \in 1..n : i \in DOMAIN content
      BY <1>4, <2>2
    <3> QED
      BY <1>3, <2>1, <3>1
  <2>5. embedded' = embedded \cup ({<<c, 1, i>> : i \in 1..(n - u)} \cap Chunks')
    BY <1>7, <2>1, <2>3
  <2>6. 1..n \subseteq DOMAIN content /\ 1..(n - u) \subseteq 1..n
    BY <1>4, <2>2
  <2>7. Stores(c, content, 1..n, 1..(n - u))
    BY <1>3, <1>5, <1>8, <2>4, <2>5, <2>6 DEF Stores
  <2>8. Len(misses) <= Len(misses)
    BY <1>10
  <2> QED
    BY <1>10, <1>11, <2>1, <2>7, <2>8
<1> QED
  BY <1>12, <1>13 DEF RestartStoring, content, ids, misses

LEMMA RestartKeeps ==
    ASSUME MemInv, Restart
    PROVE  MemInv'
<1>1. LoseCalls /\ UNCHANGED <<memories, fts, vectors, embedded, cache, run>>
  BY DEF Restart
<1>2. MemTypes /\ CacheTrue /\ InTime /\ IndexCoherent /\ RunOwn /\ RunLinked
  BY DEF MemInv
<1>3. /\ DOMAIN call' = Writers
      /\ \A d \in Writers : \/ call'[d] = call[d]
                            \/ call[d].at \in {"run", "embed"} /\ call'[d].at = "lost"
  BY <1>1 DEF LoseCalls, Lost
<1>4. InTime' /\ IndexCoherent'
  BY <1>1, <1>2, <1>3, CallsQuiet
<1>5. Rows' = Rows
  BY <1>1 DEF Rows
<1>6. MemTypes'
  <2>1. ASSUME NEW d \in Writers, call'[d].at = "embed"
        PROVE  Waits(d)'
    BY <1>1, <1>2, <1>3, <2>1, WaitsKept DEF MemTypes
  <2> QED
    BY <1>1, <1>2, <1>3, <1>5, <2>1 DEF MemTypes
<1>7. RunOwn' /\ RunLinked'
  <2>1. Runs \subseteq Writers
    BY DEF Writers
  <2>2. ASSUME NEW r \in Runs
        PROVE  call'[r].at \in {"done", "failed"} => call[r].at \in {"done", "failed"}
    BY <1>3, <2>1
  <2> QED
    BY <1>1, <1>2, <1>5, <2>2 DEF RunOwn, RunLinked
<1> QED
  BY <1>1, <1>2, <1>4, <1>6, <1>7 DEF MemInv, CacheTrue

\* A memory goes with its chunks, and its run keeps no link to it.
LEMMA DeleteKeeps ==
    ASSUME MemInv, NEW m \in Writers, DeleteMemory(m)
    PROVE  MemInv'
<1> DEFINE ids == Range(ChunkIds(m, memories[m]))
<1>1. /\ memories[m] # Absent /\ memories' = [memories EXCEPT ![m] = Absent]
      /\ vectors' = {v \in vectors : v[1] \notin ids}
      /\ fts' = {f \in fts : f[1] \notin ids} /\ embedded' = embedded \ ids
      /\ UNCHANGED <<cache, call>>
  BY DEF DeleteMemory
<1>2. run' = [r \in Runs |-> IF run[r] # Absent /\ run[r].memory = m
                               THEN [memory |-> None] ELSE run[r]]
  BY DEF DeleteMemory
<1>3. MemTypes /\ CacheTrue /\ InTime /\ IndexCoherent /\ RunOwn /\ RunLinked
  BY DEF MemInv
<1>4. ids = {<<m, memories[m].copy, i>> : i \in DOMAIN memories[m].content}
  BY IdsOf
<1> HIDE DEF ids
<1>5. /\ DOMAIN memories' = Writers /\ memories'[m] = Absent
      /\ \A n \in Writers \ {m} : memories'[n] = memories[n]
  BY <1>1, <1>3 DEF MemTypes
<1>6. Rows' = Rows \ {m} /\ m \in Rows
  BY <1>1, <1>5 DEF Rows
<1>7. \A k : k \in Chunks' <=> k \in Chunks /\ k \notin ids
  <2>1. ASSUME NEW k \in Chunks'
        PROVE  k \in Chunks /\ k \notin ids
    <3>1. PICK n \in Rows' : \E i \in DOMAIN memories'[n].content : k = <<n, memories'[n].copy, i>>
      BY ChunkIsNext
    <3>2. n \in Rows /\ n # m /\ n \in Writers /\ memories'[n] = memories[n]
      BY <1>5, <1>6 DEF Rows
    <3>3. k \in Chunks /\ k[1] = n
      BY <3>1, <3>2, ChunkIs
    <3> QED
      BY <1>4, <3>2, <3>3
  <2>2. ASSUME NEW k \in Chunks, k \notin ids
        PROVE  k \in Chunks'
    <3>1. PICK n \in Rows : \E i \in DOMAIN memories[n].content : k = <<n, memories[n].copy, i>>
      BY ChunkIs
    <3>2. n # m
      BY <1>4, <2>2, <3>1
    <3>3. n \in Rows' /\ memories'[n] = memories[n]
      BY <1>5, <1>6, <3>2 DEF Rows
    <3> QED
      BY <3>1, <3>3, ChunkIsNext
  <2> QED
    BY <2>1, <2>2
<1>8. \A k \in Chunks' :
        /\ k[1] \in Rows /\ k[1] # m /\ memories'[k[1]] = memories[k[1]]
        /\ TextOf(k)' = TextOf(k)
  <2> SUFFICES ASSUME NEW k \in Chunks'
               PROVE  /\ k[1] \in Rows /\ k[1] # m /\ memories'[k[1]] = memories[k[1]]
                      /\ TextOf(k)' = TextOf(k)
    OBVIOUS
  <2>1. PICK n \in Rows' : \E i \in DOMAIN memories'[n].content : k = <<n, memories'[n].copy, i>>
    BY ChunkIsNext
  <2>2. k[1] = n /\ n \in Rows /\ n # m /\ memories'[n] = memories[n]
    BY <1>5, <1>6, <2>1 DEF Rows
  <2> QED
    BY <2>2 DEF TextOf
<1>9. InTime'
  BY <1>1, <1>3, <1>6 DEF InTime
<1>10. IndexCoherent'
  <2>1. fts = {<<k, TextOf(k)>> : k \in Chunks}
    BY <1>3 DEF IndexCoherent
  <2>2. fts' = {<<k, TextOf(k)'>> : k \in Chunks'}
    <3>1. ASSUME NEW f \in fts'
          PROVE  \E k \in Chunks' : f = <<k, TextOf(k)'>>
      <4>1. f \in fts /\ f[1] \notin ids
        BY <1>1
      <4>2. PICK k \in Chunks : f = <<k, TextOf(k)>>
        BY <2>1, <4>1
      <4>3. k \in Chunks'
        BY <1>7, <4>1, <4>2
      <4> QED
        BY <1>8, <4>2, <4>3
    <3>2. ASSUME NEW k \in Chunks'
          PROVE  <<k, TextOf(k)'>> \in fts'
      <4>1. k \in Chunks /\ k \notin ids /\ TextOf(k)' = TextOf(k)
        BY <1>7, <1>8
      <4>2. <<k, TextOf(k)>> \in fts
        BY <2>1, <4>1
      <4> QED
        BY <1>1, <4>1, <4>2
    <3> QED
      BY <3>1, <3>2
  <2>3. \A a, b \in Rows' : memories'[a].content = memories'[b].content => a = b
    <3>1. \A a \in Rows' : a \in Rows /\ memories'[a] = memories[a]
      BY <1>5, <1>6 DEF Rows
    <3>2. \A a, b \in Rows : memories[a].content = memories[b].content => a = b
      BY <1>3 DEF IndexCoherent
    <3> QED
      BY <3>1, <3>2
  <2>4. embedded' \subseteq {v[1] : v \in vectors'} \intersect Chunks'
    <3> SUFFICES ASSUME NEW k \in embedded'
                 PROVE  k \in Chunks' /\ \E v \in vectors' : k = v[1]
      OBVIOUS
    <3>1. k \in embedded /\ k \notin ids
      BY <1>1
    <3>2. PICK v \in vectors : k = v[1] /\ k \in Chunks
      BY <1>3, <3>1 DEF IndexCoherent
    <3>3. v \in vectors'
      BY <1>1, <3>1, <3>2
    <3> QED
      BY <1>7, <3>1, <3>2, <3>3
  <2>5. \A v \in vectors' : IF v[1] \in Chunks' THEN v[2] = TextOf(v[1])'
                                                ELSE memories'[v[1][1]] = Absent
    <3> SUFFICES ASSUME NEW v \in vectors'
                 PROVE  IF v[1] \in Chunks' THEN v[2] = TextOf(v[1])'
                                            ELSE memories'[v[1][1]] = Absent
      OBVIOUS
    <3>1. v \in vectors /\ v[1] \notin ids /\ v[1][1] \in Writers
      BY <1>1, <1>3 DEF InTime
    <3>2. IF v[1] \in Chunks THEN v[2] = TextOf(v[1]) ELSE memories[v[1][1]] = Absent
      BY <1>3, <3>1 DEF IndexCoherent
    <3> QED
      BY <1>5, <1>7, <1>8, <3>1, <3>2
  <2>6. \A k \in Chunks' \ embedded' : call'[k[1]].at \in {"embed", "failed", "lost"}
    BY <1>1, <1>3, <1>7 DEF IndexCoherent
  <2> QED
    BY <2>2, <2>3, <2>4, <2>5, <2>6 DEF IndexCoherent
<1>11. MemTypes'
  <2>1. \A n \in Rows' : memories'[n] \in MemRows
    BY <1>3, <1>5, <1>6 DEF MemTypes, Rows
  <2>2. ASSUME NEW d \in Writers, call'[d].at = "embed"
        PROVE  Waits(d)'
    BY <1>1, <1>3, <1>5, <2>2, WaitsKept DEF MemTypes
  <2> QED
    BY <1>1, <1>3, <1>5, <2>1, <2>2 DEF MemTypes
<1>12. RunOwn' /\ RunLinked'
  <2>1. DOMAIN run' = Runs
    BY <1>2
  <2>2. ASSUME NEW r \in Runs
        PROVE  /\ run'[r] # Absent => run'[r] \in [memory : {None, r}]
               /\ run'[r] # Absent => run'[r].memory \in {None} \union ({r} \intersect Rows')
               /\ call'[r].at \in {"done", "failed"} /\ r \in Rows' => run'[r] = [memory |-> r]
    <3>1. /\ run[r] # Absent => run[r] \in [memory : {None, r}]
          /\ run[r] # Absent => run[r].memory \in {None} \union ({r} \intersect Rows)
          /\ call[r].at \in {"done", "failed"} /\ r \in Rows => run[r] = [memory |-> r]
      BY <1>3 DEF RunOwn, RunLinked
    <3>2. [memory |-> None] \in [memory : {None, r}] /\ [memory |-> None].memory = None
      OBVIOUS
    <3>3. CASE run[r] # Absent /\ run[r].memory = m
      <4>1. run'[r] = [memory |-> None]
        BY <1>2, <3>3
      <4>2. run'[r].memory = None /\ run'[r] \in [memory : {None, r}]
        BY <3>2, <4>1
      <4>3. r \in Rows' /\ call'[r].at \in {"done", "failed"} => run'[r] = [memory |-> r]
        <5> SUFFICES ASSUME r \in Rows', call'[r].at \in {"done", "failed"}
                     PROVE  FALSE
          OBVIOUS
        <5>1. r \in Rows /\ r # m /\ run[r] = [memory |-> r]
          BY <1>1, <1>6, <3>1
        <5>2. run[r].memory = r
          BY <5>1
        <5> QED
          BY <3>3, <5>1, <5>2
      <4> QED
        BY <4>2, <4>3
    <3>4. CASE ~(run[r] # Absent /\ run[r].memory = m)
      <4>1. run'[r] = run[r]
        BY <1>2, <3>4
      <4> QED
        BY <1>1, <1>6, <3>1, <3>4, <4>1
    <3> QED
      BY <3>3, <3>4
  <2> QED
    BY <2>1, <2>2 DEF RunOwn, RunLinked
<1> QED
  BY <1>1, <1>3, <1>9, <1>10, <1>11, <1>12 DEF MemInv, CacheTrue

LEMMA MemUnchanged ==
    ASSUME MemInv, UNCHANGED <<memories, fts, vectors, embedded, cache, call, run>>
    PROVE  MemInv'
<1>1. Rows' = Rows /\ Chunks' = Chunks /\ \A k : TextOf(k)' = TextOf(k)
  BY DEF Rows, Chunks, TextOf
<1>2. \A c : Waits(c) => Waits(c)'
  BY DEF Waits, Covers
<1> QED
  BY <1>1, <1>2 DEF MemInv, MemTypes, CacheTrue, InTime, IndexCoherent, RunOwn, RunLinked

LEMMA MemInit ==
    ASSUME MemoryInit
    PROVE  MemInv
<1>1. /\ memories = [m \in Writers |-> Absent] /\ fts = {} /\ vectors = {} /\ embedded = {}
      /\ cache = [t \in Texts |-> None] /\ call = [c \in Writers |-> Idle]
      /\ run = [r \in Runs |-> Absent]
  BY DEF MemoryInit
<1>2. Rows = {}
  BY <1>1 DEF Rows
<1>3. Chunks = {}
  BY <1>2, ChunkIs
<1>4. \A c \in Writers : call[c].at = "idle"
  BY <1>1 DEF Idle
<1> QED
  BY <1>1, <1>2, <1>3, <1>4 DEF MemInv, MemTypes, CacheTrue, InTime, IndexCoherent, RunOwn, RunLinked

LEMMA MemNext ==
    ASSUME MemInv, [MemoryNext]_memoryVars
    PROVE  MemInv'
<1>1. CASE Serve
  <2>1. ASSUME NEW c \in Captures, Capture(c)
        PROVE  MemInv'
    BY <2>1, CaptureKeeps
  <2>2. ASSUME NEW r \in Runs, RunStarts(r) \/ RunEnds(r)
        PROVE  MemInv'
    BY <2>2, RunStartsKeeps, RunEndsKeeps
  <2>3. ASSUME NEW c \in Writers, Embedded(c) \/ EmbeddingFails(c) \/ RestartStoring(c)
        PROVE  MemInv'
    BY <2>3, EmbeddedKeeps, EmbeddingFailsKeeps, RestartStoringKeeps
  <2>4. ASSUME NEW m \in Writers, DeleteMemory(m)
        PROVE  MemInv'
    BY <2>4, DeleteKeeps
  <2>5. CASE \E q \in Searches \union Recalls :
               Search(q) \/ SearchAnswers(q) \/ SearchFails(q) \/ Recall(q) \/ Reranked(q)
    BY <2>5, MemUnchanged DEF Search, SearchAnswers, SearchFails, Recall, Reranked
  <2> QED
    BY <1>1, <2>1, <2>2, <2>3, <2>4, <2>5, RestartKeeps DEF Serve
<1>2. CASE UNCHANGED ownVars
  BY <1>2, MemUnchanged DEF ownVars
<1> QED
  BY <1>1, <1>2 DEF MemoryNext, memoryVars

\* For any captures, runs, texts and contents, the tables of memories agree: each
\* chunk is indexed once, by its own text's vector, and a run is linked to its own
\* stored memory, whatever is deleted, fails or exits while the provider is awaited
\* (memories.ts, embeddings.ts, agent-memory-hook.ts).
THEOREM TablesAlwaysAgree == MemorySpec => []TablesAgree
<1>1. MemoryInit => MemInv
  BY MemInit
<1>2. MemInv /\ [MemoryNext]_memoryVars => MemInv'
  BY MemNext
<1>3. MemInv => TablesAgree
  BY DEF MemInv, TablesAgree
<1> QED
  BY <1>1, <1>2, <1>3, PTL DEF MemorySpec

-----------------------------------------------------------------------------
LEMMA GivenStored ==
    ASSUME [MemoryNext]_memoryVars, NEW q \in DOMAIN search
    PROVE  LET given == IF search'[q].at = "answered" /\ search[q].at = "query" THEN search'[q].result
                        ELSE IF search'[q].at = "rerank" /\ search[q].at = "query" THEN search'[q].pool
                        ELSE {} IN
           \A e \in given : e[2] # Absent /\ e[2] = memories[e[1]]
<1> DEFINE given == IF search'[q].at = "answered" /\ search[q].at = "query" THEN search'[q].result
                    ELSE IF search'[q].at = "rerank" /\ search[q].at = "query" THEN search'[q].pool
                    ELSE {}
<1>1. ASSUME NEW ids, NEW e \in Loaded(ids)
      PROVE  e[2] # Absent /\ e[2] = memories[e[1]]
  BY <1>1 DEF Loaded, Rows
<1>2. CASE search'[q] = search[q] \/ search'[q].at \notin {"answered", "rerank"} \/ search[q].at # "query"
  BY <1>2
<1>3. ASSUME NEW p \in Searches \union Recalls,
             Search(p) \/ SearchAnswers(p) \/ SearchFails(p) \/ Recall(p) \/ Reranked(p)
      PROVE  \A e \in given : e[2] # Absent /\ e[2] = memories[e[1]]
  <2>1. CASE Search(p) \/ SearchFails(p)
    BY <1>2, <2>1 DEF Search, SearchFails, Query, Failed
  <2>2. CASE SearchAnswers(p)
    <3>1. PICK hits : search' = [search EXCEPT ![p] = Answered(Loaded(hits))]
      BY <2>2 DEF SearchAnswers
    <3>2. p = q => search'[q] = Answered(Loaded(hits))
      BY <3>1
    <3>3. p = q => search'[q].at = "answered" /\ search'[q].result = Loaded(hits)
      BY <3>2 DEF Answered
    <3>4. p # q => search'[q] = search[q]
      BY <3>1
    <3> QED
      BY <1>1, <1>2, <3>3, <3>4
  <2>3. CASE Recall(p)
    <3>1. PICK hits : search' = [search EXCEPT ![p] = IF hits = {} THEN Answered({})
                                                                   ELSE Rerank(Loaded(hits))]
      BY <2>3 DEF Recall
    <3>2. p = q => search'[q] = Answered({}) \/ search'[q] = Rerank(Loaded(hits))
      BY <3>1
    <3>3. p = q => \/ search'[q].at = "answered" /\ search'[q].result = {}
                   \/ search'[q].at = "rerank" /\ search'[q].pool = Loaded(hits)
      BY <3>2 DEF Answered, Rerank
    <3>4. p # q => search'[q] = search[q]
      BY <3>1
    <3> QED
      BY <1>1, <1>2, <3>3, <3>4
  <2>4. CASE Reranked(p)
    <3>1. search[p].at = "rerank" /\ search' = [search EXCEPT ![p] = Answered(search[p].pool)]
      BY <2>4 DEF Reranked
    <3> QED
      BY <1>2, <3>1
  <2> QED
    BY <1>3, <2>1, <2>2, <2>3, <2>4
<1>4. CASE LoseCalls
  <2>1. search'[q] = Lost \/ search'[q] = search[q]
    BY <1>4 DEF LoseCalls
  <2> QED
    BY <1>2, <2>1 DEF Lost
<1>5. CASE UNCHANGED search
  BY <1>2, <1>5
<1>6. UNCHANGED search \/ LoseCalls
      \/ \E p \in Searches \union Recalls :
           Search(p) \/ SearchAnswers(p) \/ SearchFails(p) \/ Recall(p) \/ Reranked(p)
  BY DEF MemoryNext, memoryVars, ownVars, Serve,
         Capture, RunStarts, RunEnds, Embedded, EmbeddingFails,
         RestartStoring, DeleteMemory, Restart
<1> QED
  BY <1>3, <1>4, <1>5, <1>6

\* For any searches and recalls, what is given to the caller, or to the reranker,
\* is stored at that moment (memory.search; memory-retrieval.ts searchRelevant).
THEOREM AnswersAlwaysStored == MemorySpec => AnswersStored
<1>1. [MemoryNext]_memoryVars => \A q \in DOMAIN search :
             LET given == IF search'[q].at = "answered" /\ search[q].at = "query" THEN search'[q].result
                          ELSE IF search'[q].at = "rerank" /\ search[q].at = "query" THEN search'[q].pool
                          ELSE {} IN
             \A e \in given : e[2] # Absent /\ e[2] = memories[e[1]]
  BY GivenStored
<1> QED
  BY <1>1, PTL DEF MemorySpec, AnswersStored
=============================================================================
