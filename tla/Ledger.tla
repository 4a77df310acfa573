------------------------------- MODULE Ledger -------------------------------
(***************************************************************************)
(* Transactions and the holdings computed from them: the tables and        *)
(* functions of packages/storage/src/transactions.ts, the finance RPC      *)
(* methods over them (server/src/gateway/rpc/methods/finance.ts), and the  *)
(* page that shows and enters them (web/src/views/portfolio-view.ts,       *)
(* transaction-form.ts).                                                   *)
(*                                                                         *)
(* The methods do not wait, so each is one step, unless the process dies   *)
(* or SQLite fails between the change of a row and the new holdings, which *)
(* are two SQL transactions.  What interleaves are the page's requests,    *)
(* the answers and the portfolio.changed notifications, in order on one    *)
(* socket that may drop, with the changes of other callers.                *)
(* No code writes the table of portfolios: its order by updated_at is      *)
(* given by two constants.                                                 *)
(***************************************************************************)
EXTENDS Integers, Sequences, FiniteSets, Functions

CONSTANTS Portfolios, Symbols,
          Entries,      \* what a transaction may say: [symbol, action, qty, price]
          Added,        \* bound on what is added; an update may set any of Entries
          Oldest,       \* portfolio of transaction.add without a portfolioId
          Newest,       \* portfolio that portfolio.get shows
          RecentLimit,  \* transactions that portfolio.get returns
          ListLimit,    \* transactions that the page's transaction.list returns
          MaxRows,      \* bound on transactions added
          MaxChanges,   \* bound on updates and deletions
          MaxForms,     \* bound on forms opened
          MaxAttempts,  \* bound on the attempts of a form
          MaxFrames     \* bound on frames under way, for refreshes

ASSUME LedgerAssumption ==
    /\ {Oldest, Newest} \subseteq Portfolios /\ Added \subseteq Entries
    /\ \A e \in Entries : /\ e.symbol \in Symbols /\ e.qty \in Nat \ {0} /\ e.price \in Nat
                          /\ e.action \in {"buy", "sell", "dividend", "fee", "split"}
    /\ {RecentLimit, ListLimit, MaxRows, MaxChanges, MaxForms, MaxAttempts, MaxFrames} \subseteq Nat

VARIABLES rows,      \* transactions, in the order they were executed
          holdings,  \* portfolio_holdings, by portfolio
          torn,      \* portfolios whose last change ended before recomputeHoldings()
          changes,   \* updates and deletions so far
          online,    \* the page's socket is open
          up, down,  \* frames to the server and to the page
          view,      \* snapshot.holdings, transactions and deleteWaiting of the page
          current,   \* the socket stayed open since the view's last load began
          form,      \* the page's form
          failed     \* attempts of each form that the page saw fail

dbVars == <<rows, holdings, torn, changes>>
pageVars == <<online, up, down, view, current, form, failed>>
vars == <<dbVars, pageVars>>

-----------------------------------------------------------------------------
Ids == 1..MaxRows
Forms == 1..MaxForms
NoRow == [portfolio |-> "none"]
Live(i) == i <= Len(rows) /\ rows[i] # NoRow

RowsOf(p, symbol) == {i \in Ids : Live(i) /\ rows[i].portfolio = p /\ rows[i].entry.symbol = symbol}

\* recomputeHoldings() for one symbol: what is left of it, and the buys behind
\* its average cost, paid / bought.  Nothing is kept of a quantity <= 0.
Holding(p, symbol) ==
    LET OfAction(A) == {i \in RowsOf(p, symbol) : rows[i].entry.action \in A}
        Quantity(A) == SumFunction([i \in OfAction(A) |-> rows[i].entry.qty])
        cost == [i \in OfAction({"buy"}) |-> rows[i].entry.qty * rows[i].entry.price]
        qty == Quantity({"buy", "split"}) - Quantity({"sell"})
    IN  IF qty <= 0 THEN [qty |-> 0]
        ELSE [qty |-> qty, bought |-> Quantity({"buy"}), paid |-> SumFunction(cost)]

\* The holdings that recomputeHoldings() writes.
Recomputed(p) == [symbol \in Symbols |-> Holding(p, symbol)]

\* listTransactions(): the last n of a portfolio.
Latest(p, n) == LET S == {i \in Ids : Live(i) /\ rows[i].portfolio = p}
                IN  {i \in S : Cardinality({j \in S : j > i}) < n}

Nothing == [symbol \in Symbols |-> [qty |-> 0]]
Closed == [at |-> "closed", number |-> 0, attempt |-> 0]

Init == /\ rows = <<>> /\ torn = {} /\ changes = 0
        /\ holdings = [p \in Portfolios |-> Nothing]
        /\ online = TRUE /\ up = <<>> /\ down = <<>>
        /\ view = [held |-> Nothing, listed |-> {}, waiting |-> FALSE] /\ current = FALSE
        /\ form = Closed
        /\ failed = [n \in Forms |-> 0]

-----------------------------------------------------------------------------
(* The database.  A change ends with new holdings for the portfolios it    *)
(* concerns, or is torn: the row is changed, the holdings left are not.    *)
RecomputeOf(done, left) ==
    /\ holdings' = [p \in Portfolios |-> IF p \in done THEN Recomputed(p)' ELSE holdings[p]]
    /\ torn' = (torn \ done) \cup left
Recompute(ps) == RecomputeOf(ps, {})
Tear(ps) == RecomputeOf({}, ps)

Insert(p, entry, number) == /\ Len(rows) < MaxRows
                            /\ rows' = Append(rows, [portfolio |-> p, entry |-> entry, form |-> number])
                            /\ UNCHANGED changes

Change(i, row) == /\ changes < MaxChanges /\ changes' = changes + 1
                  /\ Live(i) /\ row # rows[i]
                  /\ rows' = [rows EXCEPT ![i] = row]

\* Faulty variant: only the portfolio the transaction moves to is recomputed.
AffectedByTarget(i, p) == {p}

\* updateTransaction(): the portfolios before and after the change.
Affected(i, p) == {rows[i].portfolio, p}

\* portfolio.changed goes to every connection.
Changed == IF online THEN Append(down, [kind |-> "changed"]) ELSE down
Broadcast == /\ down' = Changed
             /\ UNCHANGED <<online, up, view, current, form, failed>>

(* The methods, called by others than the page, over HTTP or another       *)
(* socket; a torn change broadcasts nothing.                               *)
Add == \E p \in Portfolios, entry \in Added :
          /\ Insert(p, entry, 0)
          /\ \/ Recompute({p}) /\ Broadcast
             \/ Tear({p}) /\ UNCHANGED pageVars

\* transaction.update; the portfolios are recomputed one after the other.
Update == \E i \in Ids, p \in Portfolios, entry \in Entries :
             /\ Live(i)
             /\ Change(i, [rows[i] EXCEPT !.portfolio = p, !.entry = entry])
             /\ \/ Recompute(Affected(i, p)) /\ Broadcast
                \/ Tear(Affected(i, p)) /\ UNCHANGED pageVars
                \/ /\ rows[i].portfolio # p
                   /\ RecomputeOf({rows[i].portfolio}, {p})
                   /\ UNCHANGED pageVars

Delete == \E i \in Ids :
             /\ Change(i, NoRow)
             /\ LET p == rows[i].portfolio IN
                \/ Recompute({p}) /\ Broadcast
                \/ Tear({p}) /\ UNCHANGED pageVars

-----------------------------------------------------------------------------
(* The server's side of the page's requests, in order.                     *)
Serves(kind) == up # <<>> /\ Head(up).kind = kind /\ up' = Tail(up)
Reply(frame) == down' = Append(down, frame)

ServeGet == /\ Serves("get")
            /\ Reply([kind |-> "got", held |-> holdings[Newest], recent |-> Latest(Newest, RecentLimit)])
            /\ UNCHANGED <<dbVars, online, view, current, form, failed>>

ServeList == /\ Serves("list")
             /\ Reply([kind |-> "listed", listed |-> Latest(Newest, ListLimit)])
             /\ UNCHANGED <<dbVars, online, view, current, form, failed>>

\* transaction.add of the form, which names no portfolio.  The notification is
\* sent before the answer; a failing recomputeHoldings() answers with an error.
ServeAdd == /\ Serves("add")
            /\ LET r == Head(up)
                   Answer(ok) == [kind |-> "added", number |-> r.number, attempt |-> r.attempt, ok |-> ok]
               IN  /\ Insert(Oldest, r.entry, r.number)
                   /\ \/ Recompute({Oldest}) /\ down' = Append(Changed, Answer(TRUE))
                      \/ Tear({Oldest}) /\ Reply(Answer(FALSE))
            /\ UNCHANGED <<online, view, current, form, failed>>

\* transaction.delete of the page; an unknown id is an error.
ServeDelete == /\ Serves("delete")
               /\ LET i == Head(up).id IN
                  IF ~Live(i)
                    THEN Reply([kind |-> "refused"]) /\ UNCHANGED dbVars
                    ELSE /\ Change(i, NoRow)
                         /\ \/ Recompute({rows[i].portfolio}) /\ down' = Append(Changed, [kind |-> "deleted"])
                            \/ Tear({rows[i].portfolio}) /\ Reply([kind |-> "refused"])
               /\ UNCHANGED <<online, view, current, form, failed>>

-----------------------------------------------------------------------------
(* The page.                                                               *)

\* Faulty variant: a list of transactions that is still under way is forgotten.
LoadOnce(asked) == IF \E i \in 1..Len(asked) : asked[i].kind \in {"get", "list"} THEN asked
                   ELSE Append(asked, [kind |-> "get"])

\* load(): portfolio.get is sent.
Load(asked) == Append(asked, [kind |-> "get"])

\* The view is opened, or the user asks for a refresh.
Refresh == /\ online /\ Len(up) + Len(down) < MaxFrames
           /\ up' = Load(up) /\ current' = TRUE
           /\ UNCHANGED <<dbVars, online, down, view, form, failed>>

Gets(kind) == down # <<>> /\ Head(down).kind = kind /\ down' = Tail(down)

\* The notification handler.
OnChanged == /\ Gets("changed")
             /\ up' = Load(up) /\ current' = TRUE
             /\ view' = [view EXCEPT !.waiting = FALSE]
             /\ UNCHANGED <<dbVars, online, form, failed>>

\* load() goes on: the snapshot is shown, and its transactions if there are as
\* many as it can hold; else the list is asked for.
OnGot == LET full == Cardinality(Head(down).recent) >= RecentLimit IN
         /\ Gets("got")
         /\ view' = [view EXCEPT !.held = Head(down).held,
                                 !.listed = IF full THEN Head(down).recent ELSE @]
         /\ up' = IF full THEN up ELSE Append(up, [kind |-> "list"])
         /\ UNCHANGED <<dbVars, online, current, form, failed>>

OnListed == /\ Gets("listed")
            /\ view' = [view EXCEPT !.listed = Head(down).listed]
            /\ UNCHANGED <<dbVars, online, up, current, form, failed>>

\* onDelete(): a transaction the view shows.
AskDelete == /\ online /\ Len(up) + Len(down) < MaxFrames
             /\ \E i \in view.listed : up' = Append(up, [kind |-> "delete", id |-> i])
             /\ UNCHANGED <<dbVars, online, down, view, current, form, failed>>

\* After the answer to a deletion the view waits 5 s for a notification (its own
\* came before the answer), and then loads again, if it is connected.
OnDeleted == /\ Gets("deleted")
             /\ view' = [view EXCEPT !.waiting = TRUE]
             /\ UNCHANGED <<dbVars, online, up, current, form, failed>>
DeleteTimer == /\ view.waiting
               /\ view' = [view EXCEPT !.waiting = FALSE]
               /\ up' = IF online THEN Load(up) ELSE up
               /\ current' = online
               /\ UNCHANGED <<dbVars, online, down, form, failed>>
OnRefused == /\ Gets("refused")
             /\ UNCHANGED <<dbVars, online, up, view, current, form, failed>>

OpenForm == /\ form.at = "closed" /\ form.number < MaxForms
            /\ form' = [at |-> "open", number |-> form.number + 1, attempt |-> 0]
            /\ UNCHANGED <<dbVars, online, up, down, view, current, failed>>

\* Faulty variant: the button stays enabled while an attempt is under way.
MaySubmitTwice == form.at \in {"open", "submitting"}

\* The button is disabled while submitting.
MaySubmit == form.at = "open"

\* onSubmit() with valid fields.
Submit == /\ MaySubmit /\ online /\ form.attempt < MaxAttempts
          /\ form' = [form EXCEPT !.at = "submitting", !.attempt = @ + 1]
          /\ \E entry \in Added :
                up' = Append(up, [kind |-> "add", number |-> form.number,
                                  attempt |-> form.attempt + 1, entry |-> entry])
          /\ UNCHANGED <<dbVars, online, down, view, current, failed>>

\* The user leaves the form, also during an attempt.
CloseForm == /\ form.at # "closed"
             /\ form' = [form EXCEPT !.at = "closed"]
             /\ UNCHANGED <<dbVars, online, up, down, view, current, failed>>

\* An attempt fails in the eyes of the page: the fields are kept for another one.
AttemptFails == /\ form' = [form EXCEPT !.at = IF @ = "submitting" THEN "open" ELSE @]
                /\ failed' = [failed EXCEPT ![form.number] = IF form.at = "submitting" THEN @ + 1 ELSE @]

\* send() gives up after 30 s; the request may still be served.
SubmitTimeout == /\ form.at = "submitting" /\ AttemptFails
                 /\ UNCHANGED <<dbVars, online, up, down, view, current>>

\* The answer to the attempt that is waited for closes the form and loads; an
\* error keeps it open.  Others are answers nobody waits for.
OnAdded == /\ Gets("added")
           /\ LET a == Head(down)
                  awaited == form.at = "submitting" /\ form.number = a.number /\ form.attempt = a.attempt
              IN  CASE ~awaited -> UNCHANGED <<up, current, form, failed>>
                    [] awaited /\ a.ok -> form' = [form EXCEPT !.at = "closed"] /\ up' = Load(up) /\ current' = TRUE /\ UNCHANGED failed
                    [] awaited /\ ~a.ok -> AttemptFails /\ UNCHANGED <<up, current>>
           /\ UNCHANGED <<dbVars, online, view>>

\* The socket drops, and with it every frame: the requests are rejected.
Disconnect == /\ online
              /\ online' = FALSE /\ up' = <<>> /\ down' = <<>> /\ current' = FALSE
              /\ IF form.at = "submitting" THEN AttemptFails ELSE UNCHANGED <<form, failed>>
              /\ UNCHANGED <<dbVars, view>>

\* AppGateway connects again; the view does not load.
Reconnect == /\ ~online /\ online' = TRUE
             /\ UNCHANGED <<dbVars, up, down, view, current, form, failed>>

Server == Add \/ Update \/ Delete \/ ServeGet \/ ServeList \/ ServeAdd \/ ServeDelete
Page == \/ Refresh \/ OnChanged \/ OnGot \/ OnListed \/ AskDelete \/ OnDeleted \/ DeleteTimer \/ OnRefused
        \/ OpenForm \/ Submit \/ CloseForm \/ SubmitTimeout \/ OnAdded \/ Disconnect \/ Reconnect
Next == Server \/ Page
Spec == Init /\ [][Next]_vars

-----------------------------------------------------------------------------
Held == [qty : {0}] \cup [qty : Nat \ {0}, bought : Nat, paid : Nat]
Row(r) == r = NoRow \/ (r.portfolio \in Portfolios /\ r.entry \in Entries /\ r.form \in 0..MaxForms)
TypeOK ==
    /\ Len(rows) <= MaxRows /\ \A i \in DOMAIN rows : Row(rows[i])
    /\ holdings \in [Portfolios -> [Symbols -> Held]]
    /\ torn \subseteq Portfolios /\ changes \in 0..MaxChanges
    /\ online \in BOOLEAN /\ current \in BOOLEAN
    /\ view.held \in [Symbols -> Held] /\ view.listed \subseteq Ids /\ view.waiting \in BOOLEAN
    /\ form.at \in {"closed", "open", "submitting"} /\ form.number \in 0..MaxForms /\ form.attempt \in 0..MaxAttempts
    /\ failed \in [Forms -> Nat]

\* The holdings of a portfolio are those of its transactions, however these were
\* added, moved between portfolios and deleted, unless the portfolio's last
\* change was cut off between the two SQL transactions; the next one heals it.
\* (transactions.ts: recomputeHoldings, updateTransaction)
HoldingsDerived ==
    /\ TypeOK
    /\ \A p \in Portfolios \ torn : holdings[p] = Recomputed(p)

\* Once nothing is under way, a page whose socket stayed open since its last
\* load shows the holdings and transactions that the database has, whatever
\* order loads, notifications and changes came in, unless a change was torn: that
\* one notifies nobody.
\* (portfolio-view.ts: load, attach)
Quiet == up = <<>> /\ down = <<>>
ViewFollows ==
    Quiet /\ current /\ torn = {} =>
      /\ view.held = holdings[Newest]
      /\ view.listed = Latest(Newest, IF Cardinality(Latest(Newest, RecentLimit)) >= RecentLimit
                                        THEN RecentLimit ELSE ListLimit)

\* A form enters its transaction twice only after an attempt whose answer the
\* page did not get, or got as an error.  (transaction-form.ts: onSubmit)
EnteredOnce ==
    \A n \in Forms : Cardinality({i \in Ids : Live(i) /\ rows[i].form = n}) <= 1 + failed[n]

\* The portfolio page shows what is stored, and what is entered in it is entered once.
PageKept == ViewFollows /\ EnteredOnce
=============================================================================
