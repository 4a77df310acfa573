----------------------------- MODULE MCFinance -----------------------------
(***************************************************************************)
(* Small instances for TLC of packages/skills-finance: alerts (Alerts),    *)
(* the cache of quotes with its limits (Market), from symbols to quotes    *)
(* and a portfolio's value (Quotes) and news (News).  A behaviour          *)
(* exercises one of them, chosen at the start, while the others rest: they *)
(* share no state.                                                         *)
(***************************************************************************)
EXTENDS Alerts, Market

CONSTANT Coins  \* the coins that are asked for by their bare ticker

VARIABLE scope  \* the part that this behaviour exercises

-----------------------------------------------------------------------------
Registrations == {<<"finnhub", "alphavantage">>, <<"twelvedata">>}

\* What the services answer; one knows nothing of the symbol, one says no change.
Said(price, previous) == [price |-> price, previous |-> previous, change |-> price - previous]
Services == [finnhub |-> {Said(2, 1), Said(0, 0)}, twelvedata |-> {Said(1, 2)}, alphavantage |-> {Said(2, 2)},
             coingecko |-> {[price |-> 3, change |-> -1]}, frankfurter |-> {[price |-> 2]}]
Portfolio == <<[symbol |-> "AAPL", qty |-> 2, cost |-> 1], [symbol |-> "BTC-USD", qty |-> 1, cost |-> 2]>>

VARIABLES stock, job, saved, price
Priced == INSTANCE Quotes WITH Callers <- {"c1", "c2"}, Registries <- Registrations, Stocks <- {"AAPL"},
                               Dotted <- {"BRK.B"}, CoinPairs <- {"BTC-USD"},
                               Currencies <- {"USD/KRW"}, Told <- Services, Holdings <- Portfolio,
                               rows <- saved, answer <- price
priceVars == <<stock, job, saved, price>>

-----------------------------------------------------------------------------
Article(url, old, scored, about) == [url |-> url, age |-> old, scored |-> scored, about |-> about]
First == Article("u1", 1, FALSE, {"A", "w"})
Newer == Article("u2", 0, FALSE, {"A"})

\* Two services have the same article, one of them with a sentiment.
Articles == [newsapi |-> <<First>>, alphavantage |-> <<Article("u1", 1, TRUE, {"A", "w"})>>,
             newsdata |-> <<Newer>>, finnhub |-> <<Newer, First>>,
             rss |-> <<Article("u3", 3, FALSE, {"w"})>>]
Limits == [tool |-> 1, rpc |-> 2, analysis |-> 2, alert |-> 1, most |-> 2]

VARIABLES reader, cache, answer
Told == INSTANCE News WITH Callers <- {"c1", "c2"}, Offers <- Articles, Symbols <- {<<"A">>},
                           Providers <- <<"newsapi", "alphavantage", "newsdata", "finnhub", "rss">>,
                           Keywords <- {<<"w">>}, Given <- {}, Limit <- Limits, Ttl <- 1, call <- reader
newsVars == <<reader, cache, answer>>

-----------------------------------------------------------------------------
ASSUME MarketAssumption

all == <<scope, vars, marketVars, priceVars, newsVars>>

\* What rests has one of its initial states.
MCInit == /\ scope \in {"alerts", "requests", "prices", "news"}
          /\ Init /\ MarketInit /\ Told!Init
          /\ Priced!Init /\ (scope # "prices" => stock = <<"twelvedata">>)

MCNext == /\ UNCHANGED scope
          /\ IF scope = "alerts" THEN Next ELSE UNCHANGED vars
          /\ IF scope = "requests" THEN MarketNext ELSE UNCHANGED marketVars
          /\ IF scope = "prices" THEN Priced!Next ELSE UNCHANGED priceVars
          /\ IF scope = "news" THEN Told!Next ELSE UNCHANGED newsVars

MCSpec == /\ MCInit /\ [][MCNext]_all
          /\ WF_vars(scope = "alerts" /\ Tick)
          /\ \A a \in Alerts : /\ WF_vars(scope = "alerts" /\ CheckStep(a))
                               /\ WF_vars(scope = "alerts" /\ OnceStep(a))

\* What a caller is told adds up: the value of a portfolio is that of the quotes it
\* shows, and news are what was asked for, none of them twice or left out.  (See
\* Quotes and News.)
AnswersAddUp == /\ scope = "prices" => Priced!SummaryAdds
                /\ scope = "news" => Told!NewsAnswers

\* What an alert on news is answered is of the last hour, as its message says.
AlertedNewsRecent == scope = "news" => Told!AlertedNewsRecent

\* The price of a coin is that of the coin.
CoinsPriced == scope = "prices" => Priced!CoinsPriced
=============================================================================
