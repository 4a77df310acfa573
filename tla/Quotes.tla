------------------------------- MODULE Quotes -------------------------------
(***************************************************************************)
(* From a symbol to a quote, and from quotes to a portfolio's value: the   *)
(* registry of providers, what each makes of its service's answer, the     *)
(* normaliser, the tools and the valuation of a portfolio                  *)
(* (packages/skills-finance/src/market, news/portfolio/tracker.ts and the  *)
(* method finance.quote).  Limits and daily counters are those of Market;  *)
(* no key is ever taken out of service (see there), so that each provider  *)
(* that was registered is available.                                       *)
(***************************************************************************)
EXTENDS Integers, Sequences, FiniteSets, SequencesExt

CONSTANTS Callers,
          Registries,   \* the stock providers that may have keys, in their order
          Stocks, Dotted, Coins, CoinPairs, Currencies,   \* forms of symbols
          Told,         \* what each service may answer, [price, previous, change]
          Holdings      \* of the portfolio: [symbol, qty, cost]

VARIABLES stock,    \* the stock providers that have keys
          job,      \* of each caller: its quotes under way
          rows,     \* the last quote of each symbol in market_cache
          answer    \* the last one that a tool gave

vars == <<stock, job, rows, answer>>

-----------------------------------------------------------------------------
\* What is not in a service's answer.
Absent == -1
OrZero(n) == IF n = Absent THEN 0 ELSE n

\* The bare ticker of a coin has the form of a stock's (finnhub.test.ts:37).
Supported == [finnhub |-> Stocks \cup Coins, twelvedata |-> Stocks \cup Coins,
              alphavantage |-> Stocks \cup Coins \cup Dotted,
              coingecko |-> Coins \cup CoinPairs, frankfurter |-> Currencies]
AllSymbols == UNION {Supported[p] : p \in DOMAIN Supported}
Registered == stock \o <<"coingecko", "frankfurter">>

\* resolve(): the first that supports the symbol; without one it throws.
Supporting(s) == SelectSeq(Registered, LAMBDA p : s \in Supported[p])
Resolve(s) == Supporting(s)[1]

-----------------------------------------------------------------------------
\* getQuote(), by provider.  An Error of safeFetchJson() has no status, so that neither
\* retry() nor the rotation of keys tries again: the first failure is the outcome.  What
\* cannot be read fails as well; for an unknown symbol Finnhub answers with zeros.
Failures == {[failed |-> TRUE]}
FinnhubTells == Failures \cup {t \in Told.finnhub : t.price # 0 \/ t.previous # 0}
TwelveDataTells == Failures \cup Told.twelvedata
AlphaVantageTells == Failures \cup Told.alphavantage
CoinGeckoTells == Failures \cup Told.coingecko
FrankfurterTells == Failures \cup Told.frankfurter

\* normalizeQuote(), by provider.  Percentages, the
\* range of the day and the volume are left out.
Quote(p, price, change, previous, delayed) ==
    [by |-> p, price |-> price, change |-> change, previous |-> previous, delayed |-> delayed]

FinnhubQuotes == {Quote("finnhub", t.price, t.price - t.previous, t.previous, FALSE) : t \in FinnhubTells \ Failures}
TwelveDataQuotes == {Quote("twelvedata", t.price, t.price - t.previous, t.previous, TRUE) : t \in TwelveDataTells \ Failures}
AlphaVantageQuotes == {Quote("alphavantage", t.price, t.change, t.previous, TRUE) : t \in AlphaVantageTells \ Failures}
CoinGeckoQuotes == {Quote("coingecko", OrZero(t.price), OrZero(t.change), 0, FALSE) : t \in CoinGeckoTells \ Failures}
FrankfurterQuotes == {Quote("frankfurter", OrZero(t.price), 0, OrZero(t.price), FALSE) : t \in FrankfurterTells \ Failures}

Quotes == [finnhub |-> FinnhubQuotes, twelvedata |-> TwelveDataQuotes, alphavantage |-> AlphaVantageQuotes,
           coingecko |-> CoinGeckoQuotes, frankfurter |-> FrankfurterQuotes]

\* normalizeHistorical(): the instants of three candles, as the service lists them.
Newest == <<3, 2, 1>>
Sorted(times) == Reverse(times)
Candles == [finnhub |-> Reverse(Newest), twelvedata |-> Sorted(Newest), alphavantage |-> Sorted(Newest),
            coingecko |-> Reverse(Newest)]

-----------------------------------------------------------------------------
Idle == [at |-> "idle"]
NoQuote == [by |-> "nobody"]
Error == [tool |-> "none"]

Init == /\ stock \in Registries
        /\ job = [c \in Callers |-> Idle]
        /\ rows = [s \in AllSymbols |-> [fresh |-> FALSE, quote |-> NoQuote]]
        /\ answer = Error

\* Faulty variant: the totals are read before the quote is awaited, when they are 0.
CountedLate(j, i, quote) ==
    [j EXCEPT !.waiting = @ \ {i}, !.quotes[i] = quote,
              !.value = j.parts[i].qty * quote.price, !.cost = j.parts[i].qty * j.parts[i].cost]

\* valuate(): what a quote adds.
Counted(j, i, quote) ==
    [j EXCEPT !.waiting = @ \ {i}, !.quotes[i] = quote,
              !.value = @ + j.parts[i].qty * quote.price, !.cost = @ + j.parts[i].qty * j.parts[i].cost]

\* The change of the day, from the quotes that valuate() kept by symbol.
DailyChange(j) == FoldLeftDomain(LAMBDA sum, i : sum + j.parts[i].qty * j.quotes[i].change, 0, j.parts)

\* Tools and methods await their quotes, all at the same time.
Asked(c, tool, parts) ==
    LET known == {i \in DOMAIN parts : Supporting(parts[i].symbol) # <<>>}
        fresh == {i \in known : rows[parts[i].symbol].fresh}
        j == [at |-> "quotes", tool |-> tool, parts |-> parts, waiting |-> known, value |-> 0, cost |-> 0,
              quotes |-> [i \in DOMAIN parts |-> NoQuote], failed |-> known # DOMAIN parts] IN
    /\ job[c] = Idle
    /\ job' = [job EXCEPT ![c] = FoldLeftDomain(LAMBDA k, i : IF i \in fresh THEN Counted(k, i, rows[parts[i].symbol].quote)
                                                              ELSE k, j, parts)]
    /\ UNCHANGED <<stock, rows, answer>>

One(s) == <<[symbol |-> s, qty |-> 1, cost |-> 0]>>
GetStockPrice(c) == \E s \in Stocks \cup Dotted : Asked(c, "get_stock_price", One(s))
GetCryptoPrice(c) == \E s \in Coins \cup CoinPairs : Asked(c, "get_crypto_price", One(s))
GetForexRate(c) == \E s \in Currencies : Asked(c, "get_forex_rate", One(s))
GetPortfolioSummary(c) == Asked(c, "get_portfolio_summary", Holdings)

\* A quote arrives and is stored.  Of a summary that has failed nobody waits for it.
Arrived(c) ==
    /\ job[c].at = "quotes"
    /\ \E i \in job[c].waiting : LET s == job[c].parts[i].symbol IN
       \E quote \in Quotes[Resolve(s)] :
          /\ rows' = [rows EXCEPT ![s] = [fresh |-> TRUE, quote |-> quote]]
          /\ job' = [job EXCEPT ![c] = Counted(@, i, quote)]
    /\ UNCHANGED <<stock, answer>>

\* The service cannot be reached or says nothing that can be read: the last quote
\* serves, marked as delayed, or the whole is an error (Promise.all).
NotArrived(c) ==
    /\ job[c].at = "quotes"
    /\ \E i \in job[c].waiting : LET last == rows[job[c].parts[i].symbol].quote IN
          job' = [job EXCEPT ![c] = IF last # NoQuote THEN Counted(@, i, [last EXCEPT !.delayed = TRUE])
                                    ELSE [@ EXCEPT !.waiting = @ \ {i}, !.failed = TRUE]]
    /\ UNCHANGED <<stock, rows, answer>>

\* All are there, and the tool answers.
Finished(c) ==
    /\ job[c].at = "quotes" /\ job[c].waiting = {}
    /\ answer' = IF job[c].failed THEN Error
                 ELSE [tool |-> job[c].tool, parts |-> job[c].parts, quotes |-> job[c].quotes,
                       value |-> job[c].value, cost |-> job[c].cost, change |-> DailyChange(job[c])]
    /\ job' = [job EXCEPT ![c] = Idle]
    /\ UNCHANGED <<stock, rows>>

\* A chart is neither stored nor counted.  For a pair of currencies the service is
\* asked, and then nothing can be made of its answer.
GetMarketChart(c) ==
    /\ job[c] = Idle
    /\ \E s \in AllSymbols :
          /\ Supporting(s) # <<>>
          /\ answer' \in {Error} \cup {[tool |-> "get_market_chart", times |-> Candles[p]] :
                                       p \in {Resolve(s)} \cap DOMAIN Candles}
    /\ UNCHANGED <<stock, job, rows>>

Expire(s) == /\ rows[s].fresh
             /\ rows' = [rows EXCEPT ![s].fresh = FALSE]
             /\ UNCHANGED <<stock, job, answer>>

Next == \/ \E c \in Callers : \/ GetStockPrice(c) \/ GetCryptoPrice(c) \/ GetForexRate(c)
                              \/ GetPortfolioSummary(c) \/ GetMarketChart(c)
                              \/ Arrived(c) \/ NotArrived(c) \/ Finished(c)
        \/ \E s \in AllSymbols : Expire(s)

Spec == Init /\ [][Next]_vars

-----------------------------------------------------------------------------
Sum(s) == FoldLeft(LAMBDA a, b : a + b, 0, s)

\* In whatever order the quotes of a summary arrive, and whoever else asks for them
\* meanwhile: its value, its cost and the change of the day are those of the quotes it
\* shows, one for each holding.  A quote's change agrees with its two prices, where
\* there are two; a chart runs forward in time.
SummaryAdds ==
    answer # Error =>
      IF answer.tool = "get_market_chart" THEN \A i, j \in DOMAIN answer.times : i < j => answer.times[i] < answer.times[j]
      ELSE LET shown == [i \in DOMAIN answer.parts |-> answer.quotes[i]] IN
           /\ answer.value = Sum([i \in DOMAIN shown |-> answer.parts[i].qty * shown[i].price])
           /\ answer.cost = Sum([i \in DOMAIN shown |-> answer.parts[i].qty * answer.parts[i].cost])
           /\ answer.change = Sum([i \in DOMAIN shown |-> answer.parts[i].qty * shown[i].change])
           /\ \A i \in DOMAIN shown : shown[i].previous # 0 => shown[i].change = shown[i].price - shown[i].previous

\* The price of a coin is that of the coin (market/index.ts, get_crypto_price).
CoinsPriced == answer.tool = "get_crypto_price" => answer.quotes[1].by = "coingecko"
=============================================================================
