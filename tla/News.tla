-------------------------------- MODULE News --------------------------------
(***************************************************************************)
(* Financial news: the aggregator of several providers with its cache, and *)
(* those who ask it (packages/skills-finance/src/news, the method          *)
(* finance.news and the alert condition of type 'news').                   *)
(*                                                                         *)
(* Nobody sees anything of a fetch before its last provider has settled    *)
(* (Promise.allSettled), so that this is one step.  A request is refused   *)
(* by an Error without a status (infra/src/fetch.ts:62): there is neither  *)
(* a second attempt nor another key, and a request just fails.             *)
(***************************************************************************)
EXTENDS Naturals, Sequences, SequencesExt

CONSTANTS Callers,
          Providers,    \* those that have a key, in the order they were registered
          Offers,       \* of each provider: its articles, the newest first
          Symbols, Keywords,   \* the lists that callers may ask for
          Given,        \* the limits that callers may give
          Limit,        \* the limit of a caller who gives none, and the most
          Ttl           \* NEWS_CACHE_TTL

VARIABLES call,    \* of each caller: where it is, and its query
          cache,   \* the rows of market_cache
          answer   \* the last one that a caller was given

vars == <<call, cache, answer>>

-----------------------------------------------------------------------------
\* The age of an article tells the hour, the day and the week before now.
Hour == 0
Day == 1
Week == 2
Oldest == 3

First(n, s) == SubSeq(s, 1, IF n < Len(s) THEN n ELSE Len(s))
About(s, terms) == SelectSeq(s, LAMBDA a : terms = <<>> \/ a.about \cap ToSet(terms) # {})
Within(s, age) == SelectSeq(s, LAMBDA a : a.age <= age)

Answers(s) == [ok |-> TRUE, items |-> s]
Fails == [ok |-> FALSE, items |-> <<>>]

\* How the request of a provider may end.  Only newsapi is told a date, by the day.
Terms(q) == IF q.symbols # <<>> THEN q.symbols ELSE q.keywords
NewsApi(q) == {Fails, Answers(First(q.limit, About(Within(Offers.newsapi, IF q.recent THEN Day ELSE Oldest),
                                                   Terms(q))))}
AlphaVantage(q) == {Fails, Answers(First(q.limit, About(About(Offers.alphavantage, q.symbols), q.keywords)))}
\* What cannot be read counts as no news.
NewsData(q) == {Fails, Answers(<<>>), Answers(First(q.limit, About(Offers.newsdata, Terms(q))))}
\* One request for each symbol, one after the other; an answer that cannot be read is
\* left out, a request that fails ends all.
FinnhubNews(q) ==
    LET Of(s) == About(Within(Offers.finnhub, Week), <<s>>) IN
    IF q.symbols = <<>> THEN {Answers(<<>>)}
    ELSE {Fails} \cup {Answers(First(q.limit, FlattenSeq([i \in DOMAIN q.symbols |->
                                    IF i \in unread THEN <<>> ELSE Of(q.symbols[i])]))) :
                       unread \in SUBSET DOMAIN q.symbols}
\* A feed that fails is left out, and so rss itself never fails.
Rss(q) == {Answers(<<>>), Answers(First(q.limit, About(Offers.rss, q.symbols \o q.keywords)))}

Outcomes(q) == {o \in [newsapi : NewsApi(q), alphavantage : AlphaVantage(q), newsdata : NewsData(q),
                       finnhub : FinnhubNews(q), rss : Rss(q)] :
                   \A p \in DOMAIN o \ ToSet(Providers) : o[p].items = <<>>}

-----------------------------------------------------------------------------
\* deduplicateByUrl(): the first of a url stays.
Deduplicated(s) == FoldLeft(LAMBDA kept, a : IF \E i \in DOMAIN kept : kept[i].url = a.url
                                              THEN kept ELSE Append(kept, a), <<>>, s)

\* The sort, which is stable: those with a sentiment first, then the newest first.
Rank(a) == (IF a.scored THEN 0 ELSE Oldest + 1) + a.age
Ranked(s) == FlattenSeq([r \in 1..(2 * Oldest + 2) |-> SelectSeq(s, LAMBDA a : Rank(a) = r - 1)])

Collected(o) == FlattenSeq([i \in DOMAIN Providers |-> o[Providers[i]].items])

\* Faulty variant: what is given twice takes two places under the limit.
MergedLate(o, q) == Deduplicated(First(q.limit, Ranked(Collected(o))))

\* What fetchNews() makes of the outcomes.
Merged(o, q) == First(q.limit, Ranked(Deduplicated(Collected(o))))

-----------------------------------------------------------------------------
NoRow == [age |-> Ttl]
Idle == [at |-> "idle"]

Query(symbols, keywords, limit, recent) ==
    [symbols |-> symbols, keywords |-> keywords, limit |-> limit, recent |-> recent]
AtMost(n) == IF n < Limit.most THEN n ELSE Limit.most

\* buildCacheKey(): neither the date nor the sources.
Key(q) == <<q.symbols, q.keywords, q.limit>>
Queries == {Query(s, w, AtMost(n), recent) : s \in Symbols, w \in Keywords \cup {<<>>}, recent \in BOOLEAN,
                                              n \in Given \cup {Limit[k] : k \in DOMAIN Limit}}
Keys == {Key(q) : q \in Queries}

Init == /\ call = [c \in Callers |-> Idle]
        /\ cache = [k \in Keys |-> NoRow]
        /\ answer = Idle

\* The articles arrive: analyze_market hands them to the model, if there are any.
Received(c, by, q, row) ==
    LET told == [by |-> by, q |-> q, items |-> row.items, told |-> row.told] IN
    IF by = "analysis" /\ row.items # <<>>
      THEN call' = [call EXCEPT ![c] = [at |-> "model", news |-> told]] /\ UNCHANGED answer
      ELSE call' = [call EXCEPT ![c] = Idle] /\ answer' = told

\* fetchNews() until it awaits the providers.
FetchNews(c, by, q) ==
    /\ call[c] = Idle
    /\ IF cache[Key(q)].age < Ttl THEN Received(c, by, q, cache[Key(q)])
       ELSE call' = [call EXCEPT ![c] = [at |-> "fetching", by |-> by, q |-> q]] /\ UNCHANGED answer
    /\ UNCHANGED cache

GetFinancialNews(c) == \E s \in Symbols, w \in Keywords, n \in Given \cup {Limit.tool} :
                          FetchNews(c, "tool", Query(s, w, AtMost(n), FALSE))
FinanceNews(c) == \E s \in Symbols, w \in Keywords, n \in Given \cup {Limit.rpc} :
                     FetchNews(c, "rpc", Query(s, w, AtMost(n), FALSE))
AnalyzeMarket(c) == \E s \in Symbols : FetchNews(c, "analysis", Query(s, <<>>, Limit.analysis, FALSE))
NewsCondition(c) == \E s \in Symbols, w \in Keywords :
                       FetchNews(c, "alert", Query(s, w, Limit.alert, TRUE))

\* What may come of each query, once all providers have settled.
Rows == [q \in Queries |->
          {[items |-> Merged(o, q), age |-> 0,
            told |-> {a.url : a \in UNION {ToSet(o[p].items) : p \in ToSet(Providers)}}] : o \in Outcomes(q)}]

\* The answer is kept, also when every provider failed.
Settled(c) ==
    /\ call[c].at = "fetching"
    /\ \E row \in Rows[call[c].q] :
          /\ cache' = [cache EXCEPT ![Key(call[c].q)] = row]
          /\ Received(c, call[c].by, call[c].q, row)

\* The model answers, or does not, or says what cannot be read; or no model that
\* is good enough can be called.  Each is an answer of the tool.
Analyzed(c) == /\ call[c].at = "model"
               /\ answer' = call[c].news /\ call' = [call EXCEPT ![c] = Idle]
               /\ UNCHANGED cache

Tick == /\ cache' = [k \in Keys |-> IF cache[k].age + 1 < Ttl THEN [cache[k] EXCEPT !.age = @ + 1] ELSE NoRow]
        /\ UNCHANGED <<call, answer>>

Next == \/ Tick
        \/ \E c \in Callers : \/ GetFinancialNews(c) \/ FinanceNews(c) \/ AnalyzeMarket(c)
                              \/ NewsCondition(c) \/ Settled(c) \/ Analyzed(c)

Spec == Init /\ [][Next]_vars

-----------------------------------------------------------------------------
\* Whatever a caller is answered, from a provider or from what another caller's query
\* left in the cache: no url is there twice, no more than it asked for, all of it about
\* what it asked for, and nothing that a provider told is missing while there is room.
NewsAnswers ==
    LET told == answer.items IN
    answer # Idle =>
       /\ \A i, j \in DOMAIN told : i < j => told[i].url # told[j].url /\ Rank(told[i]) <= Rank(told[j])
       /\ Len(told) <= answer.q.limit
       /\ About(told, answer.q.symbols \o answer.q.keywords) = told
       /\ Len(told) = answer.q.limit \/ {a.url : a \in ToSet(told)} = answer.told

\* What an alert on news is answered is of the last hour, as its message says
\* (alerts/conditions/news.ts:33).
AlertedNewsRecent == answer # Idle /\ answer.by = "alert" => Within(answer.items, Hour) = answer.items
=============================================================================
