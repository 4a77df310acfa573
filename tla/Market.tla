------------------------------- MODULE Market -------------------------------
(***************************************************************************)
(* Quotes of one provider: MarketCache.getQuote() and its RateLimiter      *)
(* (packages/skills-finance/src/market/cache.ts), the cache table beneath  *)
(* (storage/src/tables/market-cache.ts) and the provider's request.        *)
(* Tools, alert checks and portfolio summaries call it concurrently.  A    *)
(* call waits twice, in the limiter and for the provider; between these    *)
(* waits its steps are atomic.                                             *)
(*                                                                         *)
(* Time is counted in ticks; timestamps are ages.  The keys of a provider  *)
(* are left out: a refusal (401, 429) arrives as an Error that carries no  *)
(* status (infra/src/fetch.ts:62), so KeyRotator.markFailure() is never    *)
(* called and every key stays available.                                   *)
(***************************************************************************)
EXTENDS Integers, Sequences, FiniteSetsExt

CONSTANTS Callers,      \* concurrent calls of getQuote()
          Symbols,
          MaxRequests, Window,   \* the provider's RateLimitConfig
          DailyLimit,            \* likewise
          Ttl                    \* how long a quote is fresh

MarketAssumption == /\ {MaxRequests, Window, DailyLimit, Ttl} \subseteq Nat \ {0}
                    /\ IsFiniteSet(Callers)

VARIABLES call,      \* of each caller: where it is
          quotes,    \* market_cache: ages of the quotes
          dayCount,  \* market_cache: rate:daily:<provider>:<today>
          grants,    \* RateLimiter.timestamps
          answered,  \* quotes that the provider gave today
          passed     \* ages of the calls that this limiter let through in the window

marketVars == <<call, quotes, dayCount, grants, answered, passed>>

-----------------------------------------------------------------------------
None == -1
Expired == Ttl        \* the age of every expired quote
Outdated == Window + 1  \* the age of every timestamp outside of the window

Idle == [at |-> "idle"]
Waiting(s, ticks) == [at |-> "limit", symbol |-> s, ticks |-> ticks]
Fetching(s) == [at |-> "fetch", symbol |-> s]

MarketInit == /\ call = [c \in Callers |-> Idle]
              /\ quotes = [s \in Symbols |-> None]
              /\ dayCount = 0 /\ answered = 0
              /\ grants = <<>> /\ passed = <<>>

\* getCachedData(): a row that has not expired.
FreshQuote(s) == quotes[s] # None /\ quotes[s] < Expired

\* What is left of a list of ages, oldest first, without those at its head that
\* are outside of the window.
Recent(ages) ==
    LET inside == {i \in DOMAIN ages : ages[i] <= Window} IN
    IF inside = {} THEN <<>> ELSE SubSeq(ages, Min(inside), Len(ages))

\* A call gets through the limiter.
Pass(c, s) == /\ grants' = Append(Recent(grants), 0)
              /\ passed' = Append(passed, 0)
              /\ call' = [call EXCEPT ![c] = Fetching(s)]

\* A call sleeps until the oldest timestamp will be outside of the window.
Sleep(c, s) == /\ grants' = Recent(grants)
               /\ call' = [call EXCEPT ![c] = Waiting(s, Outdated - Head(Recent(grants)))]
               /\ UNCHANGED passed

\* Faulty variant: after its wait a call does not look at the window again.
AcquireOnce(c, s) == IF Len(Recent(grants)) < MaxRequests \/ call[c].at = "limit"
                       THEN Pass(c, s) ELSE Sleep(c, s)

\* RateLimiter.acquire(): the timestamps outside of the window go; the call gets
\* through, or sleeps and comes again.
Acquire(c, s) == IF Len(Recent(grants)) < MaxRequests THEN Pass(c, s) ELSE Sleep(c, s)

\* getQuote() of a symbol whose quote is not fresh.  A fresh one is returned,
\* and a call over the daily limit is refused, without any effect.
GetQuote(c) == /\ call[c] = Idle
               /\ \E s \in Symbols : ~FreshQuote(s) /\ Acquire(c, s)
               /\ dayCount < DailyLimit
               /\ UNCHANGED <<quotes, dayCount, answered>>

Wake(c) == /\ call[c].at = "limit" /\ call[c].ticks = 0
           /\ Acquire(c, call[c].symbol)
           /\ UNCHANGED <<quotes, dayCount, answered>>

\* The provider answers: the quote is stored, then counted.
Answer(c) == /\ call[c].at = "fetch"
             /\ quotes' = [quotes EXCEPT ![call[c].symbol] = 0]
             /\ dayCount' = dayCount + 1 /\ answered' = answered + 1
             /\ call' = [call EXCEPT ![c] = Idle]
             /\ UNCHANGED <<grants, passed>>

\* The request fails or its answer cannot be read: the call returns the last
\* quote, however old, or throws.  Nothing is counted.
Fail(c) == /\ call[c].at = "fetch"
           /\ call' = [call EXCEPT ![c] = Idle]
           /\ UNCHANGED <<quotes, dayCount, grants, answered, passed>>

\* A list of ages a tick later.
Older(ages) == [i \in DOMAIN ages |-> IF ages[i] = Outdated THEN Outdated ELSE ages[i] + 1]

\* Time passes; only the age relative to a limit matters.
ClockTick == /\ quotes' = [s \in Symbols |-> IF quotes[s] \in {None, Expired} THEN quotes[s] ELSE quotes[s] + 1]
             /\ grants' = Older(grants)
             /\ passed' = Recent(Older(passed))
             /\ call' = [c \in Callers |->
                           IF call[c].at = "limit" /\ call[c].ticks > 0 THEN [call[c] EXCEPT !.ticks = @ - 1]
                           ELSE call[c]]
             /\ UNCHANGED <<dayCount, answered>>

\* At midnight (UTC) the counter has another name, under which there is no row.
NewDay == /\ dayCount' = 0 /\ answered' = 0
          /\ UNCHANGED <<call, quotes, grants, passed>>

\* The process starts again: what is in the database is left.
MarketRestart == /\ call' = [c \in Callers |-> Idle] /\ grants' = <<>> /\ passed' = <<>>
                 /\ UNCHANGED <<quotes, dayCount, answered>>

MarketNext == \/ \E c \in Callers : GetQuote(c) \/ Wake(c) \/ Answer(c) \/ Fail(c)
              \/ ClockTick \/ NewDay \/ MarketRestart

MarketSpec == MarketInit /\ [][MarketNext]_marketVars

-----------------------------------------------------------------------------
Calls == {Idle} \cup {Fetching(s) : s \in Symbols}
         \cup {Waiting(s, n) : s \in Symbols, n \in 0..Outdated}
MarketTypeOK == /\ call \in [Callers -> Calls]
                /\ quotes \in [Symbols -> {None} \cup 0..Expired]
                /\ {dayCount, answered} \subseteq Nat
                /\ {grants, passed} \subseteq Seq(0..Outdated)

\* The provider's limits hold against any overlap of calls, as far as they go: no
\* more than maxRequests calls get through in any window, as long as the process
\* runs, and the quotes given on a day exceed the daily limit, across restarts too,
\* by no more than the calls that were already past its check.  Requests that fail
\* are not counted.
\* (cache.ts: RateLimiter.acquire, checkDailyLimit, incrementDailyCount)
QuotaKept ==
    /\ MarketTypeOK
    /\ Len(passed) <= MaxRequests
    /\ answered <= DailyLimit + Cardinality(Callers) - 1
=============================================================================
