------------------------------- MODULE Recall -------------------------------
(***************************************************************************)
(* Which memories the retrieval stage puts in front of a turn              *)
(* (packages/server/src/auto-reply/stages/memory-retrieval.ts, with        *)
(* packages/storage/src/search/hybrid.ts, fts.ts and vector.ts).  Two      *)
(* indexes give their first chunks each, in an order of their own; scores  *)
(* are joined, cut by number and by threshold, joined again by memory,     *)
(* weakened by age and perhaps ranked once more.  Memory has the waits in  *)
(* between, and what may be written meanwhile.                             *)
(*                                                                         *)
(* Scores are tenths, and sums of weighted scores hundredths.  As in the   *)
(* code, a text score is smaller the better the text matches.              *)
(***************************************************************************)
EXTENDS Integers, Sequences, FiniteSets, FiniteSetsExt, Functions

CONSTANTS Chunks,       \* each chunk's memory, in the order of their rows
          Similarities, \* 1 - distance of a vector to the query's
          TextScores,   \* 1 / (1 + |rank|) of a chunk that has the query's words
          Searchables,  \* sets of memories of a searchable type
          Freshness,    \* of each memory, in percent: exp(-daysOld / 90)
          Fetch,        \* TOP_K_FETCH * 2
          Threshold,    \* SIMILARITY_THRESHOLD
          Injected,     \* MAX_INJECTED_MEMORIES
          PoolSize      \* rerankTopKFirst

None == -100
VectorWeight == 7
TextWeight == 3

\* A text score alone never reaches the threshold (0.3 of at most 1; 0.65).
RecallAssumption ==
    /\ Chunks \in Seq(Range(Chunks)) /\ Freshness \in [Range(Chunks) -> Nat]
    /\ Similarities \subseteq Int \ {None} /\ TextScores \subseteq Nat
    /\ \A n \in TextScores : TextWeight * n < Threshold
    /\ Fetch \in Nat /\ Threshold \in Nat \ {0} /\ PoolSize \in Nat /\ Injected \in Nat

VARIABLES near,        \* each chunk's similarity, or None: it has no vector
          match,       \* its text score, or None: not found
          searchable,  \* memories of a searchable type
          at,          \* where searchRelevant() is
          mode,        \* hybrid or fts-only
          merged,      \* the chunks found, with their scores
          snippets     \* the memories in their order

vars == <<near, match, searchable, at, mode, merged, snippets>>

-----------------------------------------------------------------------------
\* The members of K by their keys, the largest first; equal ones by their places.
Before(key, place, i, j) == key[i] > key[j] \/ (key[i] = key[j] /\ place[i] < place[j])
Ordered(K, key, place) ==
    [n \in 1..Cardinality(K) |-> CHOOSE j \in K : Cardinality({i \in K : Before(key, place, i, j)}) = n - 1]
First(s, n) == SubSeq(s, 1, IF Len(s) < n THEN Len(s) ELSE n)
PlaceIn(s, x) == CHOOSE n \in DOMAIN s : s[n] = x

Init == /\ near \in [DOMAIN Chunks -> Similarities \union {None}]
        /\ match \in [DOMAIN Chunks -> TextScores \union {None}]
        /\ searchable \in Searchables
        /\ at = "idle" /\ mode = "hybrid" /\ merged = <<>> /\ snippets = <<>>

\* searchVector() and searchFts(), nearest and best rank first.
Rows == [c \in DOMAIN Chunks |-> c]
VectorResults == First(Ordered({c \in DOMAIN Chunks : near[c] # None}, near, Rows), Fetch)
TextResults == First(Ordered({c \in DOMAIN Chunks : match[c] # None}, [c \in DOMAIN Chunks |-> -match[c]], Rows), Fetch)

Scored(chunks, score) == [i \in DOMAIN chunks |-> [chunk |-> chunks[i], score |-> score[chunks[i]]]]

\* mergeHybridResults() with minScore 0: a chunk counts what the results tell of it.
Found(vec, fts) == Range(vec) \cup Range(fts)
Combined(vec, fts) == [c \in Found(vec, fts) |-> (IF c \in Range(vec) THEN VectorWeight * near[c] ELSE 0)
                                                + (IF c \in Range(fts) THEN TextWeight * match[c] ELSE 0)]
Listed(vec, fts) == [c \in Found(vec, fts) |-> IF c \in Range(vec) THEN PlaceIn(vec, c)
                                               ELSE Len(vec) + PlaceIn(fts, c)]
Hybrid == LET vec == VectorResults
              fts == TextResults
              score == Combined(vec, fts)
              reaching == {c \in Found(vec, fts) : score[c] >= 0} IN
          Scored(First(Ordered(reaching, score, Listed(vec, fts)), Fetch), score)

\* searchFts() alone.
TextOnly == Scored(TextResults, [c \in DOMAIN Chunks |-> 10 * match[c]])

Memory(n) == Chunks[merged[n].chunk]
FirstPlace(id) == Min({n \in DOMAIN merged : Memory(n) = id})

\* Faulty variant: a memory counts by its chunk that comes first.
FirstScore(id) == merged[FirstPlace(id)].score

\* bestByMemory: a memory counts by its best chunk.
BestScore(id) == Max({merged[n].score : n \in {k \in DOMAIN merged : Memory(k) = id}})

\* The cut by the raw score and the type; the order by the score that age has weakened,
\* else of the first chunks.
Memories == {Memory(n) : n \in DOMAIN merged}
Candidates ==
    Ordered({id \in Memories : BestScore(id) >= Threshold /\ id \in searchable},
            [id \in Memories |-> BestScore(id) * Freshness[id]], [id \in Memories |-> FirstPlace(id)])

-----------------------------------------------------------------------------
\* With a provider the query's vector is awaited.
Ask == /\ at = "idle" /\ at' = "embedding"
       /\ UNCHANGED <<near, match, searchable, mode, merged, snippets>>

Embedded == /\ at = "embedding" /\ at' = "found"
            /\ merged' = Hybrid
            /\ UNCHANGED <<near, match, searchable, mode, snippets>>

\* Without a provider, or when it fails, the text index serves alone.
FtsOnly == /\ at \in {"idle", "embedding"} /\ at' = "found"
           /\ mode' = "fts-only" /\ merged' = TextOnly
           /\ UNCHANGED <<near, match, searchable, snippets>>

\* Without a reranker, or when it fails, the first candidates are taken.
Take == /\ at = "found" /\ at' = "taken"
        /\ snippets' = First(Candidates, Injected)
        /\ UNCHANGED <<near, match, searchable, mode, merged>>

\* The reranker gives the pool any order.
Rerank == /\ at = "found" /\ at' = "reranked"
          /\ LET pool == First(Candidates, PoolSize) IN
             /\ pool # <<>>
             /\ \E order \in {p \in [DOMAIN pool -> DOMAIN pool] : IsInjective(p)} :
                   snippets' = First([i \in DOMAIN pool |-> pool[order[i]]], Injected)
          /\ UNCHANGED <<near, match, searchable, mode, merged>>

Next == Ask \/ Embedded \/ FtsOnly \/ Take \/ Rerank

Spec == Init /\ [][Next]_vars

-----------------------------------------------------------------------------
\* What a chunk and a memory would count if the indexes gave all they have.
FullScore(c) ==
    IF mode = "hybrid" THEN (IF near[c] = None THEN 0 ELSE VectorWeight * near[c])
                            + (IF match[c] = None THEN 0 ELSE TextWeight * match[c])
    ELSE IF match[c] = None THEN None ELSE 10 * match[c]
ChunksOf(id) == {c \in DOMAIN Chunks : Chunks[c] = id}
Full(id) == Max({FullScore(c) : c \in ChunksOf(id)})

\* The limits on chunks have cut off a chunk: enough others stand before it.
CutOff(c) == \/ near[c] # None /\ Cardinality({d \in DOMAIN Chunks : near[d] >= near[c]}) > Fetch
             \/ match[c] # None /\ Cardinality({d \in DOMAIN Chunks : match[d] # None /\ match[d] <= match[c]}) > Fetch
             \/ Cardinality({d \in DOMAIN Chunks : FullScore(d) >= FullScore(c)}) > Fetch

\* The best memories are recalled, once each: all of them have a searchable type
\* and a chunk that reaches the threshold, and one that has both is left out only
\* where the limits on chunks hide each such chunk, or where as many memories are
\* injected as may be and all of them count no less, by their best chunks, than it does
\* by those that are not hidden; a reranker chooses among those that were found.
\* (memory-retrieval.ts: searchRelevant; hybrid.ts: mergeHybridResults)
BestRecalled ==
    at \in {"taken", "reranked"} =>
      LET given == Range(snippets) IN
      /\ IsInjective(snippets) /\ given \subseteq {id \in searchable : Full(id) >= Threshold}
      /\ \A id \in searchable \ given : \A c \in ChunksOf(id) :
            \/ FullScore(c) < Threshold \/ CutOff(c)
            \/ /\ Cardinality(given) = IF at = "reranked" /\ PoolSize < Injected THEN PoolSize ELSE Injected
               /\ at = "taken" => \A other \in given :
                                    Full(other) * Freshness[other] >= FullScore(c) * Freshness[id]
=============================================================================
