------------------------------- MODULE Memory -------------------------------
(***************************************************************************)
(* What the assistant remembers: rows of memories, their chunks, the two   *)
(* indexes of the chunks (full text and vectors), the cache of embeddings  *)
(* (packages/storage/src/tables/memories.ts, embeddings.ts, search/) and   *)
(* the runs of agent.run (agent-runs.ts) that link to a memory.            *)
(*                                                                         *)
(* Writers are the capture stage of the pipeline (memory-capture.ts) and   *)
(* agent.run, which stores its output (rpc/methods/agent.ts,               *)
(* auto-reply/agent-memory-hook.ts); both await the embedding provider     *)
(* between the rows and the vectors.  Users delete (memory.delete).        *)
(* Readers are memory.search and the retrieval stage (memory-retrieval.ts),*)
(* which await the provider between the two indexes, and the reranker.     *)
(*                                                                         *)
(* A memory's id is the call that stores it, as the code draws a UUID per  *)
(* call; a content is the sequence of its chunks' texts, and a vector is   *)
(* the text it was computed from.                                          *)
(***************************************************************************)
EXTENDS Database

CONSTANTS Captures,   \* calls of capture()
          Runs,       \* calls of agent.run
          Searches,   \* calls of memory.search
          Recalls,    \* calls of searchRelevant(), by the retrieval stage
          Texts,
          Contents    \* what may be stored

ASSUME MemoryAssumption == /\ Captures \intersect Runs = {} /\ Searches \intersect Recalls = {}
                           /\ Contents \subseteq UNION {[1 .. n -> Texts] : n \in 1 .. 3}

VARIABLES memories,   \* rows of memories
          fts,        \* rows of memory_chunks_fts: chunk id and text
          vectors,    \* rows of memory_chunks_vec: chunk id and vector
          embedded,   \* chunk ids whose column model names a provider
          cache,      \* embedding_cache
          call,       \* of each writer: where it is
          run,        \* rows of agent_runs
          search      \* of each reader: where it is

ownVars == <<memories, fts, vectors, embedded, cache, call, run, search>>
memoryVars == <<ownVars, fileVars>>

-----------------------------------------------------------------------------
Writers == Captures \union Runs
None == "none"
Absent == [row |-> "none"]

Idle == [at |-> "idle"]
Running == [at |-> "run"]                    \* agent.run holds the slot of its lane
Embedding(content, ids, misses) ==           \* addMemoryWithEmbedding() awaits embedBatch()
    [at |-> "embed", content |-> content, ids |-> ids, misses |-> misses]
Done == [at |-> "done"]
Failed == [at |-> "failed"]                  \* done, without vectors
Lost == [at |-> "lost"]                      \* the process exited

Query(t, found) == [at |-> "query", text |-> t, found |-> found]   \* awaits embedQuery()
Rerank(pool) == [at |-> "rerank", pool |-> pool]
Answered(result) == [at |-> "answered", result |-> result]

MemoryInit == /\ DBInit
              /\ memories = [m \in Writers |-> Absent]
              /\ fts = {} /\ vectors = {} /\ embedded = {}
              /\ cache = [t \in Texts |-> None]
              /\ call = [c \in Writers |-> Idle]
              /\ run = [r \in Runs |-> Absent]
              /\ search = [q \in Searches \union Recalls |-> Idle]

\* A memory that was deleted and stored again has other chunk ids ("copy").
ChunkIds(m, row) == [i \in DOMAIN row.content |-> <<m, row.copy, i>>]
Rows == {m \in Writers : memories[m] # Absent}
Chunks == UNION {Range(ChunkIds(m, memories[m])) : m \in Rows}
TextOf(k) == memories[k[1]].content[k[3]]

Stored(content) == \E m \in Rows : memories[m].content = content

-----------------------------------------------------------------------------
\* addMemory() without a duplicate: one transaction.
AddMemory(m, content, copy) ==
    LET row == [content |-> content, copy |-> copy]
        ids == ChunkIds(m, row) IN
    /\ memories' = [memories EXCEPT ![m] = row]
    /\ fts' = fts \union {<<ids[i], content[i]>> : i \in DOMAIN content}

\* The texts that the cache lacks, by their places in order.
InOrder(places) ==
    [j \in 1 .. Cardinality(places) |->
        CHOOSE i \in places : Cardinality({k \in places : k <= i}) = j]
Misses(content) == InOrder({i \in DOMAIN content : cache[content[i]] = None})

\* Faulty variant: the j-th answer is taken for the j-th text.
ResultsInOrder(content, misses, answers) ==
    [i \in DOMAIN content |-> IF i \in DOMAIN answers THEN answers[i] ELSE cache[content[i]]]

\* embedBatchWithCache(): the j-th answer belongs to the j-th miss.
Results(content, misses, answers) ==
    [i \in DOMAIN content |->
        IF \E j \in DOMAIN misses : misses[j] = i
          THEN answers[CHOOSE j \in DOMAIN misses : misses[j] = i]
          ELSE cache[content[i]]]

\* The vectors of a call's chunks; UPDATE touches only chunks that still exist.
StoreVectors(ids, results) ==
    /\ vectors' = vectors \union {<<ids[i], results[i]>> : i \in DOMAIN ids}
    /\ embedded' = embedded \union (Range(ids) \intersect Chunks')

\* linkMemoryToAgentRun(): without the memory's row the foreign key refuses it,
\* which persistAgentRunAndAttach() only logs.
Link(r) == run' = IF r \in Runs /\ memories'[r] # Absent
                    THEN [run EXCEPT ![r] = [memory |-> r]] ELSE run

\* Captured or attached content.  A duplicate stores nothing; texts that are all
\* in the cache need no answer of the provider.
Remember(c, content) ==
    IF Stored(content)
      THEN /\ call' = [call EXCEPT ![c] = Done]
           /\ UNCHANGED <<memories, fts, vectors, embedded>>
      ELSE /\ AddMemory(c, content, 1)
           /\ LET ids == ChunkIds(c, [content |-> content, copy |-> 1])
                  misses == Misses(content) IN
              IF misses = <<>>
                THEN /\ StoreVectors(ids, Results(content, misses, <<>>))
                     /\ call' = [call EXCEPT ![c] = Done]
                ELSE /\ call' = [call EXCEPT ![c] = Embedding(content, ids, misses)]
                     /\ UNCHANGED <<vectors, embedded>>

\* capture(): finds the content stored, or stores it.
Capture(c) ==
    /\ call[c] = Idle
    /\ \E content \in Contents : Remember(c, content)
    /\ UNCHANGED <<cache, run, search>>

\* agent.run: one at a time (its lane is the subject of Lane).
RunStarts(r) ==
    /\ call[r] = Idle
    /\ \A other \in Runs : call[other].at \notin {"run", "embed"}
    /\ call' = [call EXCEPT ![r] = Running]
    /\ UNCHANGED <<memories, fts, vectors, embedded, cache, run, search>>

\* It is recorded when it ends.  Its output is attached as a memory, unless it
\* failed or its output is short.
RunEnds(r) ==
    /\ call[r] = Running
    /\ \/ /\ \E content \in Contents : Remember(r, content)
          /\ run' = [run EXCEPT ![r] = [memory |-> IF call'[r] = Done /\ memories'[r] # Absent
                                                     THEN r ELSE None]]
       \/ /\ run' = [run EXCEPT ![r] = [memory |-> None]]
          /\ call' = [call EXCEPT ![r] = Done]
          /\ UNCHANGED <<memories, fts, vectors, embedded>>
    /\ UNCHANGED <<cache, search>>

\* What the provider's answer to a call yields for its texts.
ResultsOf(c) == LET w == call[c] IN
    Results(w.content, w.misses, [j \in DOMAIN w.misses |-> w.content[w.misses[j]]])

\* setCachedEmbedding() for the first n misses.
CacheFirst(c, n) == LET w == call[c] IN
    cache' = [t \in Texts |->
                IF \E j \in 1 .. n : w.content[w.misses[j]] = t
                  THEN ResultsOf(c)[CHOOSE i \in Range(SubSeq(w.misses, 1, n)) : w.content[i] = t]
                  ELSE cache[t]]

\* The provider answers: each miss enters the cache, the vectors of the chunks
\* that the call has read are stored, a run is linked to its memory.
Embedded(c) ==
    /\ call[c].at = "embed"
    /\ CacheFirst(c, Len(call[c].misses))
    /\ call' = [call EXCEPT ![c] = Done]
    /\ UNCHANGED <<memories, fts, search>>
    /\ StoreVectors(call[c].ids, ResultsOf(c))
    /\ Link(c)

\* It fails: the memory stays, in the full text index only, or is stored once more
\* if it was deleted in the meantime and nothing else has its content.
EmbeddingFails(c) ==
    /\ call[c].at = "embed"
    /\ call' = [call EXCEPT ![c] = Failed]
    /\ IF Stored(call[c].content) THEN UNCHANGED <<memories, fts>>
                                  ELSE AddMemory(c, call[c].content, 2)
    /\ Link(c)
    /\ UNCHANGED <<vectors, embedded, cache, search>>

\* memory.delete: one transaction; ON DELETE SET NULL clears the runs' links.
DeleteMemory(m) ==
    /\ memories[m] # Absent
    /\ LET ids == Range(ChunkIds(m, memories[m])) IN
       /\ vectors' = {v \in vectors : v[1] \notin ids}
       /\ fts' = {f \in fts : f[1] \notin ids}
       /\ embedded' = embedded \ ids
    /\ memories' = [memories EXCEPT ![m] = Absent]
    /\ run' = [r \in Runs |-> IF run[r] # Absent /\ run[r].memory = m THEN [memory |-> None] ELSE run[r]]
    /\ UNCHANGED <<cache, call, search>>

-----------------------------------------------------------------------------
\* searchFts(), whose limit no instance reaches.
Found(t) == {f[1] : f \in {g \in fts : g[2] = t}}

\* Faulty variant: a memory that getMemory() misses is answered, too.
LoadedAll(ids) == {<<m, memories[m]>> : m \in {k[1] : k \in ids}}

\* The rows of the chunks' memories; a memory that getMemory() misses is skipped.
Loaded(ids) == {<<m, memories[m]>> : m \in {k[1] : k \in ids} \intersect Rows}

\* searchVector(): those of the k nearest vectors that belong to a chunk.
Nearest(near) == {v[1] : v \in near} \intersect Chunks

\* A search reads the full text index at once and awaits the query's vector.
Search(q) ==
    /\ search[q] = Idle
    /\ \E t \in Texts : search' = [search EXCEPT ![q] = Query(t, Found(t))]
    /\ UNCHANGED <<memories, fts, vectors, embedded, cache, call, run>>

\* memory.search: any chunk that either index gave may pass the minimum score.
SearchAnswers(q) ==
    /\ search[q].at = "query"
    /\ \E near \in SUBSET vectors :
         \E hits \in SUBSET (Nearest(near) \union search[q].found) :
            search' = [search EXCEPT ![q] = Answered(Loaded(hits))]
    /\ UNCHANGED <<memories, fts, vectors, embedded, cache, call, run>>

\* Without the query's vector it is an error for the caller.
SearchFails(q) ==
    /\ search[q].at = "query"
    /\ search' = [search EXCEPT ![q] = Failed]
    /\ UNCHANGED <<memories, fts, vectors, embedded, cache, call, run>>

\* searchRelevant(): the text score counts 0.3 at most, so only a chunk with a
\* vector reaches the threshold of 0.65; the full text index alone serves when the
\* query has no vector.  What was loaded is injected at once, or ranked again
\* first.
Recall(q) ==
    /\ search[q].at = "query"
    /\ \E hits \in UNION {SUBSET Nearest(near) : near \in SUBSET vectors}
                   \union SUBSET Found(search[q].text) :
         search' = [search EXCEPT ![q] = IF hits = {} THEN Answered({}) ELSE Rerank(Loaded(hits))]
    /\ UNCHANGED <<memories, fts, vectors, embedded, cache, call, run>>

\* The reranker orders what was loaded; without it, or when it fails, the order stays.
Reranked(q) ==
    /\ search[q].at = "rerank"
    /\ search' = [search EXCEPT ![q] = Answered(search[q].pool)]
    /\ UNCHANGED <<memories, fts, vectors, embedded, cache, call, run>>

-----------------------------------------------------------------------------
LoseCalls ==
    /\ call' = [c \in Writers |-> IF call[c].at \in {"run", "embed"} THEN Lost ELSE call[c]]
    /\ search' = [q \in DOMAIN search |-> IF search[q].at \in {"query", "rerank"} THEN Lost
                                                                                 ELSE search[q]]

\* The process exits and starts again: calls are lost.  The file is current, so
\* opening it changes nothing.
Restart == /\ LoseCalls
           /\ UNCHANGED <<memories, fts, vectors, embedded, cache, run>>

\* It exits while it stores what the provider has given: after some of the cache
\* entries, or after some vectors, the last of them perhaps without its UPDATE.
RestartStoring(c) ==
    /\ call[c].at = "embed"
    /\ LET misses == Len(call[c].misses)
           ids == call[c].ids IN
       \/ \E n \in 1 .. misses : CacheFirst(c, n) /\ UNCHANGED <<vectors, embedded>>
       \/ \E n \in 1 .. Len(ids), updated \in 0 .. 1 :
            /\ CacheFirst(c, misses)
            /\ vectors' = vectors \union {<<ids[i], ResultsOf(c)[i]>> : i \in 1 .. n}
            /\ embedded' = embedded \union (Range(SubSeq(ids, 1, n - updated)) \intersect Chunks)
    /\ LoseCalls
    /\ UNCHANGED <<memories, fts, run>>

Serve == \/ \E c \in Captures : Capture(c)
         \/ \E r \in Runs : RunStarts(r) \/ RunEnds(r)
         \/ \E c \in Writers : Embedded(c) \/ EmbeddingFails(c) \/ RestartStoring(c)
         \/ \E m \in Writers : DeleteMemory(m)
         \/ \E q \in Searches \union Recalls : Search(q)
         \/ \E q \in Searches : SearchAnswers(q) \/ SearchFails(q)
         \/ \E q \in Recalls : Recall(q) \/ Reranked(q)
         \/ Restart

MemoryNext == \/ boot = Open /\ Serve /\ UNCHANGED fileVars
              \/ DBNext /\ UNCHANGED ownVars
              \/ boot # Open /\ Exit /\ UNCHANGED ownVars

MemorySpec == MemoryInit /\ [][MemoryNext]_memoryVars

-----------------------------------------------------------------------------
\* The tables agree at every moment, although rows and vectors are written in
\* different transactions with a wait, a deletion or an exit between them.  Each
\* chunk of a stored memory is in the full text index once, and nothing else is;
\* no content is stored twice; a vector is that of its own chunk's text, also
\* when the cache answered for other chunks of the memory (embedBatchWithCache);
\* a chunk without vector is one whose call still waits, failed or was lost;
\* a vector without chunk belongs to a memory that was deleted during the wait
\* (memories.ts:257).
IndexCoherent ==
    /\ fts = {<<k, TextOf(k)>> : k \in Chunks}
    /\ \A m, n \in Rows : memories[m].content = memories[n].content => m = n
    /\ embedded \subseteq {v[1] : v \in vectors} \intersect Chunks
    /\ \A v \in vectors : IF v[1] \in Chunks THEN v[2] = TextOf(v[1])
                                             ELSE memories[v[1][1]] = Absent
    /\ \A k \in Chunks \ embedded : call[k[1]].at \in {"embed", "failed", "lost"}

\* A run points to no memory but its own, and only while that is stored; once the
\* run has ended, its memory, if stored, is linked: also when the embedding
\* failed, and when the memory was deleted meanwhile and stored again
\* (agent-memory-hook.ts attach, linkMemoryToAgentRun).
RunLinked ==
    \A r \in Runs :
        /\ run[r] # Absent => run[r].memory \in {None} \union ({r} \intersect Rows)
        /\ call[r].at \in {"done", "failed"} /\ r \in Rows => run[r] = [memory |-> r]

\* Tables, indexes, vectors and links agree, whatever is deleted, fails or exits while
\* the provider is awaited.  (See IndexCoherent and RunLinked.)
TablesAgree == IndexCoherent /\ RunLinked

\* What a search answers is stored at that moment, although its full text index
\* was read before the wait for the vector.  What a recall loads is stored
\* likewise; a memory deleted while the reranker works is still injected
\* (memory.search; memory-retrieval.ts searchRelevant).
AnswersStored ==
    [][\A q \in DOMAIN search :
         LET given == IF search'[q].at = "answered" /\ search[q].at = "query" THEN search'[q].result
                      ELSE IF search'[q].at = "rerank" /\ search[q].at = "query" THEN search'[q].pool
                      ELSE {} IN
         \A e \in given : e[2] # Absent /\ e[2] = memories[e[1]]]_memoryVars
=============================================================================
