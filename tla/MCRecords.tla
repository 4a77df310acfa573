----------------------------- MODULE MCRecords -----------------------------
(***************************************************************************)
(* Small instances for TLC of what the server keeps in its database: the   *)
(* portfolio records of Ledger, the memories of Memory, which shares its   *)
(* file with Database, and the choice of memories for a turn (Recall).  A  *)
(* behaviour exercises one of them, chosen at the start, while the others  *)
(* rest: they share no state.  A file that an older version has left is    *)
(* followed until it is open: once it is, memories do not look at it.      *)
(***************************************************************************)
EXTENDS Ledger, Memory

MCEntries == {[symbol |-> "A", action |-> "buy", qty |-> 1, price |-> 2],
              [symbol |-> "A", action |-> "sell", qty |-> 1, price |-> 0]}
MCAdded == {e \in MCEntries : e.action = "buy"}

MCCaptures == {"c1"}
MCRuns == {"r1"}
MCSearches == {"s1"}
MCRecalls == {"s2"}
MCTexts == {"a", "b"}
MCContents == {<<"a">>, <<"a", "b">>, <<"b", "a">>}

VARIABLES scope,                        \* the part that this behaviour exercises
          near, match, searchable, at, mode, merged, snippets   \* those of Recall

\* A new memory of two chunks, an older one and a new one, and limits below both numbers.
Rec == INSTANCE Recall WITH Chunks <- <<"a", "b", "c", "b">>,
                            Similarities <- {8, 10}, TextScores <- {3, 9},
                            Searchables <- {{"a", "b"}, {"a", "b", "c"}},
                            Freshness <- [m \in {"a", "b", "c"} |-> IF m = "a" THEN 50 ELSE 99],
                            Fetch <- 3, Threshold <- 65, Injected <- 1, PoolSize <- 2
ASSUME Rec!RecallAssumption
recallVars == <<near, match, searchable, at, mode, merged, snippets>>

all == <<scope, vars, memoryVars, recallVars>>

MCInit == /\ scope \in {"ledger", "memory", "upgrade", "recall"} /\ Init /\ MemoryInit
          /\ scope = "upgrade" <=> file # NoFile
          /\ IF scope = "recall" THEN Rec!Init
             ELSE near = <<>> /\ match = <<>> /\ searchable = {} /\ at = "idle"
                  /\ mode = "hybrid" /\ merged = <<>> /\ snippets = <<>>

MCNext == /\ UNCHANGED scope
          /\ \/ scope = "ledger" /\ Next /\ UNCHANGED <<memoryVars, recallVars>>
             \/ scope = "memory" /\ MemoryNext /\ UNCHANGED <<vars, recallVars>>
             \/ scope = "upgrade" /\ boot # Open /\ MemoryNext /\ UNCHANGED <<vars, recallVars>>
             \/ scope = "recall" /\ Rec!Next /\ UNCHANGED <<vars, memoryVars>>

MCSpec == MCInit /\ [][MCNext]_all

\* What a recall chooses is the best of what is stored.  (See Recall.)
BestRecalled == scope = "recall" => Rec!BestRecalled
=============================================================================
