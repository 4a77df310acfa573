--------------------------- MODULE AgentLoopProofs ---------------------------
(***************************************************************************)
(* Safety of AgentLoop for any tools, rules, models, requests and bounds:  *)
(* the history a model is sent is one it accepts, only permitted tools     *)
(* run, and the row of a run names what ran.                               *)
(*                                                                         *)
(* The three depend on one another's state: the results of a message are   *)
(* those of the calls before it, in their order, so that a call's result   *)
(* is found by its place; what ran is then what the results say ran and    *)
(* what the jobs of the last answer say has begun; and every call is of a  *)
(* tool the route allows, for which every model left is high enough.       *)
(***************************************************************************)
EXTENDS AgentLoop, FiniteSetTheorems, SequenceTheorems, WellFoundedInduction, TLAPS

CallRecords == [id : Nat \X Nat, tool : Tools]
Outcomes == {"badInput", "denied", "ok", "failed"}
Took == {"ok", "failed"}
Messages == [calls : Seq(CallRecords), made : Seq(CallRecords),
             results : Seq([id : Nat \X Nat, outcome : Outcomes])]

\* Phases in which execute() goes on.
Live == {"turn", "call", "backoff", "answered", "tools"}
Phases == Live \cup {"idle", "failed", "over"}

LoopTypes ==
    /\ phase \in Phases
    /\ rules \in RuleSets
    /\ route.allowed \subseteq Tools
    /\ chain \in Seq(Tiers)
    /\ turns \in Nat
    /\ msgs \in Seq(Messages)
    /\ ran \subseteq CallRecords

\* Every call of the history is of a tool that the route allows, the calls of an
\* answer have different ids, and they are what the buffer keeps of those made.
CallsSound ==
    \A i \in DOMAIN msgs :
        LET calls == msgs[i].calls
        IN  /\ \A k \in DOMAIN calls : calls[k].tool \in route.allowed
            /\ \A k, l \in DOMAIN calls : calls[k].id = calls[l].id => k = l

\* Results stand behind the calls they are for, and calls without results are
\* those of the last answer, whose tools run.
ResultsFollow ==
    /\ \A i \in DOMAIN msgs :
         /\ msgs[i].calls # <<>> /\ i < Len(msgs) =>
              /\ DOMAIN msgs[i + 1].results = DOMAIN msgs[i].calls
              /\ \A k \in DOMAIN msgs[i].calls : msgs[i + 1].results[k].id = msgs[i].calls[k].id
         /\ msgs[i].results # <<>> => i > 1 /\ msgs[i - 1].calls # <<>>
    /\ phase \in Live \ {"tools"} /\ msgs # <<>> => msgs[Len(msgs)].calls = <<>>
    /\ phase = "tools" =>
         /\ msgs # <<>> /\ Calls # <<>>
         /\ jobs \in [DOMAIN Calls -> Outcomes \cup {"running", "called"}]
    /\ phase # "tools" => jobs = <<>>

\* The calls whose results say that they ran, and those that have begun.
TookCalls ==
    UNION {{msgs[i].calls[k] : k \in {l \in DOMAIN msgs[i].calls : msgs[i + 1].results[l].outcome \in Took}} :
             i \in 1..(Len(msgs) - 1)}
BegunCalls == {Calls[k] : k \in {l \in DOMAIN jobs : jobs[l] \in Took \cup {"called"}}}

RanAccounted == phase \in Live => ran = TookCalls \cup BegunCalls

\* What ran was allowed, and denied by no rule; every model left may run what is
\* allowed.
RanPermitted ==
    /\ \A call \in ran :
         /\ call.tool \in route.allowed
         /\ EvaluateToolPolicy(rules, call.tool, User, User) # "deny"
    /\ \A t \in route.allowed, i \in DOMAIN chain : MinModel[t] <= chain[i]

RowWritten == (phase # "over" => recorded = NoRow) /\ EffectsRecorded

LoopInv == /\ LoopTypes /\ CallsSound /\ ResultsFollow /\ CallsKept
           /\ RanAccounted /\ RanPermitted /\ RowWritten

-----------------------------------------------------------------------------
(* Induction over an initial segment of the naturals, and folds.           *)

\* A set of numbers that has a member has a least one.
LEMMA LeastMember ==
    ASSUME NEW S, S \subseteq Nat, S # {}
    PROVE  \E x \in S : \A y \in S : x <= y
<1>1. PICK x \in S : \A y \in S : ~ (<<y, x>> \in OpToRel(<, Nat))
  BY NatLessThanWellFounded, WFMin
<1>2. \A y \in S : x <= y
  <2> SUFFICES ASSUME NEW y \in S PROVE x <= y
    OBVIOUS
  <2>1. x \in Nat /\ y \in Nat
    OBVIOUS
  <2>2. ~ (y < x)
    BY <1>1, <2>1 DEF OpToRel
  <2> QED
    BY <2>1, <2>2
<1> QED
  BY <1>2

\* A set that holds 0 and the successors of its members up to n holds all of them.
LEMMA UpTo ==
    ASSUME NEW n \in Nat, NEW S, 0 \in S, \A k \in 1..n : k - 1 \in S => k \in S
    PROVE  \A k \in 0..n : k \in S
<1> DEFINE Bad == (0..n) \ S
<1>1. SUFFICES ASSUME Bad # {} PROVE FALSE
  OBVIOUS
<1>2. PICK k \in Bad : \A m \in Bad : k <= m
  <2>1. Bad \subseteq Nat
    OBVIOUS
  <2> HIDE DEF Bad
  <2> QED
    BY <1>1, <2>1, LeastMember
<1>3. k \in 1..n /\ k - 1 \in 0..n /\ ~ (k <= k - 1)
  OBVIOUS
<1>4. k - 1 \in S
  BY <1>2, <1>3
<1> QED
  BY <1>3, <1>4

\* The last index is the highest.
LEMMA MaxOfSegment ==
    ASSUME NEW m \in Nat, NEW T, T \subseteq 1..m, m \in T
    PROVE  Max(T) = m
<1>1. \A y \in T : m >= y
  OBVIOUS
<1> DEFINE x == Max(T)
<1>2. x \in T /\ \A y \in T : x >= y
  BY <1>1 DEF Max
<1> HIDE DEF x
<1>3. x \in 1..m /\ x >= m
  BY <1>2
<1>4. x = m
  BY <1>3
<1> QED
  BY <1>4 DEF x

\* A fold over sets of indices that takes the highest first is a function: with the
\* folds over the subsets of 1..m, those over the subsets of 1..m + 1 are one step.
LEMMA FoldExists ==
    ASSUME NEW n \in Nat, NEW A, NEW base \in A, NEW step \in [A \X (1..n) -> A]
    PROVE  \E g \in [SUBSET (1..n) -> A] :
              \A T \in SUBSET (1..n) :
                 /\ g[T] = IF T = {} THEN base ELSE step[<<g[T \ {Max(T)}], Max(T)>>]
                 /\ T # {} => Max(T) \in 1..n
<1> DEFINE Fold(m, g) == /\ g \in [SUBSET (1..m) -> A]
                         /\ \A T \in SUBSET (1..m) :
                              /\ g[T] = IF T = {} THEN base ELSE step[<<g[T \ {Max(T)}], Max(T)>>]
                              /\ T # {} => Max(T) \in 1..n
           S == {m \in 0..n : \E g : Fold(m, g)}
<1>1. 0 \in S
  <2> DEFINE g == [T \in SUBSET (1..0) |-> base]
  <2>1. \A T \in SUBSET (1..0) : T = {}
    OBVIOUS
  <2>2. Fold(0, g)
    BY <2>1
  <2> HIDE DEF Fold
  <2>3. (\E f : Fold(0, f)) /\ 0 \in 0..n
    BY <2>2
  <2> QED
    BY <2>3
<1>2. ASSUME NEW m \in 1..n, m - 1 \in S PROVE m \in S
  <2>1. PICK h : Fold(m - 1, h)
    BY <1>2
  <2> DEFINE g == [T \in SUBSET (1..m) |-> IF m \in T THEN step[<<h[T \ {m}], m>>] ELSE h[T]]
  <2>2. \A T \in SUBSET (1..m) : T \ {m} \in SUBSET (1..(m - 1))
    OBVIOUS
  <2>3. ASSUME NEW T \in SUBSET (1..m), m \in T
        PROVE  /\ g[T] = step[<<g[T \ {Max(T)}], Max(T)>>] /\ g[T] \in A
               /\ Max(T) \in 1..n
    <3>1. Max(T) = m
      <4>1. m \in Nat /\ T \subseteq 1..m
        OBVIOUS
      <4> QED
        BY <2>3, <4>1, MaxOfSegment
    <3>2. T \ {m} \in SUBSET (1..(m - 1)) /\ T \ {m} \in SUBSET (1..m)
      BY <2>2
    <3>3. g[T \ {m}] = h[T \ {m}] /\ h[T \ {m}] \in A
      BY <3>2, <2>1
    <3> QED
      BY <2>3, <3>1, <3>3
  <2>4. ASSUME NEW T \in SUBSET (1..m), m \notin T
        PROVE  /\ g[T] = IF T = {} THEN base ELSE step[<<g[T \ {Max(T)}], Max(T)>>]
               /\ g[T] \in A
               /\ T # {} => Max(T) \in 1..n
    <3>1. T \in SUBSET (1..(m - 1)) /\ T \ {Max(T)} \in SUBSET (1..(m - 1)) /\ m \notin T \ {Max(T)}
      BY <2>2, <2>4
    <3>2. T \ {Max(T)} \in SUBSET (1..m)
      OBVIOUS
    <3>3. g[T] = h[T] /\ g[T \ {Max(T)}] = h[T \ {Max(T)}]
      BY <2>4, <3>1, <3>2
    <3> QED
      BY <2>1, <3>1, <3>3
  <2>5. Fold(m, g)
    <3>1. \A T \in SUBSET (1..m) : g[T] \in A
      BY <2>3, <2>4
    <3>2. g = [T \in SUBSET (1..m) |-> g[T]]
      OBVIOUS
    <3> HIDE DEF g
    <3>3. g \in [SUBSET (1..m) -> A]
      BY <3>1, <3>2
    <3> QED
      BY <2>3, <2>4, <3>3
  <2> HIDE DEF Fold
  <2>6. (\E f : Fold(m, f)) /\ m \in 0..n
    BY <2>5
  <2> QED
    BY <2>6
<1>3. n \in S
  <2> HIDE DEF S
  <2> QED
    BY <1>1, <1>2, UpTo
<1> QED
  BY <1>3

\* A fold over the subsets of 1..n whose steps are those of step, in A.
FoldsBy(n, A, base, step, iter) ==
    /\ n \in Nat /\ base \in A /\ step \in [A \X (1..n) -> A]
    /\ iter[{}] = base
    /\ \A T \in SUBSET (1..n) : T # {} /\ iter[T \ {Max(T)}] \in A =>
          iter[T] = step[<<iter[T \ {Max(T)}], Max(T)>>]

\* What such a fold makes of the first k indices, for each k.
LEMMA FoldPrefixes ==
    ASSUME NEW n, NEW A, NEW base, NEW step, NEW iter, FoldsBy(n, A, base, step, iter)
    PROVE  \E F \in [0..n -> A] :
              /\ F[0] = base /\ F[n] = iter[1..n]
              /\ \A k \in 1..n : F[k] = step[<<F[k - 1], k>>]
<1> USE DEF FoldsBy
<1>1. ASSUME NEW k \in 1..n, iter[1..(k - 1)] \in A
      PROVE  iter[1..k] = step[<<iter[1..(k - 1)], k>>] /\ iter[1..k] \in A
  <2>1. 1..k \in SUBSET (1..n) /\ 1..k # {} /\ k \in 1..k
    OBVIOUS
  <2>2. Max(1..k) = k
    BY <2>1, MaxOfSegment
  <2>3. (1..k) \ {k} = 1..(k - 1)
    OBVIOUS
  <2> QED
    BY <1>1, <2>1, <2>2, <2>3
<1> DEFINE S == {k \in 0..n : iter[1..k] \in A}
<1>2. 0 \in S
  <2>1. 1..0 = {}
    OBVIOUS
  <2> QED
    BY <2>1
<1>3. ASSUME NEW k \in 1..n, k - 1 \in S PROVE k \in S
  <2>1. k \in 0..n /\ iter[1..(k - 1)] \in A
    BY <1>3
  <2>2. iter[1..k] \in A
    BY <1>1, <2>1
  <2> QED
    BY <2>1, <2>2
<1>4. \A k \in 0..n : k \in S
  <2> HIDE DEF S
  <2> QED
    BY <1>2, <1>3, UpTo
<1> DEFINE F == [k \in 0..n |-> iter[1..k]]
<1>5. F \in [0..n -> A]
  BY <1>4
<1>6. F[0] = base /\ F[n] = iter[1..n]
  <2>1. 1..0 = {}
    OBVIOUS
  <2> QED
    BY <2>1
<1>7. ASSUME NEW k \in 1..n PROVE F[k] = step[<<F[k - 1], k>>]
  <2>1. k - 1 \in 0..n /\ k \in 0..n
    OBVIOUS
  <2> QED
    BY <1>1, <1>4, <2>1
<1> QED
  BY <1>5, <1>6, <1>7

-----------------------------------------------------------------------------
(* What the adapters and the buffer make of an answer.                     *)

Buffers == [pending : SUBSET Nat, done : Seq(Nat), broken : BOOLEAN]
Rest == {buffer \in Buffers : buffer.pending = {}}

LEMMA NewBufferType == NewBuffer \in Rest
<1>1. <<>> \in Seq(Nat)
  OBVIOUS
<1> QED
  BY <1>1 DEF NewBuffer, Rest, Buffers

\* A call that starts takes the room of the buffer.
LEMMA StartedIs ==
    ASSUME NEW blocks, NEW buffer, buffer \in Buffers, NEW i \in Nat,
           NEW b, b = Started(blocks, buffer, i)
    PROVE  b \in Buffers /\ b.pending = {i} /\ b.done = buffer.done
<1>1. b = [buffer EXCEPT !.pending = {i}]
  BY DEF Started, Feed
<1> QED
  BY <1>1 DEF Buffers

\* The end of a pending call makes it one of the answer's calls; without one it is
\* passed over.
LEMMA EndedIs ==
    ASSUME NEW blocks \in Seq(Block), NEW buffer \in Buffers, NEW i, NEW j \in DOMAIN blocks,
           buffer.pending = {j}
    PROVE  /\ Ended(blocks, buffer, i) \in Rest
           /\ Ended(blocks, buffer, i).done = Append(buffer.done, j)
<1>1. (CHOOSE k \in {j} : TRUE) = j
  OBVIOUS
<1>2. Ended(blocks, buffer, i) = [buffer EXCEPT !.pending = {}, !.done = Append(@, j),
                                                !.broken = @ \/ blocks[j].cut]
  <2>1. buffer.pending # {}
    OBVIOUS
  <2> QED
    BY <1>1, <2>1 DEF Ended, Feed
<1>3. blocks[j] \in Block /\ j \in Nat
  OBVIOUS
<1>4. Append(buffer.done, j) \in Seq(Nat)
  BY <1>3 DEF Buffers
<1>5. (buffer.broken \/ blocks[j].cut) \in BOOLEAN
  OBVIOUS
<1> QED
  BY <1>2, <1>4, <1>5 DEF Buffers, Rest

LEMMA EndedPasses ==
    ASSUME NEW blocks, NEW buffer \in Rest, NEW i
    PROVE  Ended(blocks, buffer, i) = buffer
BY DEF Ended, Feed, Rest

\* The calls that were made are a fold over the blocks.
LEMMA MadeFold ==
    ASSUME NEW blocks \in Seq(Block), turns \in Nat
    PROVE  \E M \in [0..Len(blocks) -> Seq(CallRecords)] :
              /\ M[0] = <<>> /\ M[Len(blocks)] = Made(blocks)
              /\ \A k \in 1..Len(blocks) :
                    M[k] = IF IsCall(blocks[k]) THEN Append(M[k - 1], CallOf(blocks, k)) ELSE M[k - 1]
<1> DEFINE n == Len(blocks)
           A == Seq(CallRecords)
           seq == Places(blocks)
           base == <<>>
           Op(a, i) == IF IsCall(blocks[i]) THEN Append(a, CallOf(blocks, i)) ELSE a
           iter == CHOOSE f : f = [T \in SUBSET (DOMAIN seq) |->
                       IF T = {} THEN base ELSE Op(f[T \ {Max(T)}], seq[Max(T)])]
           step == [p \in A \X (1..n) |-> Op(p[1], seq[p[2]])]
<1>1. n \in Nat /\ DOMAIN seq = 1..n /\ \A i \in 1..n : seq[i] = i
  BY DEF Places
<1>2. ASSUME NEW a \in A, NEW i \in 1..n PROVE Op(a, seq[i]) \in A
  <2>1. CASE IsCall(blocks[i])
    <3>1. blocks[i] \in Block /\ i \in Nat
      OBVIOUS
    <3>2. CallOf(blocks, i) \in CallRecords
      BY <2>1, <3>1 DEF CallOf, CallRecords, IsCall, Block
    <3> QED
      BY <1>1, <2>1, <3>2
  <2>2. CASE ~ IsCall(blocks[i])
    BY <1>1, <2>2
  <2> QED
    BY <2>1, <2>2
<1>3. Made(blocks) = iter[DOMAIN seq]
  BY DEF Made, FoldLeft, MapThenFoldSet
<1>4. base \in A
  OBVIOUS
<1> HIDE DEF Op, seq, A, base
<1>5. step \in [A \X (1..n) -> A]
  BY <1>2
<1>6. PICK g \in [SUBSET (1..n) -> A] :
              \A T \in SUBSET (1..n) :
                 /\ g[T] = IF T = {} THEN base ELSE step[<<g[T \ {Max(T)}], Max(T)>>]
                 /\ T # {} => Max(T) \in 1..n
  <2> HIDE DEF step
  <2> QED
    BY <1>1, <1>4, <1>5, FoldExists
<1>7. iter = [T \in SUBSET (DOMAIN seq) |->
                    IF T = {} THEN base ELSE Op(iter[T \ {Max(T)}], seq[Max(T)])]
  <2>1. ASSUME NEW T \in SUBSET (1..n), T # {}
        PROVE  g[T] = Op(g[T \ {Max(T)}], seq[Max(T)])
    <3>1. Max(T) \in 1..n /\ g[T] = step[<<g[T \ {Max(T)}], Max(T)>>]
      <4> HIDE DEF step
      <4> QED
        BY <1>6, <2>1
    <3>2. T \ {Max(T)} \in SUBSET (1..n)
      OBVIOUS
    <3>3. g[T \ {Max(T)}] \in A
      BY <3>2, <1>6
    <3> QED
      BY <3>1, <3>3
  <2>2. g = [T \in SUBSET (DOMAIN seq) |->
                    IF T = {} THEN base ELSE Op(g[T \ {Max(T)}], seq[Max(T)])]
    <3> HIDE DEF step
    <3> QED
      BY <1>1, <1>6, <2>1
  <2>3. \E f : f = [T \in SUBSET (DOMAIN seq) |->
                    IF T = {} THEN base ELSE Op(f[T \ {Max(T)}], seq[Max(T)])]
    <3> HIDE DEF iter
    <3> QED
      BY <2>2
  <2> QED
    BY <2>3
<1> HIDE DEF iter
<1>8. ASSUME NEW T \in SUBSET (1..n), T # {}, iter[T \ {Max(T)}] \in A
      PROVE  iter[T] = step[<<iter[T \ {Max(T)}], Max(T)>>]
  <2>1. Max(T) \in 1..n
    BY <1>6, <1>8
  <2>2. iter[T] = Op(iter[T \ {Max(T)}], seq[Max(T)])
    BY <1>1, <1>7, <1>8
  <2> QED
    BY <1>8, <2>1, <2>2
<1>9. PICK F \in [0..n -> A] : /\ F[0] = base /\ F[n] = iter[1..n]
                               /\ \A k \in 1..n : F[k] = step[<<F[k - 1], k>>]
  <2> HIDE DEF step
  <2>1. FoldsBy(n, A, base, step, iter)
    BY <1>1, <1>4, <1>5, <1>7, <1>8 DEF FoldsBy
  <2> QED
    BY <2>1, FoldPrefixes
<1>10. ASSUME NEW k \in 1..n PROVE F[k] = Op(F[k - 1], seq[k])
  <2>1. F[k - 1] \in A
    OBVIOUS
  <2> QED
    BY <1>9, <2>1
<1> QED
  BY <1>1, <1>3, <1>9, <1>10 DEF A, Op, base

\* A block that Anthropic streams leaves no call pending, and is a call if it is one.
LEMMA AnthropicStep ==
    ASSUME NEW blocks \in Seq(Block), NEW a \in Rest, NEW i \in 1..Len(blocks)
    PROVE  LET b == Ended(blocks, IF IsCall(blocks[i]) THEN Started(blocks, a, i) ELSE a, i)
           IN  /\ b \in Rest
               /\ b.done = IF IsCall(blocks[i]) THEN Append(a.done, i) ELSE a.done
<1>1. a \in Buffers /\ i \in Nat /\ i \in DOMAIN blocks
  BY DEF Rest
<1>2. CASE IsCall(blocks[i])
  <2>1. PICK b : b = Started(blocks, a, i)
    OBVIOUS
  <2>2. b \in Buffers
    BY <1>1, <2>1, StartedIs
  <2>3. b.pending = {i} /\ b.done = a.done
    BY <1>1, <2>1, StartedIs
  <2>4. Ended(blocks, b, i) \in Rest /\ Ended(blocks, b, i).done = Append(b.done, i)
    BY <1>1, <2>2, <2>3, EndedIs
  <2> QED
    BY <1>2, <2>1, <2>3, <2>4
<1>3. CASE ~ IsCall(blocks[i])
  BY <1>3, EndedPasses
<1> QED
  BY <1>2, <1>3

\* Blocks that Anthropic streams go through the buffer one by one, and leave it
\* without a pending call.
LEMMA AnthropicFold ==
    ASSUME NEW blocks \in Seq(Block)
    PROVE  \E F \in [0..Len(blocks) -> Rest] :
              /\ F[0] = NewBuffer /\ F[Len(blocks)] = AnthropicStream(blocks)
              /\ \A k \in 1..Len(blocks) :
                    F[k].done = IF IsCall(blocks[k]) THEN Append(F[k - 1].done, k) ELSE F[k - 1].done
<1> DEFINE n == Len(blocks)
           A == Rest
           seq == Places(blocks)
           base == NewBuffer
           Op(a, i) == Ended(blocks, IF IsCall(blocks[i]) THEN Started(blocks, a, i) ELSE a, i)
           iter == CHOOSE f : f = [T \in SUBSET (DOMAIN seq) |->
                       IF T = {} THEN base ELSE Op(f[T \ {Max(T)}], seq[Max(T)])]
           step == [p \in A \X (1..n) |-> Op(p[1], seq[p[2]])]
<1>1. n \in Nat /\ DOMAIN seq = 1..n /\ \A i \in 1..n : seq[i] = i
  BY DEF Places
<1>11. ASSUME NEW a \in A, NEW i \in 1..n
      PROVE  /\ Op(a, i) \in A
             /\ Op(a, i).done = IF IsCall(blocks[i]) THEN Append(a.done, i) ELSE a.done
  BY AnthropicStep
<1>2. ASSUME NEW a \in A, NEW i \in 1..n PROVE Op(a, seq[i]) \in A
  BY <1>1, <1>11
<1>3. AnthropicStream(blocks) = iter[DOMAIN seq]
  BY DEF AnthropicStream, FoldLeft, MapThenFoldSet
<1>4. base \in A
  BY NewBufferType
<1> HIDE DEF Op, seq, A, base
<1>5. step \in [A \X (1..n) -> A]
  BY <1>2
<1>6. PICK g \in [SUBSET (1..n) -> A] :
              \A T \in SUBSET (1..n) :
                 /\ g[T] = IF T = {} THEN base ELSE step[<<g[T \ {Max(T)}], Max(T)>>]
                 /\ T # {} => Max(T) \in 1..n
  <2> HIDE DEF step
  <2> QED
    BY <1>1, <1>4, <1>5, FoldExists
<1>7. iter = [T \in SUBSET (DOMAIN seq) |->
                    IF T = {} THEN base ELSE Op(iter[T \ {Max(T)}], seq[Max(T)])]
  <2>1. ASSUME NEW T \in SUBSET (1..n), T # {}
        PROVE  g[T] = Op(g[T \ {Max(T)}], seq[Max(T)])
    <3>1. Max(T) \in 1..n /\ g[T] = step[<<g[T \ {Max(T)}], Max(T)>>]
      <4> HIDE DEF step
      <4> QED
        BY <1>6, <2>1
    <3>2. T \ {Max(T)} \in SUBSET (1..n)
      OBVIOUS
    <3>3. g[T \ {Max(T)}] \in A
      BY <3>2, <1>6
    <3> QED
      BY <3>1, <3>3
  <2>2. g = [T \in SUBSET (DOMAIN seq) |->
                    IF T = {} THEN base ELSE Op(g[T \ {Max(T)}], seq[Max(T)])]
    <3> HIDE DEF step
    <3> QED
      BY <1>1, <1>6, <2>1
  <2>3. \E f : f = [T \in SUBSET (DOMAIN seq) |->
                    IF T = {} THEN base ELSE Op(f[T \ {Max(T)}], seq[Max(T)])]
    <3> HIDE DEF iter
    <3> QED
      BY <2>2
  <2> QED
    BY <2>3
<1> HIDE DEF iter
<1>8. ASSUME NEW T \in SUBSET (1..n), T # {}, iter[T \ {Max(T)}] \in A
      PROVE  iter[T] = step[<<iter[T \ {Max(T)}], Max(T)>>]
  <2>1. Max(T) \in 1..n
    BY <1>6, <1>8
  <2>2. iter[T] = Op(iter[T \ {Max(T)}], seq[Max(T)])
    BY <1>1, <1>7, <1>8
  <2> QED
    BY <1>8, <2>1, <2>2
<1>9. PICK F \in [0..n -> A] : /\ F[0] = base /\ F[n] = iter[1..n]
                               /\ \A k \in 1..n : F[k] = step[<<F[k - 1], k>>]
  <2> HIDE DEF step
  <2>1. FoldsBy(n, A, base, step, iter)
    BY <1>1, <1>4, <1>5, <1>7, <1>8 DEF FoldsBy
  <2> QED
    BY <2>1, FoldPrefixes
<1>10. ASSUME NEW k \in 1..n PROVE F[k] = Op(F[k - 1], seq[k])
  <2>1. F[k - 1] \in A
    OBVIOUS
  <2> QED
    BY <1>9, <2>1
<1>12. ASSUME NEW k \in 1..n
       PROVE  F[k].done = IF IsCall(blocks[k]) THEN Append(F[k - 1].done, k) ELSE F[k - 1].done
  <2>1. F[k - 1] \in A
    OBVIOUS
  <2> QED
    BY <1>1, <1>10, <1>11, <2>1
<1> QED
  BY <1>1, <1>3, <1>9, <1>12 DEF A, base

\* With OpenAI, no call or the last that started is pending.
Pends(blocks) == {b \in Buffers : b.pending = {} \/ \E j \in DOMAIN blocks : b.pending = {j}}

LEMMA OpenAIStep ==
    ASSUME NEW blocks \in Seq(Block), NEW a \in Pends(blocks), NEW i \in 1..Len(blocks)
    PROVE  /\ Started(blocks, a, i) \in Pends(blocks)
           /\ Started(blocks, a, i).pending = {i} /\ Started(blocks, a, i).done = a.done
           /\ Ended(blocks, a, i) \in Pends(blocks)
<1>1. a \in Buffers /\ i \in Nat /\ i \in DOMAIN blocks
  BY DEF Pends
<1>2. PICK b : b = Started(blocks, a, i)
  OBVIOUS
<1>3. b \in Buffers
  BY <1>1, <1>2, StartedIs
<1>4. b.pending = {i} /\ b.done = a.done
  BY <1>1, <1>2, StartedIs
<1>5. b \in Pends(blocks)
  BY <1>1, <1>3, <1>4 DEF Pends
<1>6. Rest \subseteq Pends(blocks)
  BY DEF Rest, Pends
<1>7. CASE a.pending = {}
  <2>1. a \in Rest
    BY <1>1, <1>7 DEF Rest
  <2> QED
    BY <1>2, <1>4, <1>5, <2>1, EndedPasses
<1>8. ASSUME NEW j \in DOMAIN blocks, a.pending = {j}
      PROVE  Ended(blocks, a, i) \in Pends(blocks)
  BY <1>1, <1>6, <1>8, EndedIs
<1> QED
  BY <1>2, <1>4, <1>5, <1>7, <1>8 DEF Pends

\* The calls that OpenAI streams start one after the other.
LEMMA OpenAIStartsFold ==
    ASSUME NEW blocks \in Seq(Block)
    PROVE  \E F \in [0..Len(blocks) -> Pends(blocks)] :
              /\ F[0] = NewBuffer /\ F[Len(blocks)] = OpenAIStarts(blocks)
              /\ \A k \in 1..Len(blocks) :
                   /\ F[k].pending = IF IsCall(blocks[k]) THEN {k} ELSE F[k - 1].pending
                   /\ F[k].done = F[k - 1].done
<1> DEFINE n == Len(blocks)
           A == Pends(blocks)
           seq == Places(blocks)
           base == NewBuffer
           Op(a, i) == IF IsCall(blocks[i]) THEN Started(blocks, a, i) ELSE a
           iter == CHOOSE f : f = [T \in SUBSET (DOMAIN seq) |->
                       IF T = {} THEN base ELSE Op(f[T \ {Max(T)}], seq[Max(T)])]
           step == [p \in A \X (1..n) |-> Op(p[1], seq[p[2]])]
<1>1. n \in Nat /\ DOMAIN seq = 1..n /\ \A i \in 1..n : seq[i] = i
  BY DEF Places
<1>2. ASSUME NEW a \in A, NEW i \in 1..n PROVE Op(a, seq[i]) \in A
  <2>1. Started(blocks, a, i) \in Pends(blocks)
    BY OpenAIStep
  <2> QED
    BY <1>1, <2>1
<1>3. OpenAIStarts(blocks) = iter[DOMAIN seq]
  BY DEF OpenAIStarts, FoldLeft, MapThenFoldSet
<1>4. base \in A
  BY NewBufferType DEF Rest, Pends
<1> HIDE DEF Op, seq, A, base
<1>5. step \in [A \X (1..n) -> A]
  BY <1>2
<1>6. PICK g \in [SUBSET (1..n) -> A] :
              \A T \in SUBSET (1..n) :
                 /\ g[T] = IF T = {} THEN base ELSE step[<<g[T \ {Max(T)}], Max(T)>>]
                 /\ T # {} => Max(T) \in 1..n
  <2> HIDE DEF step
  <2> QED
    BY <1>1, <1>4, <1>5, FoldExists
<1>7. iter = [T \in SUBSET (DOMAIN seq) |->
                    IF T = {} THEN base ELSE Op(iter[T \ {Max(T)}], seq[Max(T)])]
  <2>1. ASSUME NEW T \in SUBSET (1..n), T # {}
        PROVE  g[T] = Op(g[T \ {Max(T)}], seq[Max(T)])
    <3>1. Max(T) \in 1..n /\ g[T] = step[<<g[T \ {Max(T)}], Max(T)>>]
      <4> HIDE DEF step
      <4> QED
        BY <1>6, <2>1
    <3>2. T \ {Max(T)} \in SUBSET (1..n)
      OBVIOUS
    <3>3. g[T \ {Max(T)}] \in A
      BY <3>2, <1>6
    <3> QED
      BY <3>1, <3>3
  <2>2. g = [T \in SUBSET (DOMAIN seq) |->
                    IF T = {} THEN base ELSE Op(g[T \ {Max(T)}], seq[Max(T)])]
    <3> HIDE DEF step
    <3> QED
      BY <1>1, <1>6, <2>1
  <2>3. \E f : f = [T \in SUBSET (DOMAIN seq) |->
                    IF T = {} THEN base ELSE Op(f[T \ {Max(T)}], seq[Max(T)])]
    <3> HIDE DEF iter
    <3> QED
      BY <2>2
  <2> QED
    BY <2>3
<1> HIDE DEF iter
<1>8. ASSUME NEW T \in SUBSET (1..n), T # {}, iter[T \ {Max(T)}] \in A
      PROVE  iter[T] = step[<<iter[T \ {Max(T)}], Max(T)>>]
  <2>1. Max(T) \in 1..n
    BY <1>6, <1>8
  <2>2. iter[T] = Op(iter[T \ {Max(T)}], seq[Max(T)])
    BY <1>1, <1>7, <1>8
  <2> QED
    BY <1>8, <2>1, <2>2
<1>9. PICK F \in [0..n -> A] : /\ F[0] = base /\ F[n] = iter[1..n]
                               /\ \A k \in 1..n : F[k] = step[<<F[k - 1], k>>]
  <2> HIDE DEF step
  <2>1. FoldsBy(n, A, base, step, iter)
    BY <1>1, <1>4, <1>5, <1>7, <1>8 DEF FoldsBy
  <2> QED
    BY <2>1, FoldPrefixes
<1>10. ASSUME NEW k \in 1..n PROVE F[k] = Op(F[k - 1], seq[k])
  <2>1. F[k - 1] \in A
    OBVIOUS
  <2> QED
    BY <1>9, <2>1
<1>11. ASSUME NEW k \in 1..n
       PROVE  /\ F[k].pending = IF IsCall(blocks[k]) THEN {k} ELSE F[k - 1].pending
              /\ F[k].done = F[k - 1].done
  <2>1. F[k - 1] \in Pends(blocks)
    BY DEF A
  <2>2. F[k] = IF IsCall(blocks[k]) THEN Started(blocks, F[k - 1], k) ELSE F[k - 1]
    BY <1>1, <1>10 DEF Op
  <2>3. CASE IsCall(blocks[k])
    <3>1. F[k - 1] \in Buffers /\ F[k] = Started(blocks, F[k - 1], k)
      BY <2>1, <2>2, <2>3 DEF Pends
    <3>2. F[k].pending = {k} /\ F[k].done = F[k - 1].done
      BY <1>1, <3>1, StartedIs
    <3> QED
      BY <2>3, <3>2
  <2>4. CASE ~ IsCall(blocks[k])
    BY <2>2, <2>4
  <2> QED
    BY <2>3, <2>4
<1>12. F \in [0..n -> Pends(blocks)]
  BY DEF A
<1>13. F[0] = NewBuffer /\ F[n] = OpenAIStarts(blocks)
  BY <1>1, <1>3, <1>9 DEF base
<1> QED
  BY <1>11, <1>12, <1>13

\* All of them end with the answer.
LEMMA OpenAIFold ==
    ASSUME NEW blocks \in Seq(Block)
    PROVE  \E F \in [0..Len(blocks) -> Pends(blocks)] :
              /\ F[0] = OpenAIStarts(blocks) /\ F[Len(blocks)] = OpenAIStream(blocks)
              /\ \A k \in 1..Len(blocks) :
                    F[k] = IF IsCall(blocks[k]) THEN Ended(blocks, F[k - 1], k) ELSE F[k - 1]
<1> DEFINE n == Len(blocks)
           A == Pends(blocks)
           seq == Places(blocks)
           base == OpenAIStarts(blocks)
           Op(a, i) == IF IsCall(blocks[i]) THEN Ended(blocks, a, i) ELSE a
           iter == CHOOSE f : f = [T \in SUBSET (DOMAIN seq) |->
                       IF T = {} THEN base ELSE Op(f[T \ {Max(T)}], seq[Max(T)])]
           step == [p \in A \X (1..n) |-> Op(p[1], seq[p[2]])]
<1>1. n \in Nat /\ DOMAIN seq = 1..n /\ \A i \in 1..n : seq[i] = i
  BY DEF Places
<1>2. ASSUME NEW a \in A, NEW i \in 1..n PROVE Op(a, seq[i]) \in A
  <2>1. Ended(blocks, a, i) \in Pends(blocks)
    BY OpenAIStep
  <2> QED
    BY <1>1, <2>1
<1>3. OpenAIStream(blocks) = iter[DOMAIN seq]
  BY DEF OpenAIStream, FoldLeft, MapThenFoldSet
<1>4. base \in A
  <2>1. Len(blocks) \in 0..Len(blocks)
    OBVIOUS
  <2> QED
    BY <2>1, OpenAIStartsFold
<1> HIDE DEF Op, seq, A, base
<1>5. step \in [A \X (1..n) -> A]
  BY <1>2
<1>6. PICK g \in [SUBSET (1..n) -> A] :
              \A T \in SUBSET (1..n) :
                 /\ g[T] = IF T = {} THEN base ELSE step[<<g[T \ {Max(T)}], Max(T)>>]
                 /\ T # {} => Max(T) \in 1..n
  <2> HIDE DEF step
  <2> QED
    BY <1>1, <1>4, <1>5, FoldExists
<1>7. iter = [T \in SUBSET (DOMAIN seq) |->
                    IF T = {} THEN base ELSE Op(iter[T \ {Max(T)}], seq[Max(T)])]
  <2>1. ASSUME NEW T \in SUBSET (1..n), T # {}
        PROVE  g[T] = Op(g[T \ {Max(T)}], seq[Max(T)])
    <3>1. Max(T) \in 1..n /\ g[T] = step[<<g[T \ {Max(T)}], Max(T)>>]
      <4> HIDE DEF step
      <4> QED
        BY <1>6, <2>1
    <3>2. T \ {Max(T)} \in SUBSET (1..n)
      OBVIOUS
    <3>3. g[T \ {Max(T)}] \in A
      BY <3>2, <1>6
    <3> QED
      BY <3>1, <3>3
  <2>2. g = [T \in SUBSET (DOMAIN seq) |->
                    IF T = {} THEN base ELSE Op(g[T \ {Max(T)}], seq[Max(T)])]
    <3> HIDE DEF step
    <3> QED
      BY <1>1, <1>6, <2>1
  <2>3. \E f : f = [T \in SUBSET (DOMAIN seq) |->
                    IF T = {} THEN base ELSE Op(f[T \ {Max(T)}], seq[Max(T)])]
    <3> HIDE DEF iter
    <3> QED
      BY <2>2
  <2> QED
    BY <2>3
<1> HIDE DEF iter
<1>8. ASSUME NEW T \in SUBSET (1..n), T # {}, iter[T \ {Max(T)}] \in A
      PROVE  iter[T] = step[<<iter[T \ {Max(T)}], Max(T)>>]
  <2>1. Max(T) \in 1..n
    BY <1>6, <1>8
  <2>2. iter[T] = Op(iter[T \ {Max(T)}], seq[Max(T)])
    BY <1>1, <1>7, <1>8
  <2> QED
    BY <1>8, <2>1, <2>2
<1>9. PICK F \in [0..n -> A] : /\ F[0] = base /\ F[n] = iter[1..n]
                               /\ \A k \in 1..n : F[k] = step[<<F[k - 1], k>>]
  <2> HIDE DEF step
  <2>1. FoldsBy(n, A, base, step, iter)
    BY <1>1, <1>4, <1>5, <1>7, <1>8 DEF FoldsBy
  <2> QED
    BY <2>1, FoldPrefixes
<1>10. ASSUME NEW k \in 1..n PROVE F[k] = Op(F[k - 1], seq[k])
  <2>1. F[k - 1] \in A
    OBVIOUS
  <2> QED
    BY <1>9, <2>1
<1> QED
  BY <1>1, <1>3, <1>9, <1>10 DEF A, base, Op

\* Of the first k blocks that Anthropic streams every call comes out, once and in order.
KeepsAll(blocks, k, done, made) ==
    /\ done \in Seq(Nat) /\ made \in Seq(CallRecords) /\ Len(done) = Len(made)
    /\ \A j \in 1..Len(made) : /\ done[j] \in 1..k /\ IsCall(blocks[done[j]])
                               /\ made[j] = CallOf(blocks, done[j])
    /\ \A j, l \in 1..Len(made) : done[j] = done[l] => j = l

\* One more call.
LEMMA KeepsOneMore ==
    ASSUME NEW blocks \in Seq(Block), NEW k \in 1..Len(blocks), NEW done, NEW made,
           turns \in Nat, KeepsAll(blocks, k - 1, done, made), IsCall(blocks[k])
    PROVE  KeepsAll(blocks, k, Append(done, k), Append(made, CallOf(blocks, k)))
<1> DEFINE d == Append(done, k)
           m == Append(made, CallOf(blocks, k))
           n == Len(made)
<1>1. CallOf(blocks, k) \in CallRecords /\ k \in Nat
  <2>1. blocks[k] \in Block
    OBVIOUS
  <2> QED
    BY <2>1 DEF CallOf, CallRecords, IsCall, Block
<1>2. done \in Seq(Nat) /\ made \in Seq(CallRecords) /\ Len(done) = n /\ n \in Nat
  BY DEF KeepsAll
<1>3. d \in Seq(Nat) /\ Len(d) = n + 1 /\ d[n + 1] = k /\ \A j \in 1..n : d[j] = done[j]
  BY <1>1, <1>2
<1>4. m \in Seq(CallRecords) /\ Len(m) = n + 1 /\ m[n + 1] = CallOf(blocks, k)
      /\ \A j \in 1..n : m[j] = made[j]
  BY <1>1, <1>2
<1>5. \A j \in 1..n : /\ done[j] \in 1..(k - 1) /\ IsCall(blocks[done[j]])
                      /\ made[j] = CallOf(blocks, done[j])
  BY DEF KeepsAll
<1>6. \A j, l \in 1..n : done[j] = done[l] => j = l
  BY DEF KeepsAll
<1> HIDE DEF d, m, n
<1>7. ASSUME NEW j \in 1..(n + 1)
      PROVE  d[j] \in 1..k /\ IsCall(blocks[d[j]]) /\ m[j] = CallOf(blocks, d[j])
  <2>1. CASE j = n + 1
    BY <1>3, <1>4, <2>1
  <2>2. CASE j \in 1..n
    <3>1. d[j] = done[j] /\ m[j] = made[j] /\ done[j] \in 1..(k - 1)
      BY <1>3, <1>4, <1>5, <2>2
    <3> QED
      BY <1>5, <2>2, <3>1
  <2> QED
    BY <1>2, <2>1, <2>2
<1>8. ASSUME NEW j \in 1..(n + 1), NEW l \in 1..(n + 1), d[j] = d[l]
      PROVE  j = l
  <2>1. \A i \in 1..n : d[i] = done[i] /\ d[i] \in 1..(k - 1) /\ d[i] # k
    BY <1>3, <1>5
  <2>2. (j \in 1..n \/ j = n + 1) /\ (l \in 1..n \/ l = n + 1)
    BY <1>2
  <2> QED
    BY <1>3, <1>6, <1>8, <2>1, <2>2
<1>9. KeepsAll(blocks, k, d, m)
  BY <1>3, <1>4, <1>7, <1>8 DEF KeepsAll
<1> QED
  BY <1>9 DEF d, m

LEMMA AnthropicKeeps ==
    ASSUME NEW blocks \in Seq(Block), turns \in Nat
    PROVE  KeepsAll(blocks, Len(blocks), AnthropicStream(blocks).done, Made(blocks))
<1> DEFINE n == Len(blocks)
<1>1. PICK F \in [0..n -> Rest] :
              /\ F[0] = NewBuffer /\ F[n] = AnthropicStream(blocks)
              /\ \A k \in 1..n :
                    F[k].done = IF IsCall(blocks[k]) THEN Append(F[k - 1].done, k) ELSE F[k - 1].done
  BY AnthropicFold
<1>2. PICK M \in [0..n -> Seq(CallRecords)] :
              /\ M[0] = <<>> /\ M[n] = Made(blocks)
              /\ \A k \in 1..n :
                    M[k] = IF IsCall(blocks[k]) THEN Append(M[k - 1], CallOf(blocks, k)) ELSE M[k - 1]
  BY MadeFold
<1> DEFINE S == {k \in 0..n : KeepsAll(blocks, k, F[k].done, M[k])}
<1>3. n \in Nat
  OBVIOUS
<1>4. 0 \in S
  <2>1. F[0].done = <<>> /\ M[0] = <<>>
    BY <1>1, <1>2 DEF NewBuffer
  <2>2. KeepsAll(blocks, 0, <<>>, <<>>)
    BY DEF KeepsAll
  <2> QED
    BY <1>3, <2>1, <2>2
<1>5. ASSUME NEW k \in 1..n, k - 1 \in S PROVE k \in S
  <2>1. KeepsAll(blocks, k - 1, F[k - 1].done, M[k - 1]) /\ k \in 0..n
    BY <1>5
  <2>2. CASE IsCall(blocks[k])
    <3>1. F[k].done = Append(F[k - 1].done, k) /\ M[k] = Append(M[k - 1], CallOf(blocks, k))
      BY <1>1, <1>2, <2>2
    <3>2. KeepsAll(blocks, k, Append(F[k - 1].done, k), Append(M[k - 1], CallOf(blocks, k)))
      BY <2>1, <2>2, KeepsOneMore
    <3> QED
      BY <2>1, <3>1, <3>2
  <2>3. CASE ~ IsCall(blocks[k])
    <3>1. F[k].done = F[k - 1].done /\ M[k] = M[k - 1]
      BY <1>1, <1>2, <2>3
    <3>2. KeepsAll(blocks, k, F[k - 1].done, M[k - 1])
      BY <2>1 DEF KeepsAll
    <3> QED
      BY <2>1, <3>1, <3>2
  <2> QED
    BY <2>2, <2>3
<1>6. n \in S
  <2>1. \A k \in 0..n : k \in S
    <3> HIDE DEF S, n
    <3> QED
      BY <1>3, <1>4, <1>5, UpTo
  <2> QED
    BY <1>3, <2>1
<1> QED
  BY <1>1, <1>2, <1>6

\* Of the calls that OpenAI streams the last comes out.
KeepsLast(blocks, done, made) ==
    /\ made \in Seq(CallRecords)
    /\ made = <<>> => done = <<>>
    /\ made # <<>> => \E i \in DOMAIN blocks : /\ done = <<i>> /\ IsCall(blocks[i])
                                               /\ made[Len(made)] = CallOf(blocks, i)

LEMMA OpenAIKeeps ==
    ASSUME NEW blocks \in Seq(Block), turns \in Nat
    PROVE  KeepsLast(blocks, OpenAIStream(blocks).done, Made(blocks))
<1> DEFINE n == Len(blocks)
<1>1. PICK F \in [0..n -> Pends(blocks)] :
              /\ F[0] = NewBuffer /\ F[n] = OpenAIStarts(blocks)
              /\ \A k \in 1..n :
                   /\ F[k].pending = IF IsCall(blocks[k]) THEN {k} ELSE F[k - 1].pending
                   /\ F[k].done = F[k - 1].done
  BY OpenAIStartsFold
<1>2. PICK M \in [0..n -> Seq(CallRecords)] :
              /\ M[0] = <<>> /\ M[n] = Made(blocks)
              /\ \A k \in 1..n :
                    M[k] = IF IsCall(blocks[k]) THEN Append(M[k - 1], CallOf(blocks, k)) ELSE M[k - 1]
  BY MadeFold
<1>3. PICK H \in [0..n -> Pends(blocks)] :
              /\ H[0] = OpenAIStarts(blocks) /\ H[n] = OpenAIStream(blocks)
              /\ \A k \in 1..n :
                    H[k] = IF IsCall(blocks[k]) THEN Ended(blocks, H[k - 1], k) ELSE H[k - 1]
  BY OpenAIFold
<1>4. n \in Nat /\ DOMAIN blocks = 1..n
  OBVIOUS
<1> DEFINE Newest(b, m) == \E i \in 1..n : /\ b.pending = {i} /\ IsCall(blocks[i])
                                         /\ m[Len(m)] = CallOf(blocks, i)
           Begun(k) == /\ F[k].done = <<>>
                       /\ M[k] = <<>> => F[k].pending = {}
                       /\ M[k] # <<>> => Newest(F[k], M[k])
<1>5. Begun(n)
  <2> DEFINE S == {k \in 0..n : Begun(k)}
  <2>1. 0 \in S
    BY <1>1, <1>2, <1>4 DEF NewBuffer
  <2>2. ASSUME NEW k \in 1..n, k - 1 \in S PROVE k \in S
    <3>1. k \in 0..n /\ k - 1 \in 0..n /\ M[k - 1] \in Seq(CallRecords) /\ Begun(k - 1)
      <4> HIDE DEF Begun
      <4>1. k \in 0..n /\ k - 1 \in 0..n
        BY <1>4
      <4> QED
        BY <2>2, <4>1
    <3>2. F[k].done = <<>>
      BY <1>1, <3>1
    <3>3. CASE IsCall(blocks[k])
      <4>1. F[k].pending = {k} /\ M[k] = Append(M[k - 1], CallOf(blocks, k))
        BY <1>1, <1>2, <3>3
      <4>2. M[k] # <<>> /\ M[k][Len(M[k])] = CallOf(blocks, k)
        BY <3>1, <4>1
      <4> QED
        BY <3>1, <3>2, <3>3, <4>1, <4>2
    <3>4. CASE ~ IsCall(blocks[k])
      <4>1. F[k].pending = F[k - 1].pending /\ M[k] = M[k - 1]
        BY <1>1, <1>2, <3>4
      <4> QED
        BY <3>1, <3>2, <4>1
    <3> QED
      BY <3>3, <3>4
  <2>3. \A k \in 0..n : k \in S
    <3> HIDE DEF S, n
    <3> QED
      BY <1>4, <2>1, <2>2, UpTo
  <2> QED
    BY <1>4, <2>3
<1> DEFINE b == F[n]
           Over(k) == /\ M[k] = <<>> => H[k] = b
                      /\ M[k] # <<>> => \E i \in 1..n : /\ b.pending = {i}
                                                        /\ H[k] \in Rest /\ H[k].done = <<i>>
<1>6. b \in Pends(blocks) /\ b \in Buffers /\ b = OpenAIStarts(blocks) /\ b.done = <<>>
  <2>1. n \in 0..n
    BY <1>4
  <2> QED
    BY <1>1, <1>5, <2>1 DEF Pends
\* A call among the first k blocks means that one is pending at the end.
<1>7. ASSUME NEW k \in 1..n, IsCall(blocks[k]) PROVE \E i \in 1..n : b.pending = {i}
  <2> DEFINE S == {m \in 0..n : m >= k => \E i \in 1..n : F[m].pending = {i}}
  <2>1. 0 \in S
    BY <1>4
  <2>2. ASSUME NEW m \in 1..n, m - 1 \in S PROVE m \in S
    <3>1. m \in 0..n
      OBVIOUS
    <3>2. CASE IsCall(blocks[m])
      <4>1. F[m].pending = {m}
        BY <1>1, <3>2
      <4> QED
        BY <3>1, <4>1
    <3>3. CASE ~ IsCall(blocks[m])
      <4>1. F[m].pending = F[m - 1].pending /\ m # k
        BY <1>1, <1>7, <3>3
      <4>2. m >= k => m - 1 >= k
        BY <4>1
      <4> QED
        BY <2>2, <3>1, <4>1, <4>2
    <3> QED
      BY <3>2, <3>3
  <2>3. \A m \in 0..n : m \in S
    <3> HIDE DEF S, n
    <3> QED
      BY <1>4, <2>1, <2>2, UpTo
  <2>4. n \in 0..n /\ n >= k
    BY <1>4
  <2> QED
    BY <2>3, <2>4
<1>8. Over(n)
  <2> DEFINE S == {k \in 0..n : Over(k)}
  <2>1. 0 \in S
    BY <1>2, <1>3, <1>4, <1>6
  <2>2. ASSUME NEW k \in 1..n, k - 1 \in S PROVE k \in S
    <3>1. k \in 0..n /\ k - 1 \in 0..n /\ M[k - 1] \in Seq(CallRecords) /\ Over(k - 1)
      BY <2>2
    <3>2. CASE IsCall(blocks[k])
      <4>1. H[k] = Ended(blocks, H[k - 1], k) /\ M[k] = Append(M[k - 1], CallOf(blocks, k))
        BY <1>2, <1>3, <3>2
      <4>2. M[k] # <<>>
        BY <3>1, <4>1
      <4>3. CASE M[k - 1] = <<>>
        <5>1. PICK i \in 1..n : b.pending = {i}
          BY <1>7, <3>2
        <5>2. H[k - 1] = b
          BY <3>1, <4>3
        <5>3. Ended(blocks, b, k) \in Rest /\ Ended(blocks, b, k).done = Append(<<>>, i)
          BY <1>4, <1>6, <5>1, EndedIs
        <5>4. H[k] \in Rest /\ H[k].done = <<i>>
          BY <4>1, <5>2, <5>3
        <5> QED
          BY <3>1, <4>2, <5>1, <5>4
      <4>4. CASE M[k - 1] # <<>>
        <5>1. PICK i \in 1..n : b.pending = {i} /\ H[k - 1] \in Rest /\ H[k - 1].done = <<i>>
          BY <3>1, <4>4
        <5>2. H[k] = H[k - 1]
          BY <4>1, <5>1, EndedPasses
        <5> QED
          BY <3>1, <4>2, <5>1, <5>2
      <4> QED
        BY <4>3, <4>4
    <3>3. CASE ~ IsCall(blocks[k])
      <4>1. H[k] = H[k - 1] /\ M[k] = M[k - 1]
        BY <1>2, <1>3, <3>3
      <4> QED
        BY <3>1, <4>1
    <3> QED
      BY <3>2, <3>3
  <2>3. \A k \in 0..n : k \in S
    <3> HIDE DEF S, n
    <3> QED
      BY <1>4, <2>1, <2>2, UpTo
  <2>4. n \in 0..n
    BY <1>4
  <2> HIDE DEF Over
  <2> QED
    BY <2>3, <2>4
<1>9. Made(blocks) \in Seq(CallRecords)
  <2>1. n \in 0..n
    BY <1>4
  <2> QED
    BY <1>2, <2>1
<1>10. CASE M[n] = <<>>
  <2>1. OpenAIStream(blocks).done = <<>>
    BY <1>3, <1>6, <1>8, <1>10
  <2> QED
    BY <1>2, <1>9, <1>10, <2>1 DEF KeepsLast
<1>11. CASE M[n] # <<>>
  <2>1. PICK i \in 1..n : b.pending = {i} /\ H[n].done = <<i>>
    BY <1>8, <1>11
  <2>2. PICK j \in 1..n : b.pending = {j} /\ IsCall(blocks[j]) /\ M[n][Len(M[n])] = CallOf(blocks, j)
    BY <1>5, <1>11
  <2>3. i = j
    BY <2>1, <2>2
  <2> QED
    BY <1>2, <1>3, <1>4, <1>9, <1>11, <2>1, <2>2, <2>3 DEF KeepsLast
<1> QED
  BY <1>10, <1>11

\* The calls that come out of an answer are those that CallsKept says, of different
\* ids, and each is a call of the answer.
LEMMA ReceivedSound ==
    ASSUME NEW blocks \in Seq(Block), turns \in Nat, NEW calls,
           calls = [k \in DOMAIN Received(blocks).done |-> CallOf(blocks, Received(blocks).done[k])]
    PROVE  /\ calls \in Seq(CallRecords) /\ Made(blocks) \in Seq(CallRecords)
           /\ calls = IF provider = "anthropic" \/ Made(blocks) = <<>> THEN Made(blocks)
                      ELSE <<Made(blocks)[Len(Made(blocks))]>>
           /\ \A k \in DOMAIN calls :
                \E i \in DOMAIN blocks : IsCall(blocks[i]) /\ calls[k] = CallOf(blocks, i)
           /\ \A k, l \in DOMAIN calls : calls[k].id = calls[l].id => k = l
<1> DEFINE made == Made(blocks)
           done == Received(blocks).done
<1>1. CASE provider = "anthropic"
  <2>1. KeepsAll(blocks, Len(blocks), done, made)
    BY <1>1, AnthropicKeeps DEF Received
  <2> HIDE DEF done, made
  <2>2. /\ done \in Seq(Nat) /\ made \in Seq(CallRecords) /\ Len(done) = Len(made)
        /\ \A j \in 1..Len(made) : /\ done[j] \in 1..Len(blocks) /\ IsCall(blocks[done[j]])
                                   /\ made[j] = CallOf(blocks, done[j])
        /\ \A j, l \in 1..Len(made) : done[j] = done[l] => j = l
    BY <2>1 DEF KeepsAll
  <2>3. DOMAIN done = 1..Len(made) /\ DOMAIN made = 1..Len(made)
    BY <2>2
  <2>4. calls = [k \in DOMAIN done |-> CallOf(blocks, done[k])]
    BY DEF done
  <2>5. calls = made
    <3>1. made = [k \in 1..Len(made) |-> made[k]]
      BY <2>2
    <3> QED
      BY <2>2, <2>3, <2>4, <3>1
  <2>6. \A k \in DOMAIN calls :
           \E i \in DOMAIN blocks : IsCall(blocks[i]) /\ calls[k] = CallOf(blocks, i)
    <3> SUFFICES ASSUME NEW k \in 1..Len(made)
                 PROVE  \E i \in DOMAIN blocks : IsCall(blocks[i]) /\ made[k] = CallOf(blocks, i)
      BY <2>3, <2>5
    <3>1. done[k] \in DOMAIN blocks
      BY <2>2
    <3> QED
      BY <2>2, <3>1
  <2>7. \A k, l \in DOMAIN calls : calls[k].id = calls[l].id => k = l
    <3> SUFFICES ASSUME NEW k \in DOMAIN calls, NEW l \in DOMAIN calls, calls[k].id = calls[l].id
                 PROVE  k = l
      OBVIOUS
    <3>1. k \in 1..Len(made) /\ l \in 1..Len(made)
      BY <2>3, <2>5
    <3>2. made[k] = CallOf(blocks, done[k]) /\ made[l] = CallOf(blocks, done[l])
      BY <2>2, <3>1
    <3>3. made[k].id = <<turns, done[k]>> /\ made[l].id = <<turns, done[l]>>
      BY <3>2 DEF CallOf
    <3>4. made[k].id = made[l].id
      BY <2>5
    <3>5. done[k] = done[l]
      BY <3>3, <3>4
    <3> QED
      BY <2>2, <3>1, <3>5
  <2>8. calls = IF provider = "anthropic" \/ made = <<>> THEN made ELSE <<made[Len(made)]>>
    BY <1>1, <2>5
  <2> QED
    BY <2>2, <2>5, <2>6, <2>7, <2>8 DEF made
<1>2. CASE provider # "anthropic"
  <2>1. KeepsLast(blocks, done, made)
    BY <1>2, OpenAIKeeps DEF Received
  <2>2. calls = [k \in DOMAIN done |-> CallOf(blocks, done[k])]
    OBVIOUS
  <2> HIDE DEF done, made
  <2>3. made \in Seq(CallRecords)
    BY <2>1 DEF KeepsLast
  <2>4. CASE made = <<>>
    <3>1. done = <<>>
      BY <2>1, <2>4 DEF KeepsLast
    <3>2. calls = <<>>
      BY <2>2, <3>1
    <3> QED
      BY <2>3, <2>4, <3>2 DEF made
  <2>5. CASE made # <<>>
    <3>1. PICK i \in DOMAIN blocks : /\ done = <<i>> /\ IsCall(blocks[i])
                                     /\ made[Len(made)] = CallOf(blocks, i)
      BY <2>1, <2>5 DEF KeepsLast
    <3>2. calls = <<CallOf(blocks, i)>>
      BY <2>2, <3>1
    <3>3. CallOf(blocks, i) \in CallRecords
      <4>1. made[Len(made)] \in CallRecords
        BY <2>3, <2>5
      <4> QED
        BY <3>1, <4>1
    <3>4. calls \in Seq(CallRecords) /\ DOMAIN calls = {1} /\ calls[1] = CallOf(blocks, i)
      BY <3>2, <3>3
    <3>5. calls = IF provider = "anthropic" \/ made = <<>> THEN made ELSE <<made[Len(made)]>>
      BY <1>2, <2>5, <3>1, <3>2
    <3> QED
      BY <2>3, <3>1, <3>4, <3>5 DEF made
  <2> QED
    BY <2>4, <2>5
<1> QED
  BY <1>1, <1>2

-----------------------------------------------------------------------------
(* The row of a run.                                                       *)

\* What collectToolCalls() makes of the call at k of the message at i.
Entry(i, k) == [id |-> msgs[i].calls[k].id, tool |-> msgs[i].calls[k].tool,
                outcome |-> ResultOf(msgs[i].calls[k], i)]
Entries(i) == {Entry(i, k) : k \in DOMAIN msgs[i].calls}

\* The row is put together message by message.
LEMMA CollectFold ==
    ASSUME msgs \in Seq(Messages)
    PROVE  \E F \in [0..Len(msgs) -> Seq(UNION {Entries(i) : i \in DOMAIN msgs})] :
              /\ F[0] = <<>> /\ F[Len(msgs)] = CollectToolCalls
              /\ \A k \in 1..Len(msgs) :
                    F[k] = F[k - 1] \o [j \in DOMAIN msgs[k].calls |-> Entry(k, j)]
<1> DEFINE n == Len(msgs)
           A == Seq(UNION {Entries(i) : i \in DOMAIN msgs})
           seq == Places(msgs)
           base == <<>>
           Op(a, i) == a \o [k \in DOMAIN msgs[i].calls |-> Entry(i, k)]
           iter == CHOOSE f : f = [T \in SUBSET (DOMAIN seq) |->
                       IF T = {} THEN base ELSE Op(f[T \ {Max(T)}], seq[Max(T)])]
           step == [p \in A \X (1..n) |-> Op(p[1], seq[p[2]])]
<1>1. n \in Nat /\ DOMAIN seq = 1..n /\ \A i \in 1..n : seq[i] = i
  BY DEF Places
<1>2. ASSUME NEW a \in A, NEW i \in 1..n PROVE Op(a, seq[i]) \in A
  <2>1. PICK s : s = [k \in DOMAIN msgs[i].calls |-> Entry(i, k)]
    OBVIOUS
  <2>2. msgs[i] \in Messages /\ i \in DOMAIN msgs
    OBVIOUS
  <2>3. Len(msgs[i].calls) \in Nat /\ DOMAIN msgs[i].calls = 1..Len(msgs[i].calls)
    BY <2>2 DEF Messages
  <2>4. \A k \in DOMAIN msgs[i].calls : Entry(i, k) \in UNION {Entries(j) : j \in DOMAIN msgs}
    BY <2>2 DEF Entries
  <2>5. s \in Seq(UNION {Entries(j) : j \in DOMAIN msgs})
    BY <2>1, <2>3, <2>4
  <2>6. a \o s \in Seq(UNION {Entries(j) : j \in DOMAIN msgs})
    BY <2>5
  <2> QED
    BY <1>1, <2>1, <2>6
<1>3. CollectToolCalls = iter[DOMAIN seq]
  BY DEF CollectToolCalls, Entry, FoldLeft, MapThenFoldSet
<1>4. base \in A
  OBVIOUS
<1> HIDE DEF Op, seq, A, base
<1>5. step \in [A \X (1..n) -> A]
  BY <1>2
<1>6. PICK g \in [SUBSET (1..n) -> A] :
              \A T \in SUBSET (1..n) :
                 /\ g[T] = IF T = {} THEN base ELSE step[<<g[T \ {Max(T)}], Max(T)>>]
                 /\ T # {} => Max(T) \in 1..n
  <2> HIDE DEF step
  <2> QED
    BY <1>1, <1>4, <1>5, FoldExists
<1>7. iter = [T \in SUBSET (DOMAIN seq) |->
                    IF T = {} THEN base ELSE Op(iter[T \ {Max(T)}], seq[Max(T)])]
  <2>1. ASSUME NEW T \in SUBSET (1..n), T # {}
        PROVE  g[T] = Op(g[T \ {Max(T)}], seq[Max(T)])
    <3>1. Max(T) \in 1..n /\ g[T] = step[<<g[T \ {Max(T)}], Max(T)>>]
      <4> HIDE DEF step
      <4> QED
        BY <1>6, <2>1
    <3>2. T \ {Max(T)} \in SUBSET (1..n)
      OBVIOUS
    <3>3. g[T \ {Max(T)}] \in A
      BY <3>2, <1>6
    <3> QED
      BY <3>1, <3>3
  <2>2. g = [T \in SUBSET (DOMAIN seq) |->
                    IF T = {} THEN base ELSE Op(g[T \ {Max(T)}], seq[Max(T)])]
    <3> HIDE DEF step
    <3> QED
      BY <1>1, <1>6, <2>1
  <2>3. \E f : f = [T \in SUBSET (DOMAIN seq) |->
                    IF T = {} THEN base ELSE Op(f[T \ {Max(T)}], seq[Max(T)])]
    <3> HIDE DEF iter
    <3> QED
      BY <2>2
  <2> QED
    BY <2>3
<1> HIDE DEF iter
<1>8. ASSUME NEW T \in SUBSET (1..n), T # {}, iter[T \ {Max(T)}] \in A
      PROVE  iter[T] = step[<<iter[T \ {Max(T)}], Max(T)>>]
  <2>1. Max(T) \in 1..n
    BY <1>6, <1>8
  <2>2. iter[T] = Op(iter[T \ {Max(T)}], seq[Max(T)])
    BY <1>1, <1>7, <1>8
  <2> QED
    BY <1>8, <2>1, <2>2
<1>9. PICK F \in [0..n -> A] : /\ F[0] = base /\ F[n] = iter[1..n]
                               /\ \A k \in 1..n : F[k] = step[<<F[k - 1], k>>]
  <2> HIDE DEF step
  <2>1. FoldsBy(n, A, base, step, iter)
    BY <1>1, <1>4, <1>5, <1>7, <1>8 DEF FoldsBy
  <2> QED
    BY <2>1, FoldPrefixes
<1>10. ASSUME NEW k \in 1..n PROVE F[k] = Op(F[k - 1], seq[k])
  <2>1. F[k - 1] \in A
    OBVIOUS
  <2> QED
    BY <1>9, <2>1
<1>11. \A k \in 1..n : F[k] = F[k - 1] \o [j \in DOMAIN msgs[k].calls |-> Entry(k, j)]
  <2> TAKE k \in 1..n
  <2>1. F[k] = Op(F[k - 1], k)
    BY <1>1, <1>10
  <2> QED
    BY <2>1, Zenon DEF Op
<1>12. F[0] = <<>> /\ F[n] = CollectToolCalls
  BY <1>1, <1>3, <1>9 DEF base
<1>13. F \in [0..n -> Seq(UNION {Entries(i) : i \in DOMAIN msgs})]
  BY DEF A
<1> QED
  BY <1>11, <1>12, <1>13

\* The elements of a concatenation.
Joins(S, f, s, g) == f \in Seq(S) /\ s \in Seq(S) /\ g = f \o s
LEMMA ConcatElements ==
    ASSUME NEW S, NEW f, NEW s, NEW g, Joins(S, f, s, g)
    PROVE  {g[j] : j \in DOMAIN g} = {f[j] : j \in DOMAIN f} \cup {s[j] : j \in DOMAIN s}
<1>1. PICK l \in Nat : l = Len(f)
  BY DEF Joins
<1>2. PICK m \in Nat : m = Len(s)
  BY DEF Joins
<1>3. DOMAIN f = 1..l /\ DOMAIN s = 1..m /\ DOMAIN g = 1..(l + m)
  BY <1>1, <1>2 DEF Joins
<1>4. \A j \in 1..(l + m) : g[j] = IF j <= l THEN f[j] ELSE s[j - l]
  <2>1. \A j \in 1..(Len(f) + Len(s)) : (f \o s)[j] = IF j <= Len(f) THEN f[j] ELSE s[j - Len(f)]
    BY ConcatProperties, Zenon DEF Joins
  <2>2. \A j \in 1..(Len(f) + Len(s)) : g[j] = IF j <= Len(f) THEN f[j] ELSE s[j - Len(f)]
    BY <2>1, Zenon DEF Joins
  <2> QED
    BY <1>1, <1>2, <2>2
<1>5. ASSUME NEW j \in 1..l PROVE j \in 1..(l + m) /\ g[j] = f[j]
  BY <1>4
<1>6. ASSUME NEW j \in 1..m PROVE l + j \in 1..(l + m) /\ g[l + j] = s[j]
  <2>1. l + j \in 1..(l + m) /\ ~ (l + j <= l) /\ (l + j) - l = j
    OBVIOUS
  <2> QED
    BY <1>4, <2>1
<1>7. ASSUME NEW j \in 1..(l + m)
      PROVE  (j \in 1..l /\ g[j] = f[j]) \/ (j - l \in 1..m /\ g[j] = s[j - l])
  <2>1. CASE j <= l
    BY <1>4, <2>1
  <2>2. CASE ~ (j <= l)
    <3>1. j - l \in 1..m
      BY <2>2
    <3>2. g[j] = IF j <= l THEN f[j] ELSE s[j - l]
      BY <1>4
    <3>3. g[j] = s[j - l]
      BY ONLY <2>2, <3>2, Zenon
    <3> QED
      BY <3>1, <3>3
  <2> QED
    BY <2>1, <2>2
<1>8. ASSUME NEW j \in DOMAIN g
      PROVE  g[j] \in {f[i] : i \in DOMAIN f} \cup {s[i] : i \in DOMAIN s}
  BY <1>3, <1>7
<1>9. \A j \in DOMAIN f : f[j] \in {g[i] : i \in DOMAIN g}
  BY <1>3, <1>5
<1>10. \A j \in DOMAIN s : s[j] \in {g[i] : i \in DOMAIN g}
  BY <1>3, <1>6
<1> QED
  BY <1>8, <1>9, <1>10

\* Its entries are those of all the calls of the history.
LEMMA RowEntries ==
    ASSUME msgs \in Seq(Messages), NEW row, row = CollectToolCalls
    PROVE  {row[j] : j \in DOMAIN row} = UNION {Entries(i) : i \in DOMAIN msgs}
<1> DEFINE n == Len(msgs)
           E == UNION {Entries(i) : i \in DOMAIN msgs}
<1>1. n \in Nat /\ DOMAIN msgs = 1..n
  OBVIOUS
<1>2. PICK F \in [0..n -> Seq(E)] :
              /\ F[0] = <<>> /\ F[n] = row
              /\ \A k \in 1..n : F[k] = F[k - 1] \o [j \in DOMAIN msgs[k].calls |-> Entry(k, j)]
  BY CollectFold
<1> HIDE DEF E
<1> DEFINE In(k) == {F[k][j] : j \in DOMAIN F[k]} = UNION {Entries(i) : i \in 1..k}
           S == {k \in 0..n : In(k)}
<1>3. 0 \in S
  <2>1. DOMAIN F[0] = {} /\ 1..0 = {} /\ 0 \in 0..n
    BY <1>1, <1>2
  <2> QED
    BY <2>1
<1>4. ASSUME NEW k \in 1..n, k - 1 \in S PROVE k \in S
  <2>1. k \in 0..n /\ k - 1 \in 0..n /\ 1..k = (1..(k - 1)) \cup {k}
    BY <1>1
  <2>2. PICK f : f = F[k - 1]
    OBVIOUS
  <2>3. PICK s : s = [j \in DOMAIN msgs[k].calls |-> Entry(k, j)]
    OBVIOUS
  <2>4. f \in Seq(E) /\ F[k] = f \o s
    BY <1>2, <2>1, <2>2, <2>3
  <2>5. PICK m \in Nat : DOMAIN msgs[k].calls = 1..m
    <3>1. msgs[k] \in Messages
      BY <1>1
    <3>2. msgs[k].calls \in Seq(CallRecords)
      BY <3>1 DEF Messages
    <3> QED
      BY <3>2
  <2>6. s = [j \in 1..m |-> Entry(k, j)]
    BY <2>3, <2>5
  <2>7. Entries(k) = {Entry(k, j) : j \in 1..m} /\ Entries(k) \subseteq E
    BY <1>1, <2>5 DEF Entries, E
  <2>8. DOMAIN s = 1..m /\ {s[j] : j \in DOMAIN s} = Entries(k)
    BY <2>6, <2>7
  <2>9. {F[k][j] : j \in DOMAIN F[k]} = {f[j] : j \in DOMAIN f} \cup {s[j] : j \in DOMAIN s}
    <3>1. s \in Seq(E)
      BY <2>6, <2>7
    <3>2. PICK g : g = F[k]
      OBVIOUS
    <3>3. {g[j] : j \in DOMAIN g} = {f[j] : j \in DOMAIN f} \cup {s[j] : j \in DOMAIN s}
      <4>1. Joins(E, f, s, g)
        BY <2>4, <3>1, <3>2 DEF Joins
      <4> QED
        BY <4>1, ConcatElements
    <3> QED
      BY <3>2, <3>3
  <2>10. {f[j] : j \in DOMAIN f} = UNION {Entries(i) : i \in 1..(k - 1)}
    BY <1>4, <2>2
  <2>11. UNION {Entries(i) : i \in 1..k} = (UNION {Entries(i) : i \in 1..(k - 1)}) \cup Entries(k)
    BY <2>1
  <2>12. In(k)
    BY <2>8, <2>9, <2>10, <2>11
  <2> QED
    BY <2>1, <2>12
<1>5. n \in 0..n /\ \A k \in 0..n : k \in S
  <2> HIDE DEF S
  <2>1. \A k \in 0..n : k \in S
    <3> HIDE DEF n
    <3> QED
      BY <1>1, <1>3, <1>4, UpTo
  <2> QED
    BY <1>1, <2>1
<1>6. In(n)
  BY <1>5
<1> QED
  BY <1>1, <1>2, <1>6

-----------------------------------------------------------------------------
(* The router's decision, and the models it leaves.                        *)

\* The other models are tiers.
LEMMA OtherModelsType ==
    ASSUME NEW tier, NEW others, others = OtherModels(tier)
    PROVE  others \in Seq(Tiers)
<1> DEFINE n == Len(FallbackChain)
           A == Seq(Tiers)
           seq == FallbackChain
           base == <<>>
           Op(a, i) == IF i # tier THEN Append(a, i) ELSE a
           iter == CHOOSE f : f = [T \in SUBSET (DOMAIN seq) |->
                       IF T = {} THEN base ELSE Op(f[T \ {Max(T)}], seq[Max(T)])]
           step == [p \in A \X (1..n) |-> Op(p[1], seq[p[2]])]
<1>1. n \in Nat /\ DOMAIN seq = 1..n /\ \A i \in 1..n : seq[i] \in Tiers
  BY RoutingAssumption
<1>2. ASSUME NEW a \in A, NEW i \in 1..n PROVE Op(a, seq[i]) \in A
  <2>1. seq[i] \in Tiers
    BY <1>1
  <2> HIDE DEF seq
  <2> QED
    BY <2>1
<1>3. others = iter[DOMAIN seq]
  BY DEF OtherModels, FoldLeft, MapThenFoldSet
<1>4. base \in A
  OBVIOUS
<1> HIDE DEF Op, seq, A, base
<1>5. step \in [A \X (1..n) -> A]
  BY <1>2
<1>6. PICK g \in [SUBSET (1..n) -> A] :
              \A T \in SUBSET (1..n) :
                 /\ g[T] = IF T = {} THEN base ELSE step[<<g[T \ {Max(T)}], Max(T)>>]
                 /\ T # {} => Max(T) \in 1..n
  <2> HIDE DEF step
  <2> QED
    BY <1>1, <1>4, <1>5, FoldExists
<1>7. iter = [T \in SUBSET (DOMAIN seq) |->
                    IF T = {} THEN base ELSE Op(iter[T \ {Max(T)}], seq[Max(T)])]
  <2>1. ASSUME NEW T \in SUBSET (1..n), T # {}
        PROVE  g[T] = Op(g[T \ {Max(T)}], seq[Max(T)])
    <3>1. Max(T) \in 1..n /\ g[T] = step[<<g[T \ {Max(T)}], Max(T)>>]
      <4> HIDE DEF step
      <4> QED
        BY <1>6, <2>1
    <3>2. T \ {Max(T)} \in SUBSET (1..n)
      OBVIOUS
    <3>3. g[T \ {Max(T)}] \in A
      BY <3>2, <1>6
    <3> QED
      BY <3>1, <3>3
  <2>2. g = [T \in SUBSET (DOMAIN seq) |->
                    IF T = {} THEN base ELSE Op(g[T \ {Max(T)}], seq[Max(T)])]
    <3> HIDE DEF step
    <3> QED
      BY <1>1, <1>6, <2>1
  <2>3. \E f : f = [T \in SUBSET (DOMAIN seq) |->
                    IF T = {} THEN base ELSE Op(f[T \ {Max(T)}], seq[Max(T)])]
    <3> HIDE DEF iter
    <3> QED
      BY <2>2
  <2> QED
    BY <2>3
<1> HIDE DEF iter
<1>8. ASSUME NEW T \in SUBSET (1..n), T # {}, iter[T \ {Max(T)}] \in A
      PROVE  iter[T] = step[<<iter[T \ {Max(T)}], Max(T)>>]
  <2>1. Max(T) \in 1..n
    BY <1>6, <1>8
  <2>2. iter[T] = Op(iter[T \ {Max(T)}], seq[Max(T)])
    BY <1>1, <1>7, <1>8
  <2> QED
    BY <1>8, <2>1, <2>2
<1>9. PICK F \in [0..n -> A] : /\ F[0] = base /\ F[n] = iter[1..n]
                               /\ \A k \in 1..n : F[k] = step[<<F[k - 1], k>>]
  <2> HIDE DEF step
  <2>1. FoldsBy(n, A, base, step, iter)
    BY <1>1, <1>4, <1>5, <1>7, <1>8 DEF FoldsBy
  <2> QED
    BY <2>1, FoldPrefixes
<1> QED
  <2>1. n \in 0..n /\ 1..n = DOMAIN seq
    BY <1>1
  <2>2. F[n] \in A
    BY <2>1
  <2> QED
    BY <1>3, <1>9, <2>1, <2>2 DEF A

\* The models of a run are tiers that the floor leaves.
LEMMA ChainSound ==
    ASSUME NEW r, r.tier \in Tiers, r.floor \in Tiers, NEW models, models = ChainOf(r)
    PROVE  models \in Seq(Tiers) /\ \A i \in DOMAIN models : models[i] >= r.floor
<1> DEFINE n == Len(<<r.tier>> \o OtherModels(r.tier))
           A == {s \in Seq(Tiers) : \A i \in DOMAIN s : s[i] >= r.floor}
           seq == <<r.tier>> \o OtherModels(r.tier)
           base == <<>>
           Op(a, i) == IF i >= r.floor THEN Append(a, i) ELSE a
           iter == CHOOSE f : f = [T \in SUBSET (DOMAIN seq) |->
                       IF T = {} THEN base ELSE Op(f[T \ {Max(T)}], seq[Max(T)])]
           step == [p \in A \X (1..n) |-> Op(p[1], seq[p[2]])]
<1>1. n \in Nat /\ DOMAIN seq = 1..n /\ \A i \in 1..n : seq[i] \in Tiers
  <2>1. PICK others : others = OtherModels(r.tier)
    OBVIOUS
  <2>2. others \in Seq(Tiers)
    BY <2>1, OtherModelsType
  <2>3. <<r.tier>> \o others \in Seq(Tiers)
    BY <2>2
  <2> QED
    BY <2>1, <2>3
<1>2. ASSUME NEW a \in A, NEW i \in 1..n PROVE Op(a, seq[i]) \in A
  <2>1. seq[i] \in Tiers
    BY <1>1
  <2> HIDE DEF seq
  <2>2. CASE seq[i] >= r.floor
    <3>1. PICK t \in Tiers : t = seq[i]
      BY <2>1
    <3>2. Append(a, t) \in Seq(Tiers) /\ \A k \in DOMAIN Append(a, t) : Append(a, t)[k] >= r.floor
      BY <2>2, <3>1
    <3> QED
      BY <2>2, <3>1, <3>2
  <2>3. CASE ~ (seq[i] >= r.floor)
    BY <2>3
  <2> QED
    BY <2>2, <2>3
<1>3. models = iter[DOMAIN seq]
  BY DEF ChainOf, FoldLeft, MapThenFoldSet
<1>4. base \in A
  OBVIOUS
<1> HIDE DEF Op, seq, A, base
<1>5. step \in [A \X (1..n) -> A]
  BY <1>2
<1>6. PICK g \in [SUBSET (1..n) -> A] :
              \A T \in SUBSET (1..n) :
                 /\ g[T] = IF T = {} THEN base ELSE step[<<g[T \ {Max(T)}], Max(T)>>]
                 /\ T # {} => Max(T) \in 1..n
  <2> HIDE DEF step
  <2> QED
    BY <1>1, <1>4, <1>5, FoldExists
<1>7. iter = [T \in SUBSET (DOMAIN seq) |->
                    IF T = {} THEN base ELSE Op(iter[T \ {Max(T)}], seq[Max(T)])]
  <2>1. ASSUME NEW T \in SUBSET (1..n), T # {}
        PROVE  g[T] = Op(g[T \ {Max(T)}], seq[Max(T)])
    <3>1. Max(T) \in 1..n /\ g[T] = step[<<g[T \ {Max(T)}], Max(T)>>]
      <4> HIDE DEF step
      <4> QED
        BY <1>6, <2>1
    <3>2. T \ {Max(T)} \in SUBSET (1..n)
      OBVIOUS
    <3>3. g[T \ {Max(T)}] \in A
      BY <3>2, <1>6
    <3> QED
      BY <3>1, <3>3
  <2>2. g = [T \in SUBSET (DOMAIN seq) |->
                    IF T = {} THEN base ELSE Op(g[T \ {Max(T)}], seq[Max(T)])]
    <3> HIDE DEF step
    <3> QED
      BY <1>1, <1>6, <2>1
  <2>3. \E f : f = [T \in SUBSET (DOMAIN seq) |->
                    IF T = {} THEN base ELSE Op(f[T \ {Max(T)}], seq[Max(T)])]
    <3> HIDE DEF iter
    <3> QED
      BY <2>2
  <2> QED
    BY <2>3
<1> HIDE DEF iter
<1>8. ASSUME NEW T \in SUBSET (1..n), T # {}, iter[T \ {Max(T)}] \in A
      PROVE  iter[T] = step[<<iter[T \ {Max(T)}], Max(T)>>]
  <2>1. Max(T) \in 1..n
    BY <1>6, <1>8
  <2>2. iter[T] = Op(iter[T \ {Max(T)}], seq[Max(T)])
    BY <1>1, <1>7, <1>8
  <2> QED
    BY <1>8, <2>1, <2>2
<1>9. PICK F \in [0..n -> A] : /\ F[0] = base /\ F[n] = iter[1..n]
                               /\ \A k \in 1..n : F[k] = step[<<F[k - 1], k>>]
  <2> HIDE DEF step
  <2>1. FoldsBy(n, A, base, step, iter)
    BY <1>1, <1>4, <1>5, <1>7, <1>8 DEF FoldsBy
  <2> QED
    BY <2>1, FoldPrefixes
<1> QED
  <2>1. n \in 0..n /\ 1..n = DOMAIN seq
    BY <1>1
  <2>2. F[n] \in A
    BY <2>1
  <2> QED
    BY <1>3, <1>9, <2>1, <2>2 DEF A

\* The highest of some tiers is a tier.
LEMMA MaxTierIs ==
    ASSUME NEW ranks, ranks \subseteq Tiers, NEW m, m = MaxTier(ranks)
    PROVE  m \in Tiers /\ \A x \in ranks : x <= m
<1> DEFINE T == ranks \cup {0}
<1>1. T \subseteq 0..2 /\ 0 \in T
  BY DEF Tiers
<1>2. \E x \in T : \A y \in T : x >= y
  <2>1. CASE 2 \in T
    <3>1. \A y \in T : 2 >= y
      BY <1>1
    <3> QED
      BY <2>1, <3>1
  <2>2. CASE 2 \notin T /\ 1 \in T
    <3>1. \A y \in T : 1 >= y
      BY <1>1, <2>2
    <3> QED
      BY <2>2, <3>1
  <2>3. CASE 2 \notin T /\ 1 \notin T
    <3>1. \A y \in T : 0 >= y
      BY <1>1, <2>3
    <3> QED
      BY <1>1, <3>1
  <2> QED
    BY <2>1, <2>2, <2>3
<1>3. m \in T /\ \A y \in T : m >= y
  BY <1>2 DEF MaxTier, Max
<1>4. m \in 0..2
  BY <1>1, <1>3
<1>5. ASSUME NEW x \in ranks PROVE x <= m
  <2>1. x \in T /\ x \in 0..2
    BY <1>1
  <2> HIDE DEF T
  <2>2. m >= x
    BY <1>3, <2>1
  <2> QED
    BY <1>4, <2>1, <2>2
<1> QED
  BY <1>4, <1>5 DEF Tiers

\* The tools that the router leaves are tools whose minModel its floor reaches.
LEMMA ResolveSound ==
    ASSUME NEW req \in Requests, NEW r, r = ResolveModelForRequest(req.role, req.hint, Tools)
    PROVE  /\ r.tier \in Tiers /\ r.floor \in Tiers /\ r.allowed \subseteq Tools
           /\ \A t \in r.allowed : MinModel[t] <= r.floor
<1>1. PICK role \in DOMAIN Preferred, hint \in Tiers \cup {NoHint} : req.role = role /\ req.hint = hint
  BY LoopAssumption
<1>2. PICK asked : asked = IF AllowClientHint /\ hint # NoHint THEN hint ELSE Preferred[role]
  OBVIOUS
<1>3. asked \in Tiers
  BY <1>1, <1>2, RoutingAssumption
<1>4. PICK allowed : allowed = IF RespectMinModel THEN {t \in Tools : MinModel[t] <= asked} ELSE Tools
  OBVIOUS
<1>5. allowed \subseteq Tools
  BY <1>4
<1>6. PICK floor : floor = MaxTier({MinModel[t] : t \in allowed})
  OBVIOUS
<1>7. PICK tier : tier = MaxTier({asked, floor})
  OBVIOUS
<1>8. {MinModel[t] : t \in allowed} \subseteq Tiers
  BY <1>5, RoutingAssumption
<1>9. floor \in Tiers /\ \A t \in allowed : MinModel[t] <= floor
  BY <1>6, <1>8, MaxTierIs
<1>10. tier \in Tiers
  BY <1>3, <1>7, <1>9, MaxTierIs
<1>11. r = [tier |-> tier, floor |-> floor, allowed |-> allowed]
  BY <1>1, <1>2, <1>4, <1>6, <1>7 DEF ResolveModelForRequest, ComputeFloor
<1> QED
  BY <1>5, <1>9, <1>10, <1>11

\* Of some rules one comes first.
Before(rs, i, j) == \/ rs[i].priority > rs[j].priority
                    \/ rs[i].priority = rs[j].priority /\ i < j
LEMMA FirstRule ==
    ASSUME NEW rs \in Seq(PolicyRule), NEW M, M \subseteq DOMAIN rs, M # {}
    PROVE  \E i \in M : \A j \in M \ {i} : Before(rs, i, j)
<1> DEFINE n == Len(rs)
           First(i, k) == i \in M \cap (1..k) /\ \A j \in (M \cap (1..k)) \ {i} : Before(rs, i, j)
           S == {k \in 0..n : M \cap (1..k) # {} => \E i \in M : First(i, k)}
<1>1. n \in Nat /\ M \subseteq 1..n /\ \A i \in 1..n : rs[i].priority \in Int
  <2>1. n \in Nat /\ M \subseteq 1..n
    OBVIOUS
  <2>2. ASSUME NEW i \in 1..n PROVE rs[i].priority \in Int
    <3>1. rs[i] \in PolicyRule
      OBVIOUS
    <3> QED
      BY <3>1 DEF PolicyRule
  <2> QED
    BY <2>1, <2>2
<1>2. 0 \in S
  <2>1. M \cap (1..0) = {} /\ 0 \in 0..n
    BY <1>1
  <2> QED
    BY <2>1
<1>3. ASSUME NEW k \in 1..n, k - 1 \in S PROVE k \in S
  <2>1. k \in 0..n /\ 1..k = (1..(k - 1)) \cup {k} /\ \A j \in 1..(k - 1) : j \in 1..n /\ j < k
    BY <1>1
  <2>2. CASE k \notin M
    <3>1. M \cap (1..k) = M \cap (1..(k - 1))
      BY <2>1, <2>2
    <3> QED
      BY <1>3, <2>1, <3>1
  <2>3. CASE k \in M /\ M \cap (1..(k - 1)) = {}
    <3>1. M \cap (1..k) = {k}
      BY <2>1, <2>3
    <3>2. First(k, k)
      BY <3>1
    <3> QED
      BY <2>1, <2>3, <3>2
  <2>4. CASE k \in M /\ M \cap (1..(k - 1)) # {}
    <3>1. PICK i \in M : First(i, k - 1)
      BY <1>3, <2>4
    <3>2. i \in 1..(k - 1) /\ \A j \in (M \cap (1..(k - 1))) \ {i} : Before(rs, i, j)
      BY <3>1
    <3>3. i \in 1..n /\ i < k /\ k \in 1..n
      BY <2>1, <3>2
    <3>4. rs[i].priority \in Int /\ rs[k].priority \in Int
      BY <1>1, <3>3
    <3>5. CASE rs[k].priority > rs[i].priority
      <4>1. ASSUME NEW j \in (M \cap (1..k)) \ {k} PROVE Before(rs, k, j)
        <5>1. j \in M \cap (1..(k - 1)) /\ j \in 1..n /\ rs[j].priority \in Int
          BY <1>1, <2>1
        <5>2. j = i \/ Before(rs, i, j)
          BY <3>2, <5>1
        <5>3. rs[k].priority > rs[j].priority
          BY <3>4, <3>5, <5>1, <5>2 DEF Before
        <5> QED
          BY <5>3 DEF Before
      <4>2. First(k, k)
        BY <2>1, <2>4, <4>1
      <4> QED
        BY <2>1, <2>4, <4>2
    <3>6. CASE ~ (rs[k].priority > rs[i].priority)
      <4>1. Before(rs, i, k)
        BY <3>3, <3>4, <3>6 DEF Before
      <4>2. First(i, k)
        BY <2>1, <3>2, <4>1
      <4> QED
        BY <2>1, <4>2
    <3> QED
      BY <3>5, <3>6
  <2> QED
    BY <2>2, <2>3, <2>4
<1>4. n \in S
  <2>1. n \in 0..n
    BY <1>1
  <2> HIDE DEF S, n
  <2>2. \A k \in 0..n : k \in S
    BY <1>1, <1>2, <1>3, UpTo
  <2> QED
    BY <2>1, <2>2
<1>5. M \cap (1..n) = M
  BY <1>1
<1> QED
  BY <1>4, <1>5

\* A deny rule for all callers or for this one decides, whatever other rules say.
LEMMA DenyDecides ==
    ASSUME NEW rs \in Seq(PolicyRule), NEW tool, NEW i \in DOMAIN rs,
           rs[i].verdict = "deny", rs[i].channel = Anyone, rs[i].user \in {Anyone, User},
           MatchToolPattern(rs[i].pattern, tool)
    PROVE  EvaluateToolPolicy(rs, tool, User, User) = "deny"
<1> DEFINE matching == {j \in DOMAIN rs : MatchToolPattern(rs[j].pattern, tool)}
           unscoped == {j \in matching : Unscoped(rs[j])}
           denying == {j \in matching : rs[j].verdict = "deny"}
           ofUser == {j \in matching : rs[j].user = User}
<1>1. ASSUME NEW M, M \subseteq denying, M # {} PROVE "deny" \in TopVerdict(rs, M)
  <2>1. M \subseteq DOMAIN rs
    BY <1>1
  <2>2. PICK j \in M : \A l \in M \ {j} : Before(rs, j, l)
    BY <1>1, <2>1, FirstRule
  <2>3. rs[j].verdict = "deny"
    BY <1>1
  <2> QED
    BY <2>2, <2>3 DEF TopVerdict, Before
<1>2. i \in denying /\ (i \in unscoped \/ i \in ofUser)
  BY DEF Unscoped
<1>3. \/ "deny" \in TopVerdict(rs, denying \cap unscoped)
      \/ "deny" \in TopVerdict(rs, denying \cap ofUser)
  BY <1>1, <1>2
<1>4. "deny" \in StageVerdicts(rs, tool, User, User)
  BY <1>3 DEF StageVerdicts
<1> QED
  BY <1>4 DEF EvaluateToolPolicy

-----------------------------------------------------------------------------
(* What the invariant says.                                                *)

\* A call's result is found by its place, as the calls of an answer have
\* different ids and the results are in their order.
LEMMA ResultAt ==
    ASSUME LoopTypes, CallsSound, ResultsFollow,
           NEW i \in DOMAIN msgs, NEW k \in DOMAIN msgs[i].calls, i < Len(msgs),
           NEW o, o = ResultOf(msgs[i].calls[k], i)
    PROVE  o = msgs[i + 1].results[k].outcome /\ o \in Outcomes /\ msgs[i].calls[k] \in CallRecords
<1>1. msgs[i] \in Messages /\ msgs[i + 1] \in Messages
  BY DEF LoopTypes
<1>2. PICK calls : calls = msgs[i].calls
  OBVIOUS
<1>3. PICK results : results = msgs[i + 1].results
  OBVIOUS
<1>4. calls \in Seq(CallRecords) /\ results \in Seq([id : Nat \X Nat, outcome : Outcomes])
  BY <1>1, <1>2, <1>3 DEF Messages
<1>5. /\ DOMAIN results = DOMAIN calls
      /\ \A l \in DOMAIN calls : results[l].id = calls[l].id
  <2>1. msgs[i].calls # <<>>
    BY <1>2, <1>4
  <2> QED
    BY <1>2, <1>3, <2>1 DEF ResultsFollow
<1>6. \A l \in DOMAIN calls : results[l].id = calls[k].id => l = k
  BY <1>2, <1>5 DEF CallsSound
<1>7. (CHOOSE r \in DOMAIN results : results[r].id = calls[k].id) = k
  BY <1>2, <1>5, <1>6
<1>8. o = results[k].outcome
  BY <1>2, <1>3, <1>5, <1>7 DEF ResultOf
<1>9. k \in DOMAIN calls /\ k \in DOMAIN results
  BY <1>2, <1>5
<1>10. calls[k] \in CallRecords /\ results[k] \in [id : Nat \X Nat, outcome : Outcomes]
  <2>1. calls[k] \in CallRecords
    BY <1>4, <1>9
  <2>2. DOMAIN results = 1..Len(results)
    BY <1>4
  <2>3. k \in 1..Len(results)
    BY <1>9, <2>2
  <2>4. results[k] \in [id : Nat \X Nat, outcome : Outcomes]
    BY <1>4, <2>3, ElementOfSeq
  <2> QED
    BY <2>1, <2>4
<1>11. results[k].outcome \in Outcomes
  BY <1>10
<1> QED
  BY <1>2, <1>3, <1>8, <1>10, <1>11

\* Where a run returns, the row it writes names what ran, and no call in it is
\* without a result.
LEMMA RowNamesRan ==
    ASSUME LoopInv, phase \in {"turn", "answered"}, NEW row, row = CollectToolCalls
    PROVE  /\ {[id |-> row[k].id, tool |-> row[k].tool] :
                 k \in {l \in DOMAIN row : row[l].outcome \in {"ok", "failed"}}} = ran
           /\ \A k \in DOMAIN row : row[k].outcome # "none"
<1>1. LoopTypes /\ CallsSound /\ ResultsFollow /\ RanAccounted
  BY DEF LoopInv
<1>2. {row[j] : j \in DOMAIN row} = UNION {Entries(i) : i \in DOMAIN msgs}
  BY <1>1, RowEntries DEF LoopTypes
<1>3. ASSUME NEW i \in DOMAIN msgs, NEW k \in DOMAIN msgs[i].calls
      PROVE  /\ i \in 1..(Len(msgs) - 1)
             /\ Entry(i, k) = [id |-> msgs[i].calls[k].id, tool |-> msgs[i].calls[k].tool,
                               outcome |-> msgs[i + 1].results[k].outcome]
             /\ msgs[i + 1].results[k].outcome \in Outcomes
             /\ msgs[i].calls[k] \in CallRecords
  <2>1. msgs \in Seq(Messages)
    BY <1>1 DEF LoopTypes
  <2>2. msgs[i] \in Messages
    BY <2>1
  <2>3. msgs[i].calls # <<>>
    BY <2>2 DEF Messages
  <2>4. msgs[Len(msgs)].calls = <<>>
    BY <1>1, <2>1 DEF ResultsFollow, Live
  <2>5. i \in 1..(Len(msgs) - 1) /\ i < Len(msgs)
    BY <2>1, <2>3, <2>4
  <2>6. PICK o : o = ResultOf(msgs[i].calls[k], i)
    OBVIOUS
  <2>7. o = msgs[i + 1].results[k].outcome /\ o \in Outcomes /\ msgs[i].calls[k] \in CallRecords
    BY <1>1, <2>5, <2>6, ResultAt
  <2> QED
    BY <2>5, <2>6, <2>7 DEF Entry
<1>4. ASSUME NEW j \in DOMAIN row
      PROVE  \E i \in DOMAIN msgs : \E k \in DOMAIN msgs[i].calls : row[j] = Entry(i, k)
  BY <1>2 DEF Entries
<1>5. ASSUME NEW i \in DOMAIN msgs, NEW k \in DOMAIN msgs[i].calls
      PROVE  \E j \in DOMAIN row : row[j] = Entry(i, k)
  BY <1>2 DEF Entries
<1>6. ran = TookCalls
  <2>1. BegunCalls = {}
    BY <1>1 DEF ResultsFollow, BegunCalls
  <2> QED
    BY <1>1, <2>1 DEF RanAccounted, Live
<1>7. \A k \in DOMAIN row : row[k].outcome # "none"
  BY <1>3, <1>4 DEF Outcomes
<1>8. ASSUME NEW j \in DOMAIN row, row[j].outcome \in {"ok", "failed"}
      PROVE  [id |-> row[j].id, tool |-> row[j].tool] \in ran
  <2>1. PICK i \in DOMAIN msgs : \E k \in DOMAIN msgs[i].calls : row[j] = Entry(i, k)
    BY <1>4
  <2>2. PICK k \in DOMAIN msgs[i].calls : row[j] = Entry(i, k)
    BY <2>1
  <2>3. [id |-> row[j].id, tool |-> row[j].tool] = msgs[i].calls[k]
    BY <1>3, <2>2 DEF CallRecords
  <2>4. i \in 1..(Len(msgs) - 1) /\ msgs[i + 1].results[k].outcome \in Took
    BY <1>3, <1>8, <2>2 DEF Took
  <2> QED
    BY <1>6, <2>3, <2>4 DEF TookCalls
<1>9. ASSUME NEW call \in ran
      PROVE  \E j \in DOMAIN row : /\ row[j].outcome \in {"ok", "failed"}
                                   /\ call = [id |-> row[j].id, tool |-> row[j].tool]
  <2>1. PICK i \in 1..(Len(msgs) - 1) :
           call \in {msgs[i].calls[k] : k \in {l \in DOMAIN msgs[i].calls : msgs[i + 1].results[l].outcome \in Took}}
    BY <1>6 DEF TookCalls
  <2>2. PICK k \in DOMAIN msgs[i].calls : call = msgs[i].calls[k] /\ msgs[i + 1].results[k].outcome \in Took
    BY <2>1
  <2>3. i \in DOMAIN msgs
    BY <1>1 DEF LoopTypes
  <2>4. PICK j \in DOMAIN row : row[j] = Entry(i, k)
    BY <1>5, <2>3
  <2>5. call = [id |-> row[j].id, tool |-> row[j].tool]
    BY <1>3, <2>2, <2>3, <2>4 DEF CallRecords
  <2>6. row[j].outcome \in {"ok", "failed"}
    BY <1>3, <2>2, <2>3, <2>4 DEF Took
  <2> QED
    BY <2>5, <2>6
<1> QED
  BY <1>7, <1>8, <1>9

\* The history is one that the model accepts.
LEMMA InvHistory == ASSUME LoopInv PROVE HistoryAccepted
<1>1. LoopTypes /\ ResultsFollow /\ CallsKept
  BY DEF LoopInv
<1>2. ASSUME NEW i \in DOMAIN msgs, msgs[i].calls # <<>>,
             i < Len(msgs) \/ phase \in {"turn", "answered"}
      PROVE  /\ i < Len(msgs)
             /\ [k \in DOMAIN msgs[i + 1].results |-> msgs[i + 1].results[k].id]
                  = [k \in DOMAIN msgs[i].calls |-> msgs[i].calls[k].id]
  <2>1. i < Len(msgs)
    <3>1. msgs \in Seq(Messages) /\ msgs # <<>>
      BY <1>1 DEF LoopTypes
    <3> QED
      BY <1>1, <1>2, <3>1 DEF ResultsFollow, Live
  <2>2. /\ DOMAIN msgs[i + 1].results = DOMAIN msgs[i].calls
        /\ \A k \in DOMAIN msgs[i].calls : msgs[i + 1].results[k].id = msgs[i].calls[k].id
    BY <1>1, <1>2, <2>1 DEF ResultsFollow
  <2> QED
    BY <2>1, <2>2
<1>3. CallsAnswered
  BY <1>1, <1>2 DEF CallsAnswered, ResultsFollow
<1> QED
  BY <1>1, <1>3 DEF HistoryAccepted

\* No executor runs that a rule or the model denies.
LEMMA InvPermitted == ASSUME LoopInv PROVE OnlyPermitted
<1>1. RanPermitted /\ rules \in Seq(PolicyRule)
  BY LoopAssumption DEF LoopInv, LoopTypes
<1>2. ASSUME NEW call \in ran, NEW i \in DOMAIN rules,
             rules[i].verdict = "deny", rules[i].channel = Anyone,
             rules[i].user \in {Anyone, User}, MatchToolPattern(rules[i].pattern, call.tool)
      PROVE  FALSE
  <2>1. EvaluateToolPolicy(rules, call.tool, User, User) = "deny"
    BY <1>1, <1>2, DenyDecides
  <2> QED
    BY <1>1, <2>1 DEF RanPermitted
<1>3. ASSUME NEW call \in ran, NEW i \in DOMAIN chain PROVE MinModel[call.tool] <= chain[i]
  BY <1>1 DEF RanPermitted
<1> QED
  BY <1>2, <1>3 DEF OnlyPermitted

-----------------------------------------------------------------------------
(* The invariant, step by step.                                            *)

\* What the invariant says of the history alone.
HistorySound == LoopTypes /\ CallsSound /\ CallsKept /\ RanPermitted
Untouched == UNCHANGED <<provider, rules, route, chain, msgs, ran>>

LEMMA Keeps ==
    ASSUME LoopInv, Untouched, turns' \in Nat, phase' \in Phases
    PROVE  HistorySound'
<1> USE DEF LoopInv, Untouched
<1>1. LoopTypes'
  BY DEF LoopTypes
<1>2. CallsSound'
  BY DEF CallsSound
<1>3. CallsKept'
  BY DEF CallsKept
<1>4. RanPermitted'
  BY DEF RanPermitted
<1> QED
  BY <1>1, <1>2, <1>3, <1>4 DEF HistorySound

\* A step that leaves the history and goes from a phase without jobs to another.
LEMMA Elsewhere ==
    ASSUME LoopInv, Untouched, UNCHANGED jobs, turns' \in Nat, phase' \in Phases \ {"tools"},
           phase # "tools", phase' \in Live => phase \in Live, RowWritten'
    PROVE  LoopInv'
<1>1. HistorySound'
  BY Keeps
<1>2. ResultsFollow'
  BY DEF LoopInv, ResultsFollow, Untouched, Live, Phases
<1>3. RanAccounted'
  BY DEF LoopInv, RanAccounted, TookCalls, BegunCalls, Calls, Untouched
<1> QED
  BY <1>1, <1>2, <1>3 DEF LoopInv, HistorySound

\* A step that leaves all that the invariant is about.
LEMMA Stands ==
    ASSUME LoopInv, Untouched, UNCHANGED <<jobs, turns, phase, recorded>>
    PROVE  LoopInv'
<1>1. HistorySound'
  BY Keeps DEF LoopInv, LoopTypes
<1>2. ResultsFollow'
  BY DEF LoopInv, ResultsFollow, Untouched, Calls
<1>3. RanAccounted'
  BY DEF LoopInv, RanAccounted, TookCalls, BegunCalls, Calls, Untouched
<1>4. RowWritten'
  BY DEF LoopInv, RowWritten, EffectsRecorded, Untouched
<1> QED
  BY <1>1, <1>2, <1>3, <1>4 DEF LoopInv, HistorySound

\* execute() starts with an empty history.
LEMMA Starts ==
    ASSUME LoopInv, phase # "over", Execute, UNCHANGED <<provider, rules, recorded>>,
           route'.allowed \subseteq Tools, chain' \in Seq(Tiers),
           \A t \in route'.allowed, i \in DOMAIN chain' : MinModel[t] <= chain'[i]
    PROVE  LoopInv'
<1> USE DEF Execute
<1>1. LoopTypes'
  BY DEF LoopInv, LoopTypes, Phases, Live
<1>2. CallsSound' /\ CallsKept'
  BY DEF CallsSound, CallsKept
<1>3. ResultsFollow'
  BY DEF ResultsFollow
<1>4. RanAccounted'
  <2>1. TookCalls' = {}
    BY DEF TookCalls
  <2>2. BegunCalls' = {}
    BY DEF BegunCalls
  <2> QED
    BY <2>1, <2>2 DEF RanAccounted
<1>5. RanPermitted'
  BY DEF RanPermitted
<1>6. RowWritten'
  BY DEF LoopInv, RowWritten, EffectsRecorded, NoRow
<1> QED
  BY <1>1, <1>2, <1>3, <1>4, <1>5, <1>6 DEF LoopInv

LEMMA InitInv == Init => LoopInv
<1> SUFFICES ASSUME Init PROVE LoopInv
  OBVIOUS
<1> USE DEF Init
<1>1. LoopTypes
  BY DEF LoopTypes, Phases, Live, NoRoute
<1>2. CallsSound /\ CallsKept
  BY DEF CallsSound, CallsKept
<1>3. ResultsFollow
  BY DEF ResultsFollow, Live
<1>4. RanAccounted
  BY DEF RanAccounted, Live
<1>5. RanPermitted
  BY DEF RanPermitted, NoRoute
<1>6. RowWritten
  BY DEF RowWritten, EffectsRecorded, NoRow
<1> QED
  BY <1>1, <1>2, <1>3, <1>4, <1>5, <1>6 DEF LoopInv

\* The row that a run writes where it returns, and where it throws.
LEMMA ReturnInv ==
    ASSUME LoopInv, phase \in {"turn", "answered"}, Return, UNCHANGED <<request, fallback, loop, aborted>>
    PROVE  LoopInv'
<1>1. PICK row : row = CollectToolCalls
  OBVIOUS
<1>2. recorded' = [error |-> "no", calls |-> row] /\ phase' = "over" /\ ran' = ran
  BY <1>1 DEF Return, loop
<1>3. /\ {[id |-> row[k].id, tool |-> row[k].tool] :
            k \in {l \in DOMAIN row : row[l].outcome \in {"ok", "failed"}}} = ran
      /\ \A k \in DOMAIN row : row[k].outcome # "none"
  BY <1>1, RowNamesRan
<1>4. RowWritten'
  BY <1>2, <1>3 DEF RowWritten, EffectsRecorded
<1>5. Untouched /\ UNCHANGED <<jobs, turns>>
  BY DEF Untouched, request, fallback, loop, talk
<1> QED
  BY <1>2, <1>4, <1>5, Elsewhere DEF Phases, Live, LoopInv, LoopTypes

LEMMA ThrownRow ==
    ASSUME NEW error, error # "no", Throw(error)
    PROVE  RowWritten' /\ phase' = "over"
BY DEF Throw, RowWritten, EffectsRecorded

LEMMA FailedRow ==
    ASSUME LoopInv, phase # "over", NEW error, error # "no", Fail(error)
    PROVE  RowWritten' /\ phase' \in {"over", "failed"}
<1>1. CASE error \in {"transient", "overloaded"}
  BY <1>1 DEF LoopInv, Fail, RowWritten, EffectsRecorded, NoRow
<1>2. CASE error \notin {"transient", "overloaded"}
  BY <1>2, ThrownRow DEF Fail
<1> QED
  BY <1>1, <1>2

LEMMA RunInv ==
    ASSUME LoopInv, NEW req \in Requests, Run(req)
    PROVE  LoopInv'
<1>1. PICK r : r = ResolveModelForRequest(req.role, req.hint, Tools)
  OBVIOUS
<1>2. PICK models : models = ChainOf(r)
  OBVIOUS
<1>3. route' = r /\ chain' = models
  BY <1>1, <1>2 DEF Run
<1>4. /\ r.tier \in Tiers /\ r.floor \in Tiers /\ r.allowed \subseteq Tools
      /\ \A t \in r.allowed : MinModel[t] <= r.floor
  BY <1>1, ResolveSound
<1>5. models \in Seq(Tiers) /\ \A i \in DOMAIN models : models[i] >= r.floor
  BY <1>2, <1>4, ChainSound
<1>6. ASSUME NEW t \in r.allowed, NEW i \in DOMAIN models PROVE MinModel[t] <= models[i]
  <2>1. MinModel[t] \in Tiers /\ models[i] \in Tiers
    BY <1>4, <1>5, RoutingAssumption
  <2>2. MinModel[t] <= r.floor /\ models[i] >= r.floor
    BY <1>4, <1>5
  <2> QED
    BY <1>4, <2>1, <2>2 DEF Tiers
<1>7. phase # "over" /\ Execute /\ UNCHANGED <<provider, rules, recorded>>
  BY DEF Run
<1> QED
  BY <1>3, <1>4, <1>5, <1>6, <1>7, Starts

LEMMA AgainInv ==
    ASSUME LoopInv, SameModel \/ NextModel
    PROVE  LoopInv'
<1>1. LoopTypes /\ RanPermitted /\ phase = "failed"
  BY DEF LoopInv, SameModel, NextModel
<1>2. CASE SameModel /\ aborted
  <2>1. Throw("abort") /\ Untouched /\ UNCHANGED <<jobs, turns>>
    BY <1>2 DEF SameModel, Untouched, request, loop, talk
  <2>2. RowWritten' /\ phase' = "over"
    BY <2>1, ThrownRow
  <2> QED
    BY <1>1, <2>1, <2>2, Elsewhere DEF LoopTypes, Phases, Live
<1>3. CASE SameModel /\ ~ aborted
  <2>1. Execute /\ UNCHANGED <<provider, rules, route, chain, recorded>>
    BY <1>3 DEF SameModel, request
  <2> QED
    BY <1>1, <2>1, Starts DEF LoopTypes, RanPermitted
<1>4. CASE NextModel
  <2>1. Execute /\ UNCHANGED <<provider, rules, route, recorded>> /\ chain' = Tail(chain) /\ Len(chain) > 1
    BY <1>4 DEF NextModel, request
  <2>2. chain \in Seq(Tiers) /\ chain # <<>>
    BY <1>1, <2>1 DEF LoopTypes
  <2>3. /\ chain' \in Seq(Tiers)
        /\ \A i \in DOMAIN chain' : i + 1 \in DOMAIN chain /\ chain'[i] = chain[i + 1]
    BY <2>1, <2>2
  <2>4. \A t \in route'.allowed, i \in DOMAIN chain' : MinModel[t] <= chain'[i]
    BY <1>1, <2>1, <2>3 DEF RanPermitted
  <2> QED
    BY <1>1, <2>1, <2>3, <2>4, Starts DEF LoopTypes
<1> QED
  BY <1>2, <1>3, <1>4

\* Steps that change neither the history nor the jobs.
LEMMA WaitInv ==
    ASSUME LoopInv,
           \/ StartTurn \/ Retry \/ Exhausted
           \/ \E error \in {"transient", "overloaded", "rejected", "abort"} : StreamFails(error)
    PROVE  LoopInv'
<1>1. LoopTypes /\ RowWritten
  BY DEF LoopInv
<1>2. CASE StartTurn
  <2>1. Untouched /\ UNCHANGED <<jobs, recorded>> /\ phase = "turn" /\ phase' = "call" /\ turns' = turns + 1
    BY <1>2 DEF StartTurn, Untouched, request, fallback, talk
  <2>2. RowWritten'
    BY <1>1, <2>1 DEF RowWritten, EffectsRecorded, NoRow
  <2> QED
    BY <1>1, <2>1, <2>2, Elsewhere DEF LoopTypes, Phases, Live
<1>3. CASE Retry
  <2>1. Untouched /\ UNCHANGED <<jobs, turns>> /\ phase = "backoff"
    BY <1>3 DEF Retry, Untouched, request, fallback, talk
  <2>2. CASE aborted
    <3>1. RowWritten' /\ phase' = "over"
      <4>1. Throw("abort")
        BY <1>3, <2>2 DEF Retry
      <4> QED
        BY <4>1, ThrownRow
    <3> QED
      BY <1>1, <2>1, <3>1, Elsewhere DEF LoopTypes, Phases, Live
  <2>3. CASE ~ aborted
    <3>1. phase' = "call" /\ recorded' = recorded
      BY <1>3, <2>3 DEF Retry
    <3>2. RowWritten'
      BY <1>1, <2>1, <3>1 DEF RowWritten, EffectsRecorded, NoRow
    <3> QED
      BY <1>1, <2>1, <3>1, <3>2, Elsewhere DEF LoopTypes, Phases, Live
  <2> QED
    BY <2>2, <2>3
<1>4. CASE Exhausted
  <2>1. Untouched /\ UNCHANGED <<jobs, turns>> /\ phase = "failed" /\ Throw("exhausted")
    BY <1>4 DEF Exhausted, Untouched, request, fallback, loop, talk
  <2>2. RowWritten' /\ phase' = "over"
    BY <2>1, ThrownRow
  <2> QED
    BY <1>1, <2>1, <2>2, Elsewhere DEF LoopTypes, Phases, Live
<1>5. ASSUME NEW error \in {"transient", "overloaded", "rejected", "abort"}, StreamFails(error)
      PROVE  LoopInv'
  <2>1. Untouched /\ UNCHANGED <<jobs, turns>> /\ phase = "call"
    BY <1>5 DEF StreamFails, Untouched, request, fallback, loop, talk
  <2>2. CASE error = "transient" /\ tries < MaxTries
    <3>1. phase' = "backoff" /\ recorded' = recorded
      BY <1>5, <2>2 DEF StreamFails
    <3>2. RowWritten'
      BY <1>1, <2>1, <3>1 DEF RowWritten, EffectsRecorded, NoRow
    <3> QED
      BY <1>1, <2>1, <3>1, <3>2, Elsewhere DEF LoopTypes, Phases, Live
  <2>3. CASE ~ (error = "transient" /\ tries < MaxTries)
    <3>1. Fail(error) /\ error # "no"
      BY <1>5, <2>3 DEF StreamFails
    <3>2. RowWritten' /\ phase' \in {"over", "failed"}
      BY <2>1, <3>1, FailedRow
    <3> QED
      BY <1>1, <2>1, <3>2, Elsewhere DEF LoopTypes, Phases, Live
  <2> QED
    BY <2>2, <2>3
<1> QED
  BY <1>2, <1>3, <1>4, <1>5

\* What has begun when the job of one call changes.
LEMMA JobChange ==
    ASSUME ResultsFollow, phase = "tools", msgs' = msgs,
           NEW k \in DOMAIN jobs, NEW v, jobs' = [jobs EXCEPT ![k] = v]
    PROVE  /\ v \in Took \cup {"called"} => BegunCalls' = BegunCalls \cup {Calls[k]}
           /\ v \notin Took \cup {"called"} /\ jobs[k] = "running" => BegunCalls' = BegunCalls
           /\ jobs[k] = "called" => Calls[k] \in BegunCalls
           /\ v \in Outcomes \cup {"called"} =>
                 jobs' \in [DOMAIN Calls -> Outcomes \cup {"running", "called"}]
<1>1. jobs \in [DOMAIN Calls -> Outcomes \cup {"running", "called"}]
  BY DEF ResultsFollow
<1>2. DOMAIN jobs' = DOMAIN jobs /\ Calls' = Calls
  BY DEF Calls
<1>3. /\ jobs'[k] = v
      /\ \A l \in DOMAIN jobs : l # k => jobs'[l] = jobs[l]
  OBVIOUS
<1>4. ASSUME v \in Took \cup {"called"} PROVE BegunCalls' = BegunCalls \cup {Calls[k]}
  <2>1. {l \in DOMAIN jobs' : jobs'[l] \in Took \cup {"called"}}
          = {l \in DOMAIN jobs : jobs[l] \in Took \cup {"called"}} \cup {k}
    BY <1>2, <1>3, <1>4
  <2> QED
    BY <1>2, <2>1 DEF BegunCalls
<1>5. ASSUME v \notin Took \cup {"called"}, jobs[k] = "running" PROVE BegunCalls' = BegunCalls
  <2>1. {l \in DOMAIN jobs' : jobs'[l] \in Took \cup {"called"}}
          = {l \in DOMAIN jobs : jobs[l] \in Took \cup {"called"}}
    BY <1>2, <1>3, <1>5 DEF Took
  <2> QED
    BY <1>2, <2>1 DEF BegunCalls
<1>6. jobs[k] = "called" => Calls[k] \in BegunCalls
  BY DEF BegunCalls
<1>7. v \in Outcomes \cup {"called"} => jobs' \in [DOMAIN Calls -> Outcomes \cup {"running", "called"}]
  BY <1>1
<1> QED
  BY <1>4, <1>5, <1>6, <1>7

LEMMA JobInv ==
    ASSUME LoopInv, NEW k \in DOMAIN jobs,
           Refuse(k) \/ Call(k) \/ \E outcome \in {"ok", "failed"} : Settle(k, outcome)
    PROVE  LoopInv'
<1>1. /\ LoopTypes /\ CallsSound /\ ResultsFollow /\ CallsKept
      /\ RanAccounted /\ RanPermitted /\ RowWritten
  BY DEF LoopInv
<1>2. phase = "tools" /\ UNCHANGED <<provider, rules, route, chain, msgs, phase, turns, recorded>>
  BY DEF Refuse, Call, Settle, request, fallback, talk
<1>3. TookCalls' = TookCalls /\ Calls' = Calls
  BY <1>2 DEF TookCalls, Calls
<1>4. CallsSound' /\ CallsKept' /\ RowWritten'
  <2>1. CallsSound' /\ CallsKept'
    BY <1>1, <1>2 DEF CallsSound, CallsKept
  <2>2. RowWritten'
    BY <1>1, <1>2 DEF RowWritten, EffectsRecorded, NoRow
  <2> QED
    BY <2>1, <2>2
<1>5. ASSUME NEW v \in Outcomes \cup {"called"}, jobs' = [jobs EXCEPT ![k] = v]
      PROVE  ResultsFollow'
  <2>1. jobs' \in [DOMAIN Calls -> Outcomes \cup {"running", "called"}]
    BY <1>1, <1>2, <1>5, JobChange
  <2> QED
    BY <1>1, <1>2, <1>3, <2>1 DEF ResultsFollow
<1>6. ran = TookCalls \cup BegunCalls
  BY <1>1, <1>2 DEF RanAccounted, Live
<1>7. ASSUME ran' = ran PROVE LoopTypes' /\ RanPermitted'
  BY <1>1, <1>2, <1>7 DEF LoopTypes, RanPermitted
<1>8. CASE Refuse(k)
  <2>1. PICK v \in {"badInput", "denied"} : jobs' = [jobs EXCEPT ![k] = v]
    BY <1>8 DEF Refuse
  <2>2. jobs[k] = "running" /\ ran' = ran
    BY <1>8 DEF Refuse
  <2>3. v \in Outcomes /\ v \notin Took \cup {"called"}
    BY DEF Outcomes, Took
  <2>4. BegunCalls' = BegunCalls
    BY <1>1, <1>2, <2>1, <2>2, <2>3, JobChange
  <2>5. RanAccounted'
    BY <1>3, <1>6, <2>2, <2>4 DEF RanAccounted
  <2> QED
    BY <1>4, <1>5, <1>7, <2>1, <2>2, <2>3, <2>5 DEF LoopInv
<1>9. CASE \E outcome \in {"ok", "failed"} : Settle(k, outcome)
  <2>1. PICK v \in {"ok", "failed"} : jobs' = [jobs EXCEPT ![k] = v]
    BY <1>9 DEF Settle
  <2>2. jobs[k] = "called" /\ ran' = ran
    BY <1>9 DEF Settle
  <2>3. v \in Outcomes /\ v \in Took \cup {"called"}
    BY DEF Outcomes, Took
  <2>4. BegunCalls' = BegunCalls
    BY <1>1, <1>2, <2>1, <2>2, <2>3, JobChange, ZenonT(30)
  <2>5. RanAccounted'
    BY <1>3, <1>6, <2>2, <2>4 DEF RanAccounted
  <2> QED
    BY <1>4, <1>5, <1>7, <2>1, <2>2, <2>3, <2>5 DEF LoopInv
<1>10. CASE Call(k)
  <2>1. /\ jobs' = [jobs EXCEPT ![k] = "called"] /\ ran' = ran \cup {Calls[k]}
        /\ EvaluateToolPolicy(rules, Calls[k].tool, User, User) # "deny"
    BY <1>10 DEF Call
  <2>2. BegunCalls' = BegunCalls \cup {Calls[k]}
    BY <1>1, <1>2, <2>1, JobChange
  <2>3. RanAccounted'
    BY <1>3, <1>6, <2>1, <2>2 DEF RanAccounted
  <2>4. Calls[k] \in CallRecords /\ Calls[k].tool \in route.allowed
    <3>1. msgs \in Seq(Messages) /\ msgs # <<>> /\ k \in DOMAIN Calls
      BY <1>1, <1>2 DEF LoopTypes, ResultsFollow
    <3>2. Len(msgs) \in DOMAIN msgs /\ msgs[Len(msgs)] \in Messages
      BY <3>1
    <3>3. Calls \in Seq(CallRecords)
      BY <3>2 DEF Calls, Messages
    <3>4. Calls[k] \in CallRecords
      BY <3>1, <3>3
    <3> QED
      BY <1>1, <3>1, <3>2, <3>4 DEF Calls, CallsSound
  <2>5. LoopTypes'
    BY <1>1, <1>2, <2>1, <2>4 DEF LoopTypes
  <2>6. RanPermitted'
    BY <1>1, <1>2, <2>1, <2>4 DEF RanPermitted
  <2> QED
    BY <1>4, <1>5, <2>1, <2>3, <2>5, <2>6 DEF LoopInv
<1> QED
  BY <1>8, <1>9, <1>10

\* A history that grows by a message.
LEMMA Grown ==
    ASSUME msgs \in Seq(Messages), NEW m \in Messages, msgs' = Append(msgs, m), NEW n, n = Len(msgs)
    PROVE  /\ n \in Nat /\ msgs' \in Seq(Messages) /\ Len(msgs') = n + 1 /\ Len(msgs)' = n + 1
           /\ DOMAIN msgs = 1..n /\ DOMAIN msgs' = 1..(n + 1)
           /\ \A i \in 1..n : msgs'[i] = msgs[i]
           /\ msgs'[n + 1] = m
BY AppendProperties

LEMMA HistoryGrows ==
    ASSUME LoopInv, NEW m \in Messages, msgs' = Append(msgs, m),
           UNCHANGED <<provider, rules, route, chain, ran, turns>>, phase' \in Phases,
           \A k \in DOMAIN m.calls : m.calls[k].tool \in route.allowed,
           \A k, l \in DOMAIN m.calls : m.calls[k].id = m.calls[l].id => k = l,
           m.calls = IF provider = "anthropic" \/ m.made = <<>> THEN m.made
                     ELSE <<m.made[Len(m.made)]>>
    PROVE  HistorySound'
<1>1. LoopTypes /\ CallsSound /\ CallsKept /\ RanPermitted
  BY DEF LoopInv
<1>2. PICK n : n = Len(msgs)
  OBVIOUS
<1>3. /\ n \in Nat /\ msgs' \in Seq(Messages)
      /\ DOMAIN msgs = 1..n /\ DOMAIN msgs' = 1..(n + 1)
      /\ \A i \in 1..n : msgs'[i] = msgs[i]
      /\ msgs'[n + 1] = m
  BY <1>1, <1>2, Grown DEF LoopTypes
<1>4. \A i \in 1..(n + 1) : i \in 1..n \/ i = n + 1
  BY <1>3
<1>5. LoopTypes'
  BY <1>1, <1>3 DEF LoopTypes
<1>6. CallsSound'
  <2> SUFFICES ASSUME NEW i \in DOMAIN msgs'
               PROVE  /\ \A k \in DOMAIN msgs'[i].calls : msgs'[i].calls[k].tool \in route'.allowed
                      /\ \A k, l \in DOMAIN msgs'[i].calls :
                            msgs'[i].calls[k].id = msgs'[i].calls[l].id => k = l
    BY DEF CallsSound
  <2>1. CASE i \in 1..n
    BY <1>1, <1>3, <2>1 DEF CallsSound
  <2>2. CASE i = n + 1
    BY <1>3, <2>2
  <2> QED
    BY <1>3, <1>4, <2>1, <2>2
<1>7. CallsKept'
  <2> SUFFICES ASSUME NEW i \in DOMAIN msgs'
               PROVE  msgs'[i].calls = IF provider' = "anthropic" \/ msgs'[i].made = <<>> THEN msgs'[i].made
                                       ELSE <<msgs'[i].made[Len(msgs'[i].made)]>>
    BY DEF CallsKept
  <2>1. CASE i \in 1..n
    BY <1>1, <1>3, <2>1 DEF CallsKept
  <2>2. CASE i = n + 1
    BY <1>3, <2>2
  <2> QED
    BY <1>3, <1>4, <2>1, <2>2
<1>8. RanPermitted'
  BY <1>1 DEF RanPermitted
<1> QED
  BY <1>5, <1>6, <1>7, <1>8 DEF HistorySound

\* The calls that took, once a message follows.
TookAt(i) == {msgs[i].calls[k] : k \in {l \in DOMAIN msgs[i].calls : msgs[i + 1].results[l].outcome \in Took}}
TookBy(m) == {Calls[k] : k \in {l \in DOMAIN Calls : m.results[l].outcome \in Took}}
LEMMA TookGrows ==
    ASSUME msgs \in Seq(Messages), NEW m \in Messages, msgs' = Append(msgs, m), msgs # <<>>
    PROVE  TookCalls' = TookCalls \cup TookBy(m)
<1>1. PICK n : n = Len(msgs)
  OBVIOUS
<1>2. /\ n \in Nat \ {0} /\ Len(msgs)' = n + 1
      /\ DOMAIN msgs = 1..n /\ DOMAIN msgs' = 1..(n + 1)
      /\ \A i \in 1..n : msgs'[i] = msgs[i]
      /\ msgs'[n + 1] = m
  <2>1. n # 0
    BY <1>1
  <2> QED
    BY <1>1, <2>1, Grown
<1>3. ASSUME NEW i \in 1..(n - 1) PROVE TookAt(i)' = TookAt(i)
  <2>1. i \in 1..n /\ i + 1 \in 1..n
    BY <1>2
  <2>2. msgs'[i] = msgs[i] /\ msgs'[i + 1] = msgs[i + 1]
    BY <1>2, <2>1
  <2> QED
    BY <2>2 DEF TookAt
<1>4. TookAt(n)' = TookBy(m)
  BY <1>1, <1>2 DEF TookAt, TookBy, Calls
<1>5. TookCalls = UNION {TookAt(i) : i \in 1..(n - 1)}
  BY <1>1 DEF TookCalls, TookAt
<1>6. TookCalls' = UNION {TookAt(i)' : i \in 1..n}
  <2>1. Len(msgs)' - 1 = n
    BY <1>2
  <2> QED
    BY <2>1 DEF TookCalls, TookAt
<1>7. 1..n = (1..(n - 1)) \cup {n}
  BY <1>2
<1> QED
  BY <1>3, <1>4, <1>5, <1>6, <1>7

LEMMA ToolsDoneInv ==
    ASSUME LoopInv, ToolsDone
    PROVE  LoopInv'
<1>1. /\ LoopTypes /\ CallsSound /\ ResultsFollow /\ CallsKept
      /\ RanAccounted /\ RanPermitted /\ RowWritten
  BY DEF LoopInv
<1>2. /\ phase = "tools" /\ jobs' = <<>> /\ AllSettled
      /\ UNCHANGED <<provider, rules, route, chain, ran, turns>>
  BY DEF ToolsDone, request, fallback
<1>3. BegunCalls' = {}
  BY <1>2 DEF BegunCalls
<1>4. CASE Judge.thrown
  <2>1. Fail("structured") /\ Untouched
    BY <1>2, <1>4 DEF ToolsDone, Untouched, talk
  <2>2. RowWritten' /\ phase' \in {"over", "failed"}
    BY <1>2, <2>1, FailedRow
  <2>3. HistorySound'
    BY <1>1, <1>2, <2>1, <2>2, Keeps DEF LoopTypes, Phases
  <2>4. ResultsFollow'
    BY <1>1, <1>2, <2>1, <2>2 DEF ResultsFollow, Untouched, Live
  <2>5. RanAccounted'
    BY <2>2 DEF RanAccounted, Live
  <2> QED
    BY <2>2, <2>3, <2>4, <2>5 DEF LoopInv, HistorySound
<1>5. CASE ~ Judge.thrown
  <2>1. PICK m : m = [calls |-> <<>>, made |-> <<>>, results |-> Results]
    OBVIOUS
  <2>2. msgs' = Append(msgs, m) /\ phase' = "turn" /\ recorded' = recorded
    BY <1>5, <2>1 DEF ToolsDone
  <2>3. PICK n : n = Len(msgs)
    OBVIOUS
  <2>4. msgs \in Seq(Messages) /\ msgs # <<>> /\ Calls # <<>> /\ n \in Nat \ {0} /\ n \in DOMAIN msgs
    BY <1>1, <1>2, <2>3 DEF LoopTypes, ResultsFollow
  <2>5. Calls \in Seq(CallRecords) /\ Calls = msgs[n].calls
    <3>1. msgs[n] \in Messages
      BY <2>4
    <3> QED
      BY <2>3, <3>1 DEF Calls, Messages
  <2>6. PICK c : c = Len(Calls)
    OBVIOUS
  <2>7. c \in Nat /\ DOMAIN Calls = 1..c /\ DOMAIN jobs = 1..c
    BY <1>1, <1>2, <2>5, <2>6 DEF ResultsFollow
  <2>8. Results = [k \in 1..c |-> [id |-> Calls[k].id, outcome |-> jobs[k]]]
    BY <2>7 DEF Results
  <2>9. ASSUME NEW k \in 1..c PROVE jobs[k] \in Outcomes /\ Calls[k].id \in Nat \X Nat
    <3>1. jobs[k] \in Outcomes \cup {"running", "called"} /\ jobs[k] \notin {"running", "called"}
      BY <1>1, <1>2, <2>7 DEF ResultsFollow, AllSettled, Settled
    <3>2. Calls[k] \in CallRecords
      BY <2>5, <2>7
    <3> QED
      BY <3>1, <3>2 DEF CallRecords
  <2>10. Results \in Seq([id : Nat \X Nat, outcome : Outcomes])
    BY <2>7, <2>8, <2>9
  <2>11. m \in Messages
    <3>1. <<>> \in Seq(CallRecords)
      OBVIOUS
    <3> QED
      BY <2>1, <2>10, <3>1 DEF Messages
  <2>12. HistorySound'
    <3>1. DOMAIN m.calls = {} /\ m.calls = <<>> /\ m.made = <<>>
      BY <2>1
    <3>2. phase' \in Phases
      BY <2>2 DEF Phases, Live
    <3> QED
      BY <1>2, <2>2, <2>11, <3>1, <3>2, HistoryGrows
  <2>13. /\ Len(msgs)' = n + 1 /\ DOMAIN msgs' = 1..(n + 1) /\ DOMAIN msgs = 1..n
         /\ \A i \in 1..n : msgs'[i] = msgs[i]
         /\ msgs'[n + 1] = m
    BY <2>2, <2>3, <2>4, <2>11, Grown
  <2>14. TookBy(m) = BegunCalls
    <3>1. ASSUME NEW k \in 1..c PROVE m.results[k].outcome \in Took <=> jobs[k] \in Took \cup {"called"}
      BY <2>1, <2>8, <2>9 DEF Outcomes
    <3> QED
      BY <2>7, <3>1 DEF TookBy, BegunCalls
  <2>15. RanAccounted'
    <3>1. ran = TookCalls \cup BegunCalls
      BY <1>1, <1>2 DEF RanAccounted, Live
    <3>2. TookCalls' = TookCalls \cup TookBy(m)
      BY <2>2, <2>4, <2>11, TookGrows
    <3> QED
      BY <1>2, <1>3, <2>14, <3>1, <3>2 DEF RanAccounted
  <2>16. RowWritten'
    BY <1>1, <1>2, <2>2 DEF RowWritten, EffectsRecorded, NoRow
  <2>17. ResultsFollow'
    <3>1. \A i \in 1..(n + 1) : i \in 1..(n - 1) \/ i = n \/ i = n + 1
      BY <2>4
    <3>2. ASSUME NEW i \in 1..(n - 1)
          PROVE  /\ msgs'[i].calls # <<>> =>
                      /\ DOMAIN msgs'[i + 1].results = DOMAIN msgs'[i].calls
                      /\ \A k \in DOMAIN msgs'[i].calls : msgs'[i + 1].results[k].id = msgs'[i].calls[k].id
                 /\ msgs'[i].results # <<>> => i > 1 /\ msgs'[i - 1].calls # <<>>
      <4>1. i \in 1..n /\ i + 1 \in 1..n /\ i < n /\ (i > 1 => i - 1 \in 1..n)
        BY <2>4
      <4>2. msgs'[i] = msgs[i] /\ msgs'[i + 1] = msgs[i + 1] /\ (i > 1 => msgs'[i - 1] = msgs[i - 1])
        BY <2>13, <4>1
      <4> QED
        BY <1>1, <2>3, <2>13, <4>1, <4>2, ZenonT(30) DEF ResultsFollow
    <3>3. /\ DOMAIN msgs'[n + 1].results = DOMAIN msgs'[n].calls
          /\ \A k \in DOMAIN msgs'[n].calls : msgs'[n + 1].results[k].id = msgs'[n].calls[k].id
          /\ msgs'[n].calls # <<>>
      <4>1. msgs'[n].calls = Calls /\ msgs'[n + 1].results = Results
        BY <2>1, <2>4, <2>5, <2>13
      <4> QED
        BY <2>4, <2>7, <2>8, <4>1
    <3>4. msgs'[n].results # <<>> => n > 1 /\ msgs'[n - 1].calls # <<>>
      <4>1. n > 1 => n - 1 \in 1..n
        BY <2>4
      <4>2. msgs'[n] = msgs[n] /\ (n > 1 => msgs'[n - 1] = msgs[n - 1])
        BY <2>4, <2>13, <4>1
      <4> QED
        BY <1>1, <2>4, <4>2 DEF ResultsFollow
    <3>5. msgs'[n + 1].calls = <<>>
      BY <2>1, <2>13
    <3>6. n + 1 > 1 /\ (n + 1) - 1 = n
      BY <2>4
    <3>7. ASSUME NEW i \in DOMAIN msgs'
          PROVE  /\ msgs'[i].calls # <<>> /\ i < Len(msgs)' =>
                      /\ DOMAIN msgs'[i + 1].results = DOMAIN msgs'[i].calls
                      /\ \A k \in DOMAIN msgs'[i].calls : msgs'[i + 1].results[k].id = msgs'[i].calls[k].id
                 /\ msgs'[i].results # <<>> => i > 1 /\ msgs'[i - 1].calls # <<>>
      <4>1. CASE i \in 1..(n - 1)
        BY <3>2, <4>1
      <4>2. CASE i = n
        BY <3>3, <3>4, <4>2
      <4>3. CASE i = n + 1
        BY <3>3, <3>5, <3>6, <4>3
      <4> QED
        BY <2>13, <3>1, <4>1, <4>2, <4>3
    <3> QED
      BY <1>2, <2>2, <2>13, <3>5, <3>7 DEF ResultsFollow
  <2> QED
    BY <2>12, <2>15, <2>16, <2>17 DEF LoopInv, HistorySound
<1> QED
  BY <1>4, <1>5

LEMMA AnsweredInv ==
    ASSUME LoopInv, NEW blocks \in Answers(route.allowed, force), Answered(blocks)
    PROVE  LoopInv'
<1>1. /\ LoopTypes /\ CallsSound /\ ResultsFollow /\ CallsKept
      /\ RanAccounted /\ RanPermitted /\ RowWritten
  BY DEF LoopInv
<1>2. /\ phase = "call" /\ jobs = <<>>
      /\ UNCHANGED <<provider, rules, route, chain, ran, turns>>
  BY <1>1 DEF Answered, request, fallback, ResultsFollow
<1>3. blocks \in Seq(Block) /\ \A i \in DOMAIN blocks : blocks[i].tool \in route.allowed \cup {Text}
  BY DEF Answers
<1>4. CASE Received(blocks).broken
  <2>1. Fail("syntax") /\ Untouched /\ jobs' = jobs
    BY <1>2, <1>4 DEF Answered, Untouched
  <2>2. RowWritten' /\ phase' \in {"over", "failed"}
    BY <1>2, <2>1, FailedRow
  <2> QED
    BY <1>1, <1>2, <2>1, <2>2, Elsewhere DEF LoopTypes, Phases, Live
<1>5. CASE ~ Received(blocks).broken
  <2>1. PICK calls : calls = [k \in DOMAIN Received(blocks).done |-> CallOf(blocks, Received(blocks).done[k])]
    OBVIOUS
  <2>2. PICK made : made = Made(blocks)
    OBVIOUS
  <2>3. PICK m : m = [calls |-> calls, made |-> made, results |-> <<>>]
    OBVIOUS
  <2>4. /\ msgs' = Append(msgs, m) /\ jobs' = [k \in DOMAIN calls |-> "running"]
        /\ phase' = (IF calls = <<>> THEN "answered" ELSE "tools") /\ recorded' = recorded
    BY <1>5, <2>1, <2>2, <2>3 DEF Answered
  <2>5. /\ calls \in Seq(CallRecords) /\ made \in Seq(CallRecords)
        /\ calls = IF provider = "anthropic" \/ made = <<>> THEN made ELSE <<made[Len(made)]>>
        /\ \A k \in DOMAIN calls :
             \E i \in DOMAIN blocks : IsCall(blocks[i]) /\ calls[k] = CallOf(blocks, i)
        /\ \A k, l \in DOMAIN calls : calls[k].id = calls[l].id => k = l
    BY <1>1, <1>3, <2>1, <2>2, ReceivedSound DEF LoopTypes
  <2>6. ASSUME NEW k \in DOMAIN calls PROVE calls[k].tool \in route.allowed
    <3>1. PICK i \in DOMAIN blocks : IsCall(blocks[i]) /\ calls[k] = CallOf(blocks, i)
      BY <2>5
    <3>2. calls[k].tool = blocks[i].tool
      BY <3>1 DEF CallOf
    <3> QED
      BY <1>3, <3>1, <3>2 DEF IsCall
  <2>7. m \in Messages
    <3>1. <<>> \in Seq([id : Nat \X Nat, outcome : Outcomes])
      OBVIOUS
    <3> QED
      BY <2>3, <2>5, <3>1 DEF Messages
  <2>8. PICK n : n = Len(msgs)
    OBVIOUS
  <2>9. /\ n \in Nat /\ Len(msgs)' = n + 1 /\ DOMAIN msgs = 1..n /\ DOMAIN msgs' = 1..(n + 1)
        /\ \A i \in 1..n : msgs'[i] = msgs[i]
        /\ msgs'[n + 1] = m
    BY <1>1, <2>4, <2>7, <2>8, Grown DEF LoopTypes
  <2>10. HistorySound'
    <3>1. m.calls = calls /\ m.made = made
      BY <2>3
    <3>2. phase' \in Phases
      BY <2>4 DEF Phases, Live
    <3> QED
      BY <1>2, <2>4, <2>5, <2>6, <2>7, <3>1, <3>2, HistoryGrows
  <2>11. n > 0 => msgs[n].calls = <<>>
    <3>1. n > 0 => msgs # <<>>
      BY <1>1, <2>8, <2>9 DEF LoopTypes
    <3> QED
      BY <1>1, <1>2, <2>8, <3>1 DEF ResultsFollow, Live
  <2>12. Calls' = calls
    BY <2>3, <2>9 DEF Calls
  <2>13. BegunCalls' = {}
    BY <2>4 DEF BegunCalls, Took
  <2>14. RanAccounted'
    <3>1. ran = TookCalls
      <4>1. BegunCalls = {}
        BY <1>2 DEF BegunCalls
      <4> QED
        BY <1>1, <1>2, <4>1 DEF RanAccounted, Live
    <3>2. TookCalls' = TookCalls
      <4>1. CASE n = 0
        <5>1. TookCalls = {} /\ TookCalls' = {}
          BY <2>8, <2>9, <4>1 DEF TookCalls
        <5> QED
          BY <5>1
      <4>2. CASE n > 0
        <5>1. msgs \in Seq(Messages) /\ msgs # <<>>
          BY <1>1, <2>8, <4>2 DEF LoopTypes
        <5>2. TookCalls' = TookCalls \cup TookBy(m)
          BY <2>4, <2>7, <5>1, TookGrows
        <5>3. TookBy(m) = {}
          BY <2>8, <2>11, <4>2 DEF TookBy, Calls
        <5> QED
          BY <5>2, <5>3
      <4> QED
        BY <2>9, <4>1, <4>2
    <3> QED
      BY <1>2, <2>13, <3>1, <3>2 DEF RanAccounted
  <2>15. RowWritten'
    BY <1>1, <1>2, <2>4 DEF RowWritten, EffectsRecorded, NoRow
  <2>16. ResultsFollow'
    <3>1. ASSUME NEW i \in DOMAIN msgs'
          PROVE  /\ msgs'[i].calls # <<>> /\ i < Len(msgs)' =>
                      /\ DOMAIN msgs'[i + 1].results = DOMAIN msgs'[i].calls
                      /\ \A k \in DOMAIN msgs'[i].calls : msgs'[i + 1].results[k].id = msgs'[i].calls[k].id
                 /\ msgs'[i].results # <<>> => i > 1 /\ msgs'[i - 1].calls # <<>>
      <4>1. CASE i = n + 1
        BY <2>3, <2>9, <4>1
      <4>2. CASE i = n /\ n > 0
        <5>1. msgs'[i] = msgs[i] /\ (i > 1 => msgs'[i - 1] = msgs[i - 1])
          BY <2>9, <4>2
        <5> QED
          BY <1>1, <2>9, <2>11, <4>2, <5>1 DEF ResultsFollow
      <4>3. CASE i \in 1..(n - 1)
        <5>1. i \in 1..n /\ i + 1 \in 1..n /\ i < n /\ (i > 1 => i - 1 \in 1..n)
          BY <2>9, <4>3
        <5>2. msgs'[i] = msgs[i] /\ msgs'[i + 1] = msgs[i + 1] /\ (i > 1 => msgs'[i - 1] = msgs[i - 1])
          BY <2>9, <5>1
        <5> QED
          BY <1>1, <2>8, <2>9, <5>1, <5>2 DEF ResultsFollow
      <4>4. i = n + 1 \/ (i = n /\ n > 0) \/ i \in 1..(n - 1)
        BY <2>9
      <4> QED
        BY <4>1, <4>2, <4>3, <4>4
    <3>2. CASE calls = <<>>
      <4>1. phase' = "answered" /\ jobs' = <<>> /\ msgs'[Len(msgs)'].calls = <<>>
        BY <2>3, <2>4, <2>9, <3>2
      <4> QED
        BY <3>1, <4>1 DEF ResultsFollow
    <3>3. CASE calls # <<>>
      <4>1. phase' = "tools" /\ msgs' # <<>> /\ Calls' # <<>>
        BY <2>4, <2>9, <2>12, <3>3
      <4>2. jobs' \in [DOMAIN Calls' -> Outcomes \cup {"running", "called"}]
        BY <2>4, <2>12
      <4> QED
        BY <3>1, <4>1, <4>2 DEF ResultsFollow
    <3> QED
      BY <3>2, <3>3
  <2> QED
    BY <2>10, <2>14, <2>15, <2>16 DEF LoopInv, HistorySound
<1> QED
  BY <1>4, <1>5

LEMMA StepInv == LoopInv /\ [Next]_vars => LoopInv'
<1> SUFFICES ASSUME LoopInv, [Next]_vars PROVE LoopInv'
  OBVIOUS
<1>1. ASSUME NEW req \in Requests, Run(req) PROVE LoopInv'
  BY <1>1, RunInv
<1>2. CASE Abort
  <2>1. Untouched /\ UNCHANGED <<jobs, turns, phase, recorded>>
    BY <1>2 DEF Abort, Untouched, request, fallback, loop, talk
  <2> QED
    BY <2>1, Stands
<1>3. CASE EndAborted \/ EndMaxTurns \/ EndCompleted
  <2>1. phase \in {"turn", "answered"} /\ Return /\ UNCHANGED <<request, fallback, loop, aborted>>
    BY <1>3 DEF EndAborted, EndMaxTurns, EndCompleted
  <2> QED
    BY <2>1, ReturnInv
<1>4. CASE \/ StartTurn \/ Retry \/ Exhausted
           \/ \E error \in {"transient", "overloaded", "rejected", "abort"} : StreamFails(error)
  BY <1>4, WaitInv
<1>5. ASSUME NEW blocks \in Answers(route.allowed, force), Answered(blocks) PROVE LoopInv'
  BY <1>5, AnsweredInv
<1>6. ASSUME NEW k \in DOMAIN jobs,
             Refuse(k) \/ Call(k) \/ \E outcome \in {"ok", "failed"} : Settle(k, outcome)
      PROVE  LoopInv'
  BY <1>6, JobInv
<1>7. CASE ToolsDone
  BY <1>7, ToolsDoneInv
<1>8. CASE SameModel \/ NextModel
  BY <1>8, AgainInv
<1>9. CASE UNCHANGED vars
  <2>1. Untouched /\ UNCHANGED <<jobs, turns, phase, recorded>>
    BY <1>9 DEF vars, Untouched, request, fallback, loop, talk
  <2> QED
    BY <2>1, Stands
<1> QED
  BY <1>1, <1>2, <1>3, <1>4, <1>5, <1>6, <1>7, <1>8, <1>9 DEF Next, Progress

-----------------------------------------------------------------------------
\* The inductive invariant: what the history, the jobs and the row say of each
\* other holds at every step of a run, whatever the tools, rules and models.
THEOREM LoopInvHolds == Spec => []LoopInv
<1>1. Init => LoopInv
  BY InitInv
<1>2. LoopInv /\ [Next]_vars => LoopInv'
  BY StepInv
<1> QED
  BY <1>1, <1>2, PTL DEF Spec

\* The history sent to the model answers every call of an answer at once and in
\* order, and holds the calls that the adapter's buffer keeps (Runner.execute()).
THEOREM HistoryHolds == Spec => []HistoryAccepted
<1>1. LoopInv => HistoryAccepted
  BY InvHistory
<1> QED
  BY <1>1, LoopInvHolds, PTL

\* No executor is called for a tool that a deny rule for the caller matches, nor for
\* one whose minModel is above the model that runs, fallbacks included.
THEOREM PermittedHolds == Spec => []OnlyPermitted
<1>1. LoopInv => OnlyPermitted
  BY InvPermitted
<1> QED
  BY <1>1, LoopInvHolds, PTL

\* The row of a run that returned names exactly the calls whose executors its last
\* execute() called, and has a result for every other call.
THEOREM EffectsHold == Spec => []EffectsRecorded
<1>1. LoopInv => EffectsRecorded
  BY DEF LoopInv, RowWritten
<1> QED
  BY <1>1, LoopInvHolds, PTL
=============================================================================
