------------------------- MODULE ConversationProofs -------------------------
(***************************************************************************)
(* Safety of Conversation for any window, any number of model calls,       *)
(* attempts and messages: what is stored and sent to the model is a        *)
(* conversation the provider accepts, an answer is for its own message,    *)
(* and nothing recent is forgotten.                                        *)
(***************************************************************************)
EXTENDS Conversation, SequenceTheorems, TLAPS

Coherent(h) == PairedUp(h) /\ Sorted(h)

\* All messages of h come before the model call s of turn n.
Below(h, n, s) ==
    \A i \in 1..Len(h) : h[i].turn < n \/ (h[i].turn = n /\ h[i].step < s)

\* h has all that RecentRemembered asks for.
Remembers(h) ==
    \A i \in 1..Len(history) :
        \/ i <= Len(history) - Limit
        \/ \E j \in 1..Len(h) : h[j] = history[i]
        \/ history[i].role = "result" /\ i = Len(history) - Limit + 1

\* A turn that has begun is of a message received, and its messages are not
\* stored before its run is over.
HistoryInv ==
    /\ Coherent(history)
    /\ Below(history, received + 1, 0)
    /\ turn.at # "idle" => received >= 1
    /\ turn.at \notin {"idle", "sending"} => Below(history, received, 0)

\* A run starts from the window and the user's message; what it has added lies
\* behind, and only while tools are executed it ends with a call without result.
RunInv ==
    turn.at \in RunStages =>
        /\ Coherent(turn.base) /\ Below(turn.base, received, 1)
        /\ turn.at \in {"calling", "backoff"} =>
             Coherent(turn.msgs) /\ Below(turn.msgs, received, turn.step)
        /\ turn.at = "backoff" => turn.attempt < MaxAttempts
        /\ turn.at = "tools" =>
             \E h \in Seq(Messages) :
                 /\ Coherent(h) /\ Below(h, received, turn.step)
                 /\ turn.msgs = Append(h, Msg(turn.step, "call"))
        /\ turn.loaded => Remembers(turn.base) /\ Remembers(turn.msgs)

AnswersInv == AnswerIsOwn /\ (turn.at = "sending" => turn.text = received)

ConversationInv == ConversationTypeOK /\ HistoryInv /\ RunInv /\ AnswersInv

-----------------------------------------------------------------------------
(* What messages put behind a coherent history make of it.                 *)

LEMMA MessageType ==
    ASSUME NEW m \in Messages
    PROVE  m.turn \in Nat \ {0} /\ m.step \in Nat
  BY ConversationAssumption DEF Messages

LEMMA Members ==
    ASSUME NEW h \in Seq(Messages), NEW i \in 1..Len(h)
    PROVE  /\ h[i] \in Messages /\ h[i].turn \in Nat \ {0} /\ h[i].step \in Nat
           /\ i \in Nat /\ Len(h) \in Nat
<1>1. h[i] \in Messages /\ i \in Nat /\ Len(h) \in Nat
  OBVIOUS
<1> QED
  BY <1>1, MessageType

LEMMA Pairs ==
    ASSUME NEW h \in Seq(Messages), PairedUp(h), NEW i \in 1..Len(h)
    PROVE  /\ h[i].role = "call" =>
                i + 1 \in 1..Len(h) /\ h[i + 1] = [h[i] EXCEPT !.role = "result"]
           /\ h[i].role = "result" =>
                i - 1 \in 1..Len(h) /\ i > 1 /\ h[i - 1] = [h[i] EXCEPT !.role = "call"]
<1>1. /\ h[i].role = "call" => i < Len(h) /\ h[i + 1] = [h[i] EXCEPT !.role = "result"]
      /\ h[i].role = "result" => i > 1 /\ h[i - 1] = [h[i] EXCEPT !.role = "call"]
  BY Zenon DEF PairedUp
<1>2. i \in Nat /\ Len(h) \in Nat /\ 1 <= i /\ i <= Len(h)
  OBVIOUS
<1> QED
  BY <1>1, <1>2

LEMMA AppendIs ==
    ASSUME NEW h \in Seq(Messages), NEW m \in Messages
    PROVE  /\ Append(h, m) \in Seq(Messages)
           /\ Len(Append(h, m)) = Len(h) + 1
           /\ \A i \in 1..Len(h) : Append(h, m)[i] = h[i]
           /\ Append(h, m)[Len(h) + 1] = m
  OBVIOUS

\* The user's text, or the answer, behind all messages before it.
LEMMA AppendText ==
    ASSUME NEW h \in Seq(Messages), NEW m \in Messages, Coherent(h),
           Below(h, m.turn, m.step), m.role \in {"user", "answer"}
    PROVE  Coherent(Append(h, m)) /\ Below(Append(h, m), m.turn, m.step + 1)
<1> DEFINE g == Append(h, m)
<1>1. /\ g \in Seq(Messages) /\ Len(g) = Len(h) + 1
      /\ \A i \in 1..Len(h) : g[i] = h[i]
      /\ g[Len(h) + 1] = m
  BY AppendIs
<1>2. Len(h) \in Nat /\ m.turn \in Nat /\ m.step \in Nat
  BY MessageType
<1>3. \A i \in 1..Len(h) : h[i].turn \in Nat /\ h[i].step \in Nat
  BY Members
<1>4. \A i \in 1..Len(g) : i \in 1..Len(h) \/ i = Len(h) + 1
  BY <1>1, <1>2
<1> HIDE DEF g
<1>5. PairedUp(g)
  <2> SUFFICES ASSUME NEW i \in 1..Len(g)
               PROVE  /\ g[i].role = "call" =>
                           i < Len(g) /\ g[i + 1] = [g[i] EXCEPT !.role = "result"]
                      /\ g[i].role = "result" =>
                           i > 1 /\ g[i - 1] = [g[i] EXCEPT !.role = "call"]
    BY DEF PairedUp
  <2>1. CASE i = Len(h) + 1
    BY <1>1, <2>1
  <2>2. CASE i \in 1..Len(h)
    <3>1. h[i].role = "call" => i + 1 \in 1..Len(h) /\ h[i + 1] = [h[i] EXCEPT !.role = "result"]
      BY <2>2, Pairs DEF Coherent
    <3>2. h[i].role = "result" => i - 1 \in 1..Len(h) /\ i > 1 /\ h[i - 1] = [h[i] EXCEPT !.role = "call"]
      BY <2>2, Pairs DEF Coherent
    <3>3. g[i] = h[i] /\ i < Len(g)
      BY <1>1, <1>2, <2>2
    <3>4. h[i].role = "call" => g[i + 1] = h[i + 1]
      BY <1>1, <3>1
    <3>5. h[i].role = "result" => g[i - 1] = h[i - 1]
      BY <1>1, <3>2
    <3> QED
      BY <3>1, <3>2, <3>3, <3>4, <3>5
  <2> QED
    BY <1>4, <2>1, <2>2
<1>6. Sorted(g)
  <2> SUFFICES ASSUME NEW i \in 1..Len(g), NEW j \in 1..Len(g), i < j
               PROVE  \/ g[i].turn < g[j].turn
                      \/ g[i].turn = g[j].turn /\ g[i].step < g[j].step
                      \/ g[i].turn = g[j].turn /\ g[i].step = g[j].step
                           /\ g[i].role = "call" /\ g[j].role = "result"
    BY DEF Sorted
  <2>1. i \in 1..Len(h) /\ g[i] = h[i]
    BY <1>1, <1>2, <1>4
  <2>2. CASE j = Len(h) + 1
    BY <1>1, <2>1, <2>2 DEF Below
  <2>3. CASE j \in 1..Len(h)
    <3>1. g[j] = h[j]
      BY <1>1, <2>3
    <3> QED
      BY <2>1, <2>3, <3>1 DEF Coherent, Sorted
  <2> QED
    BY <1>4, <2>2, <2>3
<1>7. Below(g, m.turn, m.step + 1)
  BY <1>1, <1>2, <1>3, <1>4 DEF Below
<1> QED
  BY <1>5, <1>6, <1>7 DEF Coherent, g

\* A call with its result.
LEMMA AppendPair ==
    ASSUME NEW h \in Seq(Messages), NEW m \in Messages, Coherent(h),
           Below(h, m.turn, m.step), m.role = "call"
    PROVE  LET g == Append(Append(h, m), [m EXCEPT !.role = "result"])
           IN  Coherent(g) /\ Below(g, m.turn, m.step + 1)
<1> DEFINE r == [m EXCEPT !.role = "result"]
           f == Append(h, m)
           g == Append(f, r)
<1>0. r \in Messages /\ r.turn = m.turn /\ r.step = m.step /\ r.role = "result"
      /\ m = [r EXCEPT !.role = "call"]
  BY DEF Messages
<1> HIDE DEF r
<1>1. /\ f \in Seq(Messages) /\ Len(f) = Len(h) + 1
      /\ \A i \in 1..Len(h) : f[i] = h[i]
      /\ f[Len(h) + 1] = m
  BY AppendIs
<1> HIDE DEF f
<1>2. /\ g \in Seq(Messages) /\ Len(g) = Len(f) + 1
      /\ \A i \in 1..Len(f) : g[i] = f[i]
      /\ g[Len(f) + 1] = r
  BY <1>0, <1>1, AppendIs
<1> HIDE DEF g
<1>3. Len(h) \in Nat /\ m.turn \in Nat /\ m.step \in Nat
  BY MessageType
<1>4. /\ Len(g) = Len(h) + 2 /\ g[Len(h) + 1] = m /\ g[Len(h) + 2] = r
      /\ \A i \in 1..Len(h) : g[i] = h[i]
  <2>1. Len(h) + 1 \in 1..Len(f) /\ Len(f) + 1 = Len(h) + 2
    BY <1>1, <1>3
  <2>2. \A i \in 1..Len(h) : i \in 1..Len(f)
    BY <1>1, <1>3
  <2> QED
    BY <1>1, <1>2, <2>1, <2>2
<1>5. \A i \in 1..Len(h) : h[i].turn \in Nat /\ h[i].step \in Nat
  BY Members
<1>6. \A i \in 1..Len(g) : i \in 1..Len(h) \/ i = Len(h) + 1 \/ i = Len(h) + 2
  BY <1>4, <1>3
<1>7. PairedUp(g)
  <2> SUFFICES ASSUME NEW i \in 1..Len(g)
               PROVE  /\ g[i].role = "call" =>
                           i < Len(g) /\ g[i + 1] = [g[i] EXCEPT !.role = "result"]
                      /\ g[i].role = "result" =>
                           i > 1 /\ g[i - 1] = [g[i] EXCEPT !.role = "call"]
    BY DEF PairedUp
  <2>1. CASE i = Len(h) + 1
    <3>1. i + 1 = Len(h) + 2
      BY <1>3, <2>1
    <3> QED
      BY <1>3, <1>4, <2>1, <3>1 DEF r
  <2>2. CASE i = Len(h) + 2
    <3>1. i - 1 = Len(h) + 1 /\ i > 1
      BY <1>3, <2>2
    <3> QED
      BY <1>0, <1>4, <2>2, <3>1
  <2>3. CASE i \in 1..Len(h)
    <3>1. h[i].role = "call" => i + 1 \in 1..Len(h) /\ h[i + 1] = [h[i] EXCEPT !.role = "result"]
      BY <2>3, Pairs DEF Coherent
    <3>2. h[i].role = "result" => i - 1 \in 1..Len(h) /\ i > 1 /\ h[i - 1] = [h[i] EXCEPT !.role = "call"]
      BY <2>3, Pairs DEF Coherent
    <3> QED
      BY <1>3, <1>4, <2>3, <3>1, <3>2
  <2> QED
    BY <1>6, <2>1, <2>2, <2>3
<1>8. Sorted(g)
  <2> SUFFICES ASSUME NEW i \in 1..Len(g), NEW j \in 1..Len(g), i < j
               PROVE  \/ g[i].turn < g[j].turn
                      \/ g[i].turn = g[j].turn /\ g[i].step < g[j].step
                      \/ g[i].turn = g[j].turn /\ g[i].step = g[j].step
                           /\ g[i].role = "call" /\ g[j].role = "result"
    BY DEF Sorted
  <2>1. CASE i = Len(h) + 1
    <3>1. j = Len(h) + 2
      BY <1>3, <1>6, <2>1
    <3> QED
      BY <1>0, <1>4, <2>1, <3>1
  <2>2. CASE i \in 1..Len(h)
    <3>1. CASE j \in 1..Len(h)
      <4>1. g[j] = h[j] /\ g[i] = h[i]
        BY <1>4, <2>2, <3>1
      <4> QED
        BY <2>2, <3>1, <4>1 DEF Coherent, Sorted
    <3>2. CASE j \notin 1..Len(h)
      <4>1. g[j].turn = m.turn /\ g[j].step = m.step /\ g[i] = h[i]
        BY <1>0, <1>4, <1>6, <2>2, <3>2
      <4> QED
        BY <2>2, <4>1 DEF Below
    <3> QED
      BY <3>1, <3>2
  <2>3. i # Len(h) + 2
    BY <1>3, <1>6
  <2> QED
    BY <1>6, <2>1, <2>2, <2>3
<1>9. Below(g, m.turn, m.step + 1)
  <2> SUFFICES ASSUME NEW i \in 1..Len(g)
               PROVE  g[i].turn < m.turn \/ (g[i].turn = m.turn /\ g[i].step < m.step + 1)
    BY DEF Below
  <2>1. CASE i \in 1..Len(h)
    BY <1>3, <1>4, <1>5, <2>1 DEF Below
  <2>2. CASE i \notin 1..Len(h)
    <3>1. g[i] = m \/ g[i] = r
      BY <1>4, <1>6, <2>2
    <3>2. g[i].turn = m.turn /\ g[i].step = m.step
      BY <1>0, <3>1, Zenon
    <3> QED
      BY <1>3, <3>2
  <2> QED
    BY <2>1, <2>2
<1> QED
  BY <1>7, <1>8, <1>9 DEF Coherent, g, f, r

-----------------------------------------------------------------------------
(* The window on the history.                                              *)

\* A coherent history without its first messages, if what is left does not
\* begin with a result.
LEMMA SuffixCoherent ==
    ASSUME NEW h \in Seq(Messages), NEW f \in 1..(Len(h) + 1), Coherent(h),
           f = Len(h) + 1 \/ h[f].role # "result"
    PROVE  LET g == SubSeq(h, f, Len(h))
           IN  /\ g \in Seq(Messages) /\ Coherent(g)
               /\ \A n \in Nat : Below(h, n, 0) => Below(g, n, 0)
               /\ \A i \in f..Len(h) : \E j \in 1..Len(g) : g[j] = h[i]
<1> DEFINE g == SubSeq(h, f, Len(h))
<1>1. Len(h) \in Nat /\ f \in Nat /\ 1 <= f /\ f <= Len(h) + 1
  OBVIOUS
<1>2. /\ g \in Seq(Messages) /\ Len(g) = Len(h) - f + 1
      /\ \A i \in 1..(Len(h) - f + 1) : g[i] = h[f + i - 1]
  <2>1. \A i \in f..Len(h) : h[i] \in Messages
    BY <1>1
  <2>2. /\ g = [i \in 1..(Len(h) - f + 1) |-> h[i + f - 1]]
        /\ Len(h) - f + 1 \in Nat
    BY <1>1
  <2>3. \A i \in 1..(Len(h) - f + 1) : i + f - 1 \in f..Len(h) /\ f + i - 1 = i + f - 1
    BY <1>1
  <2>4. g \in [1..(Len(h) - f + 1) -> Messages]
    BY <2>1, <2>2, <2>3
  <2>5. g \in Seq(Messages)
    BY <2>2, <2>4
  <2>6. Len(g) = Len(h) - f + 1
    BY <2>2
  <2>7. \A i \in 1..(Len(h) - f + 1) : g[i] = h[f + i - 1]
    BY <2>2, <2>3
  <2> QED
    BY <2>5, <2>6, <2>7
<1> HIDE DEF g
<1>3. \A i \in 1..Len(g) : /\ f + i - 1 \in 1..Len(h) /\ g[i] = h[f + i - 1]
                           /\ i \in Nat
  BY <1>1, <1>2
<1>4. PairedUp(g)
  <2> SUFFICES ASSUME NEW i \in 1..Len(g)
               PROVE  /\ g[i].role = "call" =>
                           i < Len(g) /\ g[i + 1] = [g[i] EXCEPT !.role = "result"]
                      /\ g[i].role = "result" =>
                           i > 1 /\ g[i - 1] = [g[i] EXCEPT !.role = "call"]
    BY DEF PairedUp
  <2> DEFINE k == f + i - 1
  <2>1. k \in 1..Len(h) /\ g[i] = h[k] /\ i \in Nat /\ k \in Nat
    BY <1>1, <1>3
  <2>2. /\ h[k].role = "call" =>
             k + 1 \in 1..Len(h) /\ h[k + 1] = [h[k] EXCEPT !.role = "result"]
        /\ h[k].role = "result" =>
             k - 1 \in 1..Len(h) /\ k > 1 /\ h[k - 1] = [h[k] EXCEPT !.role = "call"]
    BY <2>1, Pairs DEF Coherent
  <2>3. ASSUME k + 1 \in 1..Len(h)
        PROVE  i < Len(g) /\ g[i + 1] = h[k + 1]
    <3>1. i + 1 \in 1..Len(g) /\ f + (i + 1) - 1 = k + 1
      BY <1>1, <1>2, <2>1, <2>3
    <3>2. g[i + 1] = h[f + (i + 1) - 1]
      BY <1>3, <3>1
    <3> QED
      BY <1>1, <1>2, <2>1, <3>1, <3>2
  <2>4. ASSUME i # 1
        PROVE  i > 1 /\ g[i - 1] = h[k - 1]
    <3>1. i - 1 \in 1..Len(g) /\ f + (i - 1) - 1 = k - 1
      BY <1>1, <1>2, <2>1, <2>4
    <3>2. g[i - 1] = h[f + (i - 1) - 1]
      BY <1>3, <3>1
    <3> QED
      BY <2>1, <2>4, <3>1, <3>2
  <2>5. g[i].role = "result" => i # 1
    <3>1. i = 1 => k = f /\ f # Len(h) + 1
      BY <1>1, <2>1
    <3> QED
      BY <2>1, <3>1
  <2> HIDE DEF k
  <2> QED
    BY <2>1, <2>2, <2>3, <2>4, <2>5
<1>5. Sorted(g)
  <2> SUFFICES ASSUME NEW i \in 1..Len(g), NEW j \in 1..Len(g), i < j
               PROVE  \/ g[i].turn < g[j].turn
                      \/ g[i].turn = g[j].turn /\ g[i].step < g[j].step
                      \/ g[i].turn = g[j].turn /\ g[i].step = g[j].step
                           /\ g[i].role = "call" /\ g[j].role = "result"
    BY DEF Sorted
  <2>1. f + i - 1 \in 1..Len(h) /\ f + j - 1 \in 1..Len(h) /\ f + i - 1 < f + j - 1
    BY <1>1, <1>3
  <2>2. g[i] = h[f + i - 1] /\ g[j] = h[f + j - 1]
    BY <1>3
  <2> QED
    BY <2>1, <2>2 DEF Coherent, Sorted
<1>6. \A n \in Nat : Below(h, n, 0) => Below(g, n, 0)
  BY <1>3 DEF Below
<1>7. \A i \in f..Len(h) : \E j \in 1..Len(g) : g[j] = h[i]
  <2> SUFFICES ASSUME NEW i \in f..Len(h) PROVE \E j \in 1..Len(g) : g[j] = h[i]
    OBVIOUS
  <2>1. i - f + 1 \in 1..Len(g) /\ f + (i - f + 1) - 1 = i
    BY <1>1, <1>2
  <2>2. g[i - f + 1] = h[f + (i - f + 1) - 1]
    BY <1>3, <2>1
  <2> QED
    BY <2>1, <2>2
<1> QED
  BY <1>2, <1>4, <1>5, <1>6, <1>7 DEF Coherent, g

\* The window begins at f: nothing recent is before it but a lone result.
WindowFrom(h, f) ==
    /\ Window(h) = SubSeq(h, f, Len(h))
    /\ f = Len(h) + 1 \/ h[f].role # "result"
    /\ \A i \in 1..Len(h) :
         \/ f <= i
         \/ i <= Len(h) - Limit
         \/ h[i].role = "result" /\ i = Len(h) - Limit + 1

\* Where the window begins: at most one message after the last Limit ones, past
\* a result whose call is cut off.
LEMMA WindowBegins ==
    ASSUME NEW h \in Seq(Messages), Coherent(h)
    PROVE  \E f \in 1..(Len(h) + 1) : WindowFrom(h, f)
<1> DEFINE cut == IF Len(h) > Limit THEN Len(h) - Limit ELSE 0
           Begins(i) == /\ i = Len(h) + 1 \/ h[i].role # "result"
                        /\ \A j \in (cut + 1)..(i - 1) : h[j].role = "result"
           first == CHOOSE i \in (cut + 1)..(Len(h) + 1) : Begins(i)
<1>1. Len(h) \in Nat /\ Limit \in Nat /\ Limit > 0
  BY ConversationAssumption
<1>2. cut \in Nat /\ (cut < Len(h) \/ cut = 0) /\ cut <= Len(h)
      /\ (cut = 0 \/ cut = Len(h) - Limit)
  BY <1>1
<1>3. Window(h) = SubSeq(h, first, Len(h))
  BY Zenon DEF Window
<1> HIDE DEF cut
<1>4. \E i \in (cut + 1)..(Len(h) + 1) : Begins(i)
  <2>1. CASE Begins(cut + 1)
    BY <1>1, <1>2, <2>1
  <2>2. CASE ~Begins(cut + 1)
    <3>1. cut + 1 \in 1..Len(h) /\ h[cut + 1].role = "result"
      BY <1>1, <1>2, <2>2
    <3>2. cut + 2 \in (cut + 1)..(Len(h) + 1)
      BY <1>1, <1>2, <3>1
    <3>3. \A j \in (cut + 1)..((cut + 2) - 1) : h[j].role = "result"
      BY <1>2, <3>1
    <3>4. cut + 2 = Len(h) + 1 \/ h[cut + 2].role # "result"
      <4> SUFFICES ASSUME cut + 2 # Len(h) + 1, h[cut + 2].role = "result" PROVE FALSE
        OBVIOUS
      <4>1. cut + 2 \in 1..Len(h) /\ (cut + 2) - 1 = cut + 1
        BY <1>1, <1>2, <3>2
      <4>2. h[(cut + 2) - 1] = [h[cut + 2] EXCEPT !.role = "call"]
        BY <4>1, Pairs DEF Coherent
      <4>3. h[cut + 2] \in Messages
        BY <4>1
      <4>4. h[cut + 1].role = "call"
        BY <4>1, <4>2, <4>3 DEF Messages
      <4> QED
        BY <3>1, <4>4
    <3> QED
      BY <3>2, <3>3, <3>4
  <2> QED
    BY <2>1, <2>2
<1> HIDE DEF Begins
<1>5. first \in (cut + 1)..(Len(h) + 1) /\ Begins(first)
  BY <1>4, Zenon
<1> HIDE DEF first
<1>6. first \in 1..(Len(h) + 1)
  BY <1>1, <1>2, <1>5
<1>7. ASSUME NEW i \in 1..Len(h), ~ (first <= i)
      PROVE  i <= Len(h) - Limit \/ (h[i].role = "result" /\ i = Len(h) - Limit + 1)
  <2>1. i \in Nat /\ first \in Nat /\ i < first
    BY <1>1, <1>6, <1>7
  <2>2. CASE i <= cut
    BY <1>1, <1>2, <2>1, <2>2
  <2>3. CASE ~ (i <= cut)
    <3>1. i \in (cut + 1)..(first - 1)
      BY <1>2, <2>1, <2>3
    <3>2. h[i].role = "result"
      BY <1>5, <3>1 DEF Begins
    <3>3. /\ i - 1 \in 1..Len(h) /\ i > 1 /\ h[i - 1] = [h[i] EXCEPT !.role = "call"]
          /\ h[i] \in Messages
      <4>1. PairedUp(h) /\ h[i] \in Messages
        BY DEF Coherent
      <4> QED
        BY <3>2, <4>1, Pairs
    <3>4. h[i - 1].role = "call"
      BY <3>3 DEF Messages
    <3>5. ~ (i - 1 \in (cut + 1)..(first - 1))
      BY <1>5, <3>4 DEF Begins
    <3>6. i = cut + 1
      BY <1>2, <2>1, <3>1, <3>5
    <3> QED
      BY <1>1, <1>2, <3>2, <3>3, <3>6
  <2> QED
    BY <2>2, <2>3
<1> QED
  BY <1>3, <1>5, <1>6, <1>7 DEF Begins, WindowFrom

\* The window: coherent, and all that may not be forgotten.
LEMMA WindowKeeps ==
    ASSUME history \in Seq(Messages), Coherent(history)
    PROVE  /\ Window(history) \in Seq(Messages) /\ Coherent(Window(history))
           /\ \A n \in Nat : Below(history, n, 0) => Below(Window(history), n, 0)
           /\ Remembers(Window(history))
<1>1. PICK f \in 1..(Len(history) + 1) : WindowFrom(history, f)
  BY WindowBegins
<1> DEFINE g == SubSeq(history, f, Len(history))
<1>2. /\ g \in Seq(Messages) /\ Coherent(g)
      /\ \A n \in Nat : Below(history, n, 0) => Below(g, n, 0)
      /\ \A i \in f..Len(history) : \E j \in 1..Len(g) : g[j] = history[i]
  BY <1>1, SuffixCoherent DEF WindowFrom
<1> HIDE DEF g
<1>3. Remembers(g)
  <2>1. \A i \in 1..Len(history) : f <= i => i \in f..Len(history)
    OBVIOUS
  <2> QED
    BY <1>1, <1>2, <2>1 DEF Remembers, WindowFrom
<1> QED
  BY <1>1, <1>2, <1>3 DEF g, WindowFrom

-----------------------------------------------------------------------------
(* What is said, and what is remembered, when messages are added.          *)

\* The text comes from the last message of the assistant.
LEMMA TextOfLast ==
    ASSUME NEW h \in Seq(Messages), NEW k \in 1..Len(h),
           h[k].role \in {"call", "answer"},
           \A i \in 1..Len(h) : k < i => h[i].role \notin {"call", "answer"}
    PROVE  TextOf(h) = h[k].turn
<1> DEFINE said == {i \in 1..Len(h) : h[i].role \in {"call", "answer"}}
           last == CHOOSE i \in said : \A j \in said : j <= i
<1>1. k \in said /\ \A j \in said : j <= k
  <2>1. \A j \in said : j \in 1..Len(h) /\ ~ (k < j)
    OBVIOUS
  <2>2. k \in Nat /\ Len(h) \in Nat
    OBVIOUS
  <2> QED
    BY <2>1, <2>2
<1>2. last \in said /\ \A j \in said : j <= last
  BY <1>1, Zenon
<1>3. TextOf(h) = h[last].turn
  BY <1>1, Zenon DEF TextOf
<1>4. last = k
  <2>1. k <= last /\ last <= k
    BY <1>1, <1>2
  <2>2. k \in Nat /\ last \in Nat
    BY <1>2
  <2> QED
    BY <2>1, <2>2
<1> QED
  BY <1>3, <1>4

LEMMA RemembersMore ==
    ASSUME NEW h \in Seq(Messages), NEW m \in Messages, Remembers(h)
    PROVE  Remembers(Append(h, m))
<1>1. \A j \in 1..Len(h) : j \in 1..Len(Append(h, m)) /\ Append(h, m)[j] = h[j]
  OBVIOUS
<1> QED
  BY <1>1 DEF Remembers

LEMMA MsgType ==
    ASSUME NEW s \in 0..MaxSteps, NEW r \in {"user", "call", "result", "answer"},
           received \in 1..MaxReceived
    PROVE  /\ Msg(s, r) \in Messages
           /\ Msg(s, r).turn = received /\ Msg(s, r).step = s /\ Msg(s, r).role = r
  BY DEF Msg, Messages

\* Messages that a run may have made before its model call s.
Ready(h, s) == h \in Seq(Messages) /\ Coherent(h) /\ Below(h, received, s)

\* What the type says of a turn in a run.
LEMMA RunTypes ==
    ASSUME ConversationTypeOK, HistoryInv, turn.at \in RunStages
    PROVE  /\ turn \in [at : RunStages, msgs : Seq(Messages), base : Seq(Messages),
                        step : 1..MaxSteps, attempt : 1..MaxAttempts, loaded : BOOLEAN]
           /\ received \in 1..MaxReceived
<1>1. turn.at \notin {"idle", "capturing", "acking", "context", "retrieving", "sending"}
  BY DEF RunStages
<1>2. turn \in [at : RunStages, msgs : Seq(Messages), base : Seq(Messages),
                step : 1..MaxSteps, attempt : 1..MaxAttempts, loaded : BOOLEAN]
  <2>1. ~ (turn \in [at : {"idle", "capturing", "acking", "context", "retrieving"}])
    BY <1>1
  <2>2. ~ (turn \in [at : {"sending"}, text : 0..MaxReceived])
    BY <1>1
  <2> QED
    BY <2>1, <2>2 DEF ConversationTypeOK
<1>3. received \in 0..MaxReceived /\ received >= 1
  BY <1>1 DEF ConversationTypeOK, HistoryInv
<1>4. received \in 1..MaxReceived
  BY <1>3, ConversationAssumption
<1> QED
  BY <1>2, <1>4

-----------------------------------------------------------------------------
(* The invariant.                                                          *)

\* A step that neither runs the model nor stores anything.
LEMMA QuietStep ==
    ASSUME ConversationInv, UNCHANGED <<history, received>>,
           aborted' \in BOOLEAN, typing' \in BOOLEAN, AnswerIsOwn',
           sent' \in Seq([for : 1..MaxReceived, text : 0..MaxReceived]),
           turn' \in [at : {"idle", "capturing", "acking", "context", "retrieving"}],
           turn'.at = "idle" \/ turn.at \notin {"idle", "sending"}
    PROVE  ConversationInv'
<1>1. ConversationTypeOK'
  BY DEF ConversationInv, ConversationTypeOK
<1>2. HistoryInv'
  BY DEF ConversationInv, HistoryInv, Below
<1>3. turn'.at \notin RunStages /\ turn'.at # "sending"
  BY DEF RunStages
<1>4. RunInv' /\ AnswersInv'
  BY <1>3 DEF RunInv, AnswersInv
<1> QED
  BY <1>1, <1>2, <1>4 DEF ConversationInv

LEMMA CompleteInv ==
    ASSUME ConversationInv, turn.at \in RunStages \cup {"retrieving"},
           NEW msgs, NEW s \in Nat, Ready(msgs, s),
           aborted \/ TextOf(msgs) = received,
           Complete(msgs), UNCHANGED <<received, aborted, sent>>
    PROVE  ConversationInv'
<1>1. turn.at \notin {"idle", "sending"} /\ received >= 1
  <2>1. turn.at \notin {"idle", "sending"}
    BY DEF RunStages
  <2> QED
    BY <2>1 DEF ConversationInv, HistoryInv
<1>2. received \in Nat /\ received \in 0..MaxReceived
  BY ConversationAssumption DEF ConversationInv, ConversationTypeOK
<1>3. turn' = Idle \/ (turn' = [at |-> "sending", text |-> received])
  BY DEF Complete
<1>4. ConversationTypeOK'
  <2>1. history' \in Seq(Messages)
    BY DEF Complete, Ready, ConversationInv, ConversationTypeOK
  <2>2. \/ turn' \in [at : {"idle", "capturing", "acking", "context", "retrieving"}]
        \/ turn' \in [at : {"sending"}, text : 0..MaxReceived]
    BY <1>2, <1>3 DEF Idle
  <2>3. typing' \in BOOLEAN
    BY DEF Complete
  <2> QED
    BY <2>1, <2>2, <2>3 DEF ConversationInv, ConversationTypeOK
<1>5. HistoryInv'
  <2>1. Below(msgs, received + 1, 0)
    <3> SUFFICES ASSUME NEW i \in 1..Len(msgs) PROVE msgs[i].turn < received + 1
      BY DEF Below
    <3>1. msgs[i].turn \in Nat /\ (msgs[i].turn < received \/ msgs[i].turn = received)
      BY Members DEF Ready, Below
    <3> QED
      BY <1>2, <3>1
  <2>2. Coherent(history') /\ Below(history', received + 1, 0)
    BY <2>1 DEF Complete, Ready, ConversationInv, HistoryInv
  <2>3. turn'.at \in {"idle", "sending"}
    BY <1>3 DEF Idle
  <2> QED
    BY <1>1, <2>2, <2>3 DEF HistoryInv, Coherent, PairedUp, Sorted, Below
<1>6. RunInv' /\ AnswersInv'
  <2>1. turn'.at \notin RunStages
    BY <1>3 DEF Idle, RunStages
  <2>2. turn'.at = "sending" => turn'.text = received
    BY <1>3 DEF Idle
  <2> QED
    BY <2>1, <2>2 DEF RunInv, AnswersInv, AnswerIsOwn, ConversationInv
<1> QED
  BY <1>4, <1>5, <1>6 DEF ConversationInv

\* The head of the Runner's loop, with what the run has made so far.
LEMMA LoopStep ==
    ASSUME ConversationInv, turn.at \in RunStages \cup {"retrieving"},
           NEW msgs, NEW step \in 1..(MaxSteps + 1), NEW base,
           NEW attempt \in 1..MaxAttempts, NEW loaded \in BOOLEAN,
           Ready(msgs, step), Ready(base, 1),
           loaded => Remembers(base) /\ Remembers(msgs),
           step = MaxSteps + 1 => TextOf(msgs) = received,
           Loop(msgs, step, base, attempt, loaded),
           UNCHANGED <<received, aborted, sent>>
    PROVE  ConversationInv'
<1>0. step \in Nat /\ MaxSteps \in Nat
  BY ConversationAssumption
<1>1. CASE LoopEnds(step) \/ aborted
  <2>1. aborted \/ TextOf(msgs) = received
    <3>1. LoopEnds(step) => step = MaxSteps + 1
      BY <1>0 DEF LoopEnds
    <3> QED
      BY <1>1, <3>1
  <2>2. Complete(msgs)
    BY <1>1 DEF Loop
  <2> QED
    BY <1>0, <2>1, <2>2, CompleteInv
<1>2. CASE ~ (LoopEnds(step) \/ aborted)
  <2>1. /\ turn' = [at |-> "calling", msgs |-> msgs, step |-> step,
                    base |-> base, attempt |-> attempt, loaded |-> loaded]
        /\ UNCHANGED <<history, typing>>
    BY <1>2 DEF Loop
  <2>2. step \in 1..MaxSteps
    BY <1>0, <1>2 DEF LoopEnds
  <2>3. ConversationTypeOK'
    <3>1. turn' \in [at : RunStages, msgs : Seq(Messages), base : Seq(Messages),
                     step : 1..MaxSteps, attempt : 1..MaxAttempts, loaded : BOOLEAN]
      BY <2>1, <2>2 DEF Ready, RunStages
    <3> QED
      BY <2>1, <3>1 DEF ConversationInv, ConversationTypeOK
  <2>4. HistoryInv'
    <3>1. turn.at \notin {"idle", "sending"}
      BY DEF RunStages
    <3> QED
      BY <2>1, <3>1 DEF ConversationInv, HistoryInv, Below
  <2>5. RunInv'
    <3>1. /\ turn'.at = "calling" /\ turn'.msgs = msgs /\ turn'.step = step
          /\ turn'.base = base /\ turn'.loaded = loaded
      BY <2>1
    <3>2. loaded => (Remembers(base) /\ Remembers(msgs))'
      BY <2>1 DEF Remembers
    <3> QED
      BY <2>1, <3>1, <3>2 DEF RunInv, Ready, Below, Remembers
  <2>6. AnswersInv'
    BY <2>1 DEF ConversationInv, AnswersInv, AnswerIsOwn
  <2> QED
    BY <2>3, <2>4, <2>5, <2>6 DEF ConversationInv
<1> QED
  BY <1>1, <1>2

LEMMA InitInv == ConversationInit => ConversationInv
<1> SUFFICES ASSUME ConversationInit PROVE ConversationInv
  OBVIOUS
<1>1. /\ history = <<>> /\ received = 0 /\ turn = Idle
      /\ aborted = FALSE /\ typing = FALSE /\ sent = <<>>
  BY DEF ConversationInit
<1>2. ConversationTypeOK
  <2>1. <<>> \in Seq(Messages) /\ <<>> \in Seq([for : 1..MaxReceived, text : 0..MaxReceived])
    OBVIOUS
  <2>2. Idle \in [at : {"idle", "capturing", "acking", "context", "retrieving"}]
    BY DEF Idle
  <2>3. 0 \in 0..MaxReceived
    BY ConversationAssumption
  <2> QED
    BY <1>1, <2>1, <2>2, <2>3 DEF ConversationTypeOK
<1>3. HistoryInv
  BY <1>1 DEF HistoryInv, Coherent, PairedUp, Sorted, Below, Idle
<1>4. RunInv /\ AnswersInv
  BY <1>1 DEF RunInv, AnswersInv, AnswerIsOwn, Idle, RunStages
<1> QED
  BY <1>2, <1>3, <1>4 DEF ConversationInv

\* Steps of the pipeline before and after the run, and its ends without result.
LEMMA StagesInv ==
    ASSUME ConversationInv,
           Captured \/ Acked \/ Enriched \/ RunThrows \/ Delivered \/ Crash
    PROVE  ConversationInv'
<1>1. UNCHANGED <<history, received, aborted>> /\ aborted' \in BOOLEAN
  BY DEF Captured, Acked, Enriched, RunThrows, Delivered, Crash, ConversationInv, ConversationTypeOK
<1>2. typing' \in BOOLEAN
  BY DEF Captured, Acked, Enriched, RunThrows, Delivered, Crash, Leave, ConversationInv, ConversationTypeOK
<1>3. turn' \in [at : {"idle", "capturing", "acking", "context", "retrieving"}]
  BY DEF Captured, Acked, Enriched, RunThrows, Delivered, Crash, Leave, Idle, Stage
<1>4. turn'.at = "idle" \/ turn.at \notin {"idle", "sending"}
  BY DEF Captured, Acked, Enriched, RunThrows, Delivered, Crash, Leave, Idle, Stage
<1>5. AnswerIsOwn' /\ sent' \in Seq([for : 1..MaxReceived, text : 0..MaxReceived])
  <2>1. CASE sent' = sent
    BY <2>1 DEF ConversationInv, AnswersInv, AnswerIsOwn, ConversationTypeOK
  <2>2. CASE Delivered /\ sent' = Append(sent, [for |-> received, text |-> turn.text])
    <3> DEFINE new == [for |-> received, text |-> turn.text]
    <3>1. turn.text = received /\ received \in 1..MaxReceived
      <4>1. turn.at = "sending" /\ turn.at # "idle"
        BY <2>2 DEF Delivered
      <4>2. received \in 0..MaxReceived /\ received >= 1
        BY <4>1 DEF ConversationInv, ConversationTypeOK, HistoryInv
      <4> QED
        BY <4>1, <4>2, ConversationAssumption DEF ConversationInv, AnswersInv
    <3>2. sent \in Seq([for : 1..MaxReceived, text : 0..MaxReceived])
      BY DEF ConversationInv, ConversationTypeOK
    <3>3. new \in [for : 1..MaxReceived, text : 0..MaxReceived] /\ new.for = new.text
      BY <3>1, ConversationAssumption
    <3> HIDE DEF new
    <3>4. /\ sent' \in Seq([for : 1..MaxReceived, text : 0..MaxReceived])
          /\ Len(sent') = Len(sent) + 1 /\ sent'[Len(sent) + 1] = new
          /\ \A i \in 1..Len(sent) : sent'[i] = sent[i]
      BY <2>2, <3>2, <3>3 DEF new
    <3>5. \A i \in 1..Len(sent) : sent[i].text = sent[i].for
      BY DEF ConversationInv, AnswersInv, AnswerIsOwn
    <3>6. \A i \in 1..Len(sent') : i \in 1..Len(sent) \/ i = Len(sent) + 1
      BY <3>2, <3>4
    <3>7. AnswerIsOwn'
      BY <3>3, <3>4, <3>5, <3>6 DEF AnswerIsOwn
    <3> QED
      BY <3>4, <3>7
  <2> QED
    BY <2>1, <2>2 DEF Captured, Acked, Enriched, RunThrows, Delivered, Crash
<1> QED
  BY <1>1, <1>2, <1>3, <1>4, <1>5, QuietStep

\* A message arrives.
LEMMA ArrivalInv ==
    ASSUME ConversationInv, Process \/ ResetCommand
    PROVE  ConversationInv'
<1>1. /\ turn = Idle /\ received < MaxReceived /\ received' = received + 1
      /\ aborted' = FALSE /\ history' \in {<<>>, history}
      /\ turn' \in {Idle, Stage("capturing")}
      /\ UNCHANGED <<typing, sent>>
  BY DEF Process, ResetCommand
<1>2. received \in Nat /\ received' \in 1..MaxReceived
  BY <1>1, ConversationAssumption DEF ConversationInv, ConversationTypeOK
<1>3. ConversationTypeOK'
  <2>1. received' \in 0..MaxReceived
    BY <1>2
  <2>0. history' \in Seq(Messages)
    <3>1. history \in Seq(Messages) /\ <<>> \in Seq(Messages)
      BY DEF ConversationInv, ConversationTypeOK
    <3> QED
      BY <1>1, <3>1
  <2>2. turn' \in [at : {"idle", "capturing", "acking", "context", "retrieving"}]
    BY <1>1 DEF Idle, Stage
  <2> QED
    BY <1>1, <2>0, <2>1, <2>2 DEF ConversationInv, ConversationTypeOK
<1>4. HistoryInv'
  <2>1. Coherent(history') /\ Below(history', received', 0)
    <3>1. Coherent(<<>>) /\ Below(<<>>, received', 0)
      BY DEF Coherent, PairedUp, Sorted, Below
    <3>2. Coherent(history) /\ Below(history, received', 0)
      BY <1>1 DEF ConversationInv, HistoryInv
    <3> QED
      BY <1>1, <3>1, <3>2
  <2>2. Below(history', received' + 1, 0)
    <3> SUFFICES ASSUME NEW i \in 1..Len(history') PROVE history'[i].turn < received' + 1
      BY DEF Below
    <3>1. history'[i].turn \in Nat /\ history'[i].step \in Nat
      BY <1>3, Members DEF ConversationTypeOK
    <3>2. history'[i].turn < received'
      BY <1>2, <2>1, <3>1 DEF Below
    <3> QED
      BY <1>2, <3>1, <3>2
  <2> QED
    BY <1>2, <2>1, <2>2 DEF HistoryInv, Coherent, PairedUp, Sorted, Below
<1>5. RunInv' /\ AnswersInv'
  <2>1. turn'.at \notin RunStages /\ turn'.at # "sending"
    BY <1>1 DEF Idle, Stage, RunStages
  <2> QED
    BY <1>1, <2>1 DEF RunInv, AnswersInv, AnswerIsOwn, ConversationInv
<1> QED
  BY <1>3, <1>4, <1>5 DEF ConversationInv

\* What a run starts from, loaded or not.
LEMMA BaseReady ==
    ASSUME ConversationInv, turn.at = "retrieving", NEW loaded \in BOOLEAN
    PROVE  LET base == Append(IF loaded THEN Window(history) ELSE <<>>, Msg(0, "user"))
           IN  Ready(base, 1) /\ (loaded => Remembers(base))
<1> DEFINE w == IF loaded THEN Window(history) ELSE <<>>
<1>1. received \in 1..MaxReceived /\ received \in Nat
  <2>1. received >= 1 /\ received \in 0..MaxReceived
    BY DEF ConversationInv, HistoryInv, ConversationTypeOK
  <2> QED
    BY <2>1, ConversationAssumption
<1>2. Msg(0, "user") \in Messages /\ Msg(0, "user").turn = received
      /\ Msg(0, "user").step = 0 /\ Msg(0, "user").role = "user"
  <2>1. 0 \in 0..MaxSteps
    BY ConversationAssumption
  <2> QED
    BY <1>1, <2>1, MsgType
<1>3. w \in Seq(Messages) /\ Coherent(w) /\ Below(w, received, 0)
  <2>1. CASE loaded
    <3>1. history \in Seq(Messages) /\ Coherent(history) /\ Below(history, received, 0)
      BY DEF ConversationInv, ConversationTypeOK, HistoryInv
    <3> QED
      BY <1>1, <2>1, <3>1, WindowKeeps
  <2>2. CASE ~loaded
    BY <2>2 DEF Coherent, PairedUp, Sorted, Below
  <2> QED
    BY <2>1, <2>2
<1>4. loaded => Remembers(w)
  BY WindowKeeps DEF ConversationInv, ConversationTypeOK, HistoryInv
<1> HIDE DEF w
<1> DEFINE m == Msg(0, "user")
<1>5. Coherent(Append(w, m)) /\ Below(Append(w, m), received, 1)
  <2>1. m \in Messages /\ m.role \in {"user", "answer"} /\ Below(w, m.turn, m.step)
    BY <1>2, <1>3
  <2>2. Coherent(Append(w, m)) /\ Below(Append(w, m), m.turn, m.step + 1)
    BY <1>3, <2>1, AppendText
  <2> QED
    BY <1>2, <2>2
<1>6. Append(w, m) \in Seq(Messages)
  BY <1>2, <1>3
<1>7. loaded => Remembers(Append(w, m))
  BY <1>2, <1>3, <1>4, RemembersMore
<1> QED
  BY <1>5, <1>6, <1>7 DEF Ready, w

LEMMA RetrievedInv ==
    ASSUME ConversationInv, Retrieved
    PROVE  ConversationInv'
<1>0. turn.at = "retrieving" /\ UNCHANGED <<received, aborted, sent>>
  BY DEF Retrieved
<1>1. CASE aborted
  <2>1. turn' = Idle /\ typing' = FALSE /\ UNCHANGED history
    BY <1>1 DEF Retrieved, Leave
  <2> QED
    BY <1>0, <2>1, QuietStep DEF Idle, ConversationInv, AnswersInv, AnswerIsOwn, ConversationTypeOK
<1>2. CASE ~aborted
  <2>1. PICK loaded \in BOOLEAN :
          LET base == Append(IF loaded THEN Window(history) ELSE <<>>, Msg(0, "user"))
          IN  Loop(base, 1, base, 1, loaded)
    BY <1>2 DEF Retrieved
  <2> DEFINE base == Append(IF loaded THEN Window(history) ELSE <<>>, Msg(0, "user"))
  <2>2. Ready(base, 1) /\ (loaded => Remembers(base)) /\ Loop(base, 1, base, 1, loaded)
    BY <1>0, <2>1, BaseReady
  <2> HIDE DEF base
  <2>3. 1 \in 1..(MaxSteps + 1) /\ 1 \in 1..MaxAttempts /\ ~ (1 = MaxSteps + 1)
    BY ConversationAssumption
  <2> QED
    BY <1>0, <2>2, <2>3, LoopStep
<1> QED
  BY <1>1, <1>2

LEMMA AnsweredInv ==
    ASSUME ConversationInv, Answered
    PROVE  ConversationInv'
<1> DEFINE m == Msg(turn.step, "answer")
           g == Append(turn.msgs, m)
<1>0. /\ turn.at = "calling" /\ Complete(g) /\ turn.at \in RunStages
      /\ UNCHANGED <<received, aborted, sent>>
  BY DEF Answered, RunStages
<1>1. /\ turn.msgs \in Seq(Messages) /\ turn.step \in 1..MaxSteps /\ received \in 1..MaxReceived
      /\ turn.step \in Nat /\ turn.step \in 0..MaxSteps
  BY <1>0, RunTypes, ConversationAssumption DEF ConversationInv
<1>2. Coherent(turn.msgs) /\ Below(turn.msgs, received, turn.step)
  BY <1>0 DEF ConversationInv, RunInv
<1>3. m \in Messages /\ m.turn = received /\ m.step = turn.step /\ m.role = "answer"
  BY <1>1, MsgType
<1> HIDE DEF m
<1>4. Coherent(g) /\ Below(g, received, turn.step + 1)
  <2>1. Below(turn.msgs, m.turn, m.step) /\ m.role \in {"user", "answer"}
    BY <1>2, <1>3
  <2>2. Coherent(g) /\ Below(g, m.turn, m.step + 1)
    BY <1>1, <1>2, <1>3, <2>1, AppendText
  <2> QED
    BY <1>3, <2>2
<1>5. g \in Seq(Messages) /\ Len(g) = Len(turn.msgs) + 1 /\ g[Len(turn.msgs) + 1] = m
  BY <1>1, <1>3, AppendIs
<1> HIDE DEF g
<1>6. TextOf(g) = received
  <2>1. Len(g) \in 1..Len(g) /\ g[Len(g)] = m
    BY <1>1, <1>5
  <2>2. \A i \in 1..Len(g) : ~ (Len(g) < i)
    BY <1>5
  <2> QED
    BY <1>3, <1>5, <2>1, <2>2, TextOfLast
<1>7. Ready(g, turn.step + 1) /\ turn.step + 1 \in Nat
  BY <1>1, <1>4, <1>5 DEF Ready
<1> QED
  BY <1>0, <1>6, <1>7, CompleteInv DEF g

\* The calls of an answer are put behind the messages, and wait for their results.
LEMMA ToolsCalledInv ==
    ASSUME ConversationInv, ToolsCalled
    PROVE  ConversationInv'
<1> DEFINE m == Msg(turn.step, "call")
           g == Append(turn.msgs, m)
<1>0. turn.at = "calling" /\ turn.at \in RunStages
  BY DEF ToolsCalled, RunStages
<1>1. /\ turn \in [at : RunStages, msgs : Seq(Messages), base : Seq(Messages),
                   step : 1..MaxSteps, attempt : 1..MaxAttempts, loaded : BOOLEAN]
      /\ received \in 1..MaxReceived
  BY <1>0, RunTypes DEF ConversationInv
<1>2. /\ turn' = [turn EXCEPT !.at = "tools", !.msgs = g]
      /\ UNCHANGED <<history, received, aborted, typing, sent>>
  BY DEF ToolsCalled
<1>3. m \in Messages
  <2>1. turn.step \in 0..MaxSteps
    BY <1>1, ConversationAssumption
  <2> QED
    BY <1>1, <2>1, MsgType
<1>4. g \in Seq(Messages)
  BY <1>1, <1>3
<1>5. turn.loaded => Remembers(g)
  <2>1. turn.loaded => Remembers(turn.msgs)
    BY <1>0 DEF ConversationInv, RunInv
  <2> QED
    BY <1>1, <1>3, <2>1, RemembersMore
<1> HIDE DEF g
<1>6. /\ turn' \in [at : RunStages, msgs : Seq(Messages), base : Seq(Messages),
                    step : 1..MaxSteps, attempt : 1..MaxAttempts, loaded : BOOLEAN]
      /\ turn'.at = "tools" /\ turn'.msgs = g /\ turn'.step = turn.step
      /\ turn'.base = turn.base /\ turn'.loaded = turn.loaded
  BY <1>1, <1>2, <1>4 DEF RunStages
<1>7. ConversationTypeOK'
  BY <1>2, <1>6 DEF ConversationInv, ConversationTypeOK
<1>8. HistoryInv'
  BY <1>0, <1>2, <1>6 DEF ConversationInv, HistoryInv, Below
<1>9. RunInv'
  <2>1. \E h \in Seq(Messages) :
            /\ Coherent(h) /\ Below(h, received, turn.step)
            /\ g = Append(h, Msg(turn.step, "call"))
    BY <1>0, <1>1 DEF g, ConversationInv, RunInv
  <2>2. (\E h \in Seq(Messages) :
            /\ Coherent(h) /\ Below(h, received, turn.step)
            /\ turn.msgs = Append(h, Msg(turn.step, "call")))'
    BY <1>2, <1>6, <2>1 DEF Below, Msg
  <2>3. Coherent(turn.base) /\ Below(turn.base, received, 1)
    BY <1>0 DEF ConversationInv, RunInv
  <2>4. (Coherent(turn.base) /\ Below(turn.base, received, 1))'
    BY <1>2, <1>6, <2>3 DEF Below, Coherent, PairedUp, Sorted
  <2>5. turn.loaded => Remembers(turn.base)
    BY <1>0 DEF ConversationInv, RunInv
  <2>6. (turn.loaded => Remembers(turn.base) /\ Remembers(turn.msgs))'
    BY <1>2, <1>5, <1>6, <2>5 DEF Remembers
  <2> QED
    BY <1>6, <2>2, <2>4, <2>6 DEF RunInv
<1>10. AnswersInv'
  BY <1>2, <1>6 DEF ConversationInv, AnswersInv, AnswerIsOwn
<1> QED
  BY <1>7, <1>8, <1>9, <1>10 DEF ConversationInv

\* What the run has when its tools are done, and whose text it then is.
LEMMA ResultsReady ==
    ASSUME ConversationInv, turn.at = "tools"
    PROVE  LET g == Append(turn.msgs, Msg(turn.step, "result"))
           IN  /\ Ready(g, turn.step + 1) /\ TextOf(g) = received
               /\ turn.loaded => Remembers(g)
<1> DEFINE c == Msg(turn.step, "call")
           r == Msg(turn.step, "result")
           g == Append(turn.msgs, r)
<1>0. turn.at \in RunStages
  BY DEF RunStages
<1>1. /\ turn.msgs \in Seq(Messages) /\ turn.step \in 0..MaxSteps
      /\ received \in 1..MaxReceived
  <2>1. turn.step \in 1..MaxSteps /\ turn.msgs \in Seq(Messages) /\ received \in 1..MaxReceived
    BY <1>0, RunTypes DEF ConversationInv
  <2> QED
    BY <2>1, ConversationAssumption
<1>2. /\ c \in Messages /\ c.turn = received /\ c.step = turn.step /\ c.role = "call"
      /\ r \in Messages /\ r.role = "result"
  BY <1>1, MsgType
<1>3. r = [c EXCEPT !.role = "result"]
  BY DEF Msg
<1>4. PICK h \in Seq(Messages) : /\ Coherent(h) /\ Below(h, received, turn.step)
                                 /\ turn.msgs = Append(h, c)
  BY <1>0 DEF ConversationInv, RunInv
<1> HIDE DEF c, r
<1>5. Coherent(g) /\ Below(g, received, turn.step + 1)
  <2>1. Below(h, c.turn, c.step)
    BY <1>2, <1>4
  <2>2. LET f == Append(Append(h, c), [c EXCEPT !.role = "result"])
        IN  Coherent(f) /\ Below(f, c.turn, c.step + 1)
    BY <1>2, <1>4, <2>1, AppendPair
  <2> QED
    BY <1>2, <1>3, <1>4, <2>2
<1>6. /\ Len(turn.msgs) = Len(h) + 1 /\ turn.msgs[Len(h) + 1] = c
      /\ g \in Seq(Messages) /\ Len(g) = Len(turn.msgs) + 1
      /\ \A i \in 1..Len(turn.msgs) : g[i] = turn.msgs[i]
      /\ g[Len(turn.msgs) + 1] = r
  BY <1>1, <1>2, <1>4, AppendIs
<1>7. Remembers(turn.msgs) => Remembers(g)
  BY <1>1, <1>2, RemembersMore
<1> HIDE DEF g
<1>8. TextOf(g) = received
  <2>1. Len(h) \in Nat
    BY <1>4
  <2>2. Len(h) + 1 \in 1..Len(g) /\ Len(h) + 1 \in 1..Len(turn.msgs)
    BY <1>6, <2>1
  <2>3. g[Len(h) + 1] = c
    BY <1>6, <2>2
  <2>4. \A i \in 1..Len(g) : Len(h) + 1 < i => i = Len(turn.msgs) + 1
    BY <1>6, <2>1
  <2>5. \A i \in 1..Len(g) : Len(h) + 1 < i => g[i].role \notin {"call", "answer"}
    BY <1>2, <1>6, <2>4
  <2> QED
    BY <1>2, <1>6, <2>2, <2>3, <2>5, TextOfLast
<1>9. turn.loaded => Remembers(g)
  BY <1>0, <1>7 DEF ConversationInv, RunInv
<1> QED
  BY <1>5, <1>6, <1>8, <1>9 DEF Ready, g, r

LEMMA ToolsDoneInv ==
    ASSUME ConversationInv, ToolsDone
    PROVE  ConversationInv'
<1> DEFINE g == Append(turn.msgs, Msg(turn.step, "result"))
<1>0. /\ turn.at = "tools" /\ turn.at \in RunStages
      /\ Loop(g, turn.step + 1, turn.base, turn.attempt, turn.loaded)
      /\ UNCHANGED <<received, aborted, sent>>
  BY DEF ToolsDone, RunStages
<1>1. /\ turn.base \in Seq(Messages) /\ turn.step + 1 \in 1..(MaxSteps + 1)
      /\ turn.attempt \in 1..MaxAttempts /\ turn.loaded \in BOOLEAN
  <2>1. /\ turn.base \in Seq(Messages) /\ turn.step \in 1..MaxSteps
        /\ turn.attempt \in 1..MaxAttempts /\ turn.loaded \in BOOLEAN
    BY <1>0, RunTypes DEF ConversationInv
  <2> QED
    BY <2>1, ConversationAssumption
<1>2. Ready(g, turn.step + 1) /\ TextOf(g) = received /\ (turn.loaded => Remembers(g))
  BY <1>0, ResultsReady
<1>3. Ready(turn.base, 1) /\ (turn.loaded => Remembers(turn.base))
  BY <1>0, <1>1 DEF ConversationInv, RunInv, Ready
<1> HIDE DEF g
<1> QED
  BY <1>0, <1>1, <1>2, <1>3, LoopStep

\* The fallback starts another run from the same messages.
LEMMA AnotherRunInv ==
    ASSUME ConversationInv, turn.at \in RunStages, turn.attempt < MaxAttempts,
           Loop(turn.base, 1, turn.base, turn.attempt + 1, turn.loaded),
           UNCHANGED <<received, aborted, sent>>
    PROVE  ConversationInv'
<1>1. /\ turn.base \in Seq(Messages) /\ turn.attempt + 1 \in 1..MaxAttempts
      /\ turn.loaded \in BOOLEAN
  <2>1. turn.base \in Seq(Messages) /\ turn.attempt \in 1..MaxAttempts /\ turn.loaded \in BOOLEAN
    BY RunTypes DEF ConversationInv
  <2> QED
    BY <2>1, ConversationAssumption
<1>2. Ready(turn.base, 1) /\ (turn.loaded => Remembers(turn.base))
  BY <1>1 DEF ConversationInv, RunInv, Ready
<1>3. 1 \in 1..(MaxSteps + 1) /\ ~ (1 = MaxSteps + 1)
  BY ConversationAssumption
<1> QED
  BY <1>1, <1>2, <1>3, LoopStep

LEMMA RunFailsInv ==
    ASSUME ConversationInv, RunFails
    PROVE  ConversationInv'
<1>0. /\ turn.at = "calling" /\ turn.at \in RunStages /\ turn.attempt < MaxAttempts
      /\ UNCHANGED <<received, aborted, sent>>
  BY DEF RunFails, RunStages
<1>1. CASE Loop(turn.base, 1, turn.base, turn.attempt + 1, turn.loaded)
  BY <1>0, <1>1, AnotherRunInv
<1>2. CASE turn' = [turn EXCEPT !.at = "backoff"] /\ UNCHANGED <<history, typing>>
  <2>1. turn \in [at : RunStages, msgs : Seq(Messages), base : Seq(Messages),
                  step : 1..MaxSteps, attempt : 1..MaxAttempts, loaded : BOOLEAN]
    BY <1>0, RunTypes DEF ConversationInv
  <2>2. /\ turn' \in [at : RunStages, msgs : Seq(Messages), base : Seq(Messages),
                      step : 1..MaxSteps, attempt : 1..MaxAttempts, loaded : BOOLEAN]
        /\ turn'.at = "backoff" /\ turn'.msgs = turn.msgs /\ turn'.step = turn.step
        /\ turn'.base = turn.base /\ turn'.loaded = turn.loaded /\ turn'.attempt = turn.attempt
    BY <1>2, <2>1 DEF RunStages
  <2>3. ConversationTypeOK'
    BY <1>0, <1>2, <2>2 DEF ConversationInv, ConversationTypeOK
  <2>4. HistoryInv'
    BY <1>0, <1>2, <2>2 DEF ConversationInv, HistoryInv, Below
  <2>5. RunInv'
    <3>1. /\ Coherent(turn.base) /\ Below(turn.base, received, 1)
          /\ Coherent(turn.msgs) /\ Below(turn.msgs, received, turn.step)
          /\ turn.loaded => Remembers(turn.base) /\ Remembers(turn.msgs)
      BY <1>0 DEF ConversationInv, RunInv
    <3>2. (/\ Coherent(turn.base) /\ Below(turn.base, received, 1)
           /\ Coherent(turn.msgs) /\ Below(turn.msgs, received, turn.step))'
      BY <1>0, <2>2, <3>1 DEF Below
    <3>3. (turn.loaded => Remembers(turn.base) /\ Remembers(turn.msgs))'
      BY <1>2, <2>2, <3>1 DEF Remembers
    <3> QED
      BY <1>0, <2>2, <3>2, <3>3 DEF RunInv
  <2>6. AnswersInv'
    BY <1>0, <2>2 DEF ConversationInv, AnswersInv, AnswerIsOwn
  <2> QED
    BY <2>3, <2>4, <2>5, <2>6 DEF ConversationInv
<1> QED
  BY <1>1, <1>2 DEF RunFails

LEMMA BackoffOverInv ==
    ASSUME ConversationInv, BackoffOver
    PROVE  ConversationInv'
<1>1. turn.at = "backoff" /\ turn.at \in RunStages
  BY DEF BackoffOver, RunStages
<1>2. turn.attempt < MaxAttempts
  BY <1>1 DEF ConversationInv, RunInv
<1> QED
  BY <1>1, <1>2, AnotherRunInv DEF BackoffOver

\* What happens beside the pipeline: the signal and the indicator's timer.
LEMMA AsideInv ==
    ASSUME ConversationInv, UNCHANGED <<history, received, turn, sent>>,
           aborted' \in BOOLEAN, typing' \in BOOLEAN
    PROVE  ConversationInv'
<1>1. ConversationTypeOK'
  BY DEF ConversationInv, ConversationTypeOK
<1>2. HistoryInv'
  BY DEF ConversationInv, HistoryInv, Below
<1>3. AnswersInv'
  BY DEF ConversationInv, AnswersInv, AnswerIsOwn
<1>4. RunInv'
  BY DEF ConversationInv, RunInv, Below, Remembers, Msg
<1> QED
  BY <1>1, <1>2, <1>3, <1>4 DEF ConversationInv

LEMMA StepInv == ConversationInv /\ [ConversationNext]_conversationVars => ConversationInv'
<1> SUFFICES ASSUME ConversationInv, [ConversationNext]_conversationVars
             PROVE  ConversationInv'
  OBVIOUS
<1>1. CASE Process \/ ResetCommand
  BY <1>1, ArrivalInv
<1>2. CASE Captured \/ Acked \/ Enriched \/ RunThrows \/ Delivered \/ Crash
  BY <1>2, StagesInv
<1>3. CASE Retrieved
  BY <1>3, RetrievedInv
<1>4. CASE Answered
  BY <1>4, AnsweredInv
<1>5. CASE ToolsCalled
  BY <1>5, ToolsCalledInv
<1>6. CASE ToolsDone
  BY <1>6, ToolsDoneInv
<1>7. CASE RunFails
  BY <1>7, RunFailsInv
<1>8. CASE BackoffOver
  BY <1>8, BackoffOverInv
<1>9. CASE Abort \/ TypingExpires \/ UNCHANGED conversationVars
  <2>1. /\ UNCHANGED <<history, received, turn, sent>>
        /\ aborted' \in BOOLEAN /\ typing' \in BOOLEAN
    BY <1>9 DEF Abort, TypingExpires, conversationVars, ConversationInv, ConversationTypeOK
  <2> QED
    BY <2>1, AsideInv
<1> QED
  BY <1>1, <1>2, <1>3, <1>4, <1>5, <1>6, <1>7, <1>8, <1>9 DEF ConversationNext, Advance

\* A step that stores nothing forgets nothing; what a run stores has all that its
\* history may not lose.
LEMMA RecentStep ==
    ASSUME ConversationInv, [ConversationNext]_conversationVars,
           history' # <<>>, Running => turn.loaded \/ history = history'
    PROVE  Remembers(history')
<1>1. CASE history' = history
  BY <1>1 DEF Remembers
<1>2. CASE history' # history
  <2>1. Running => turn.loaded
    BY <1>2
  <2>2. \/ Retrieved \/ Answered \/ ToolsDone \/ RunFails \/ BackoffOver
    BY <1>2 DEF ConversationNext, Advance, Process, ResetCommand, Captured, Acked, Enriched, ToolsCalled,
                RunThrows, Delivered, Abort, TypingExpires, Crash, conversationVars
  <2>3. CASE Retrieved
    <3>1. ~aborted /\ ~LoopEnds(1)
      BY <1>2, <2>3, ConversationAssumption DEF Retrieved, LoopEnds
    <3> QED
      BY <1>2, <2>3, <3>1 DEF Retrieved, Loop
  <2>4. ASSUME turn.at \in RunStages PROVE turn.loaded /\ Remembers(turn.base) /\ Remembers(turn.msgs)
    BY <2>1, <2>4 DEF Running, ConversationInv, RunInv
  <2>5. CASE Answered
    <3> DEFINE m == Msg(turn.step, "answer")
    <3>1. turn.at \in RunStages /\ Complete(Append(turn.msgs, m))
      BY <2>5 DEF Answered, RunStages
    <3>2. turn.msgs \in Seq(Messages) /\ turn.step \in 1..MaxSteps /\ received \in 1..MaxReceived
      BY <3>1, RunTypes DEF ConversationInv
    <3>3. m \in Messages
      <4>1. turn.step \in 0..MaxSteps
        BY <3>2, ConversationAssumption
      <4> QED
        BY <3>2, <4>1, MsgType
    <3>4. Remembers(Append(turn.msgs, m))
      BY <2>4, <3>1, <3>2, <3>3, RemembersMore
    <3> QED
      BY <1>2, <3>1, <3>4 DEF Complete
  <2>6. CASE ToolsDone
    <3>1. turn.at = "tools" /\ turn.at \in RunStages
      BY <2>6 DEF ToolsDone, RunStages
    <3>2. Remembers(Append(turn.msgs, Msg(turn.step, "result")))
      BY <2>4, <3>1, ResultsReady
    <3> QED
      BY <1>2, <2>6, <3>2 DEF ToolsDone, Loop, Complete
  <2>7. CASE RunFails \/ BackoffOver
    <3>1. turn.at \in RunStages
      BY <2>7 DEF RunFails, BackoffOver, RunStages
    <3>2. Complete(turn.base)
      BY <1>2, <2>7 DEF RunFails, BackoffOver, Loop
    <3> QED
      BY <1>2, <2>4, <3>1, <3>2 DEF Complete
  <2> QED
    BY <2>2, <2>3, <2>5, <2>6, <2>7
<1> QED
  BY <1>1, <1>2

-----------------------------------------------------------------------------
\* The inductive invariant: what the stored history, the messages of a run and the
\* pipeline's place know of each other (execution-adapter.ts, pipeline.ts).
THEOREM ConversationInvHolds == ConversationSpec => []ConversationInv
<1>1. ConversationInit => ConversationInv
  BY InitInv
<1>2. ConversationInv /\ [ConversationNext]_conversationVars => ConversationInv'
  BY StepInv
<1> QED
  BY <1>1, <1>2, PTL DEF ConversationSpec

\* Rows, answers and the pipeline's place keep their types, and no run goes beyond
\* its model calls and attempts.
THEOREM ConversationTypeCorrect == ConversationSpec => []ConversationTypeOK
<1>1. ConversationInv => ConversationTypeOK
  BY DEF ConversationInv
<1> QED
  BY <1>1, ConversationInvHolds, PTL

\* What is stored and sent to the model pairs calls and results, in order and once,
\* whatever the window cuts off, and every answer that is sent was written for the
\* message it answers.
THEOREM HistoryIsKept == ConversationSpec => []HistoryKept
<1>1. ConversationInv => HistoryKept
  BY DEF ConversationInv, HistoryInv, RunInv, AnswersInv, HistoryKept, HistoryCoherent, Coherent, RunStages
<1> QED
  BY <1>1, ConversationInvHolds, PTL

\* Nothing of the last Limit messages is lost but a result whose call is cut off, a
\* history that was reset, and one that could not be loaded.
THEOREM RecentIsRemembered == ConversationSpec => RecentRemembered
<1>1. ConversationInv /\ [ConversationNext]_conversationVars =>
        [(history' # <<>> /\ (Running => turn.loaded \/ history = history')) =>
          \A i \in 1..Len(history) :
           \/ i <= Len(history) - Limit
           \/ \E j \in 1..Len(history') : history'[j] = history[i]
           \/ /\ history[i].role = "result"
              /\ i = Len(history) - Limit + 1]_conversationVars
  BY RecentStep DEF Remembers
<1> QED
  BY <1>1, ConversationInvHolds, PTL DEF ConversationSpec, RecentRemembered
=============================================================================
