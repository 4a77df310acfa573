------------------------------- MODULE KeyRotator -------------------------------
(***************************************************************************)
(* The keys of a market or news provider: KeyRotator                       *)
(* (packages/skills-finance/src/shared/key-rotator.ts).  A caller takes a  *)
(* key, awaits an answer, and tells how it went.  Instants are kept as the *)
(* ticks that are left of a cool-down.                                     *)
(***************************************************************************)
EXTENDS Naturals, Sequences, SequencesExt

CONSTANTS Keys,       \* of the rotator, in their order
          Callers,    \* calls that hold a key
          Threshold,  \* failureThreshold
          Cooldown    \* cooldownMs

NoKey == "no key"
All == ToSet(Keys)

RotatorAssumption == /\ Keys \in Seq(All) /\ Keys # <<>> /\ NoKey \notin All
                     /\ {Threshold, Cooldown} \subseteq Nat \ {0}

VARIABLES cursor,    \* the place where the next search begins
          failures,  \* of each key, counted up to the threshold
          cooling,   \* ticks until cooldownUntil of each key
          held,      \* the key that each call holds, or NoKey
          passed     \* for each key, those given since it was given or could not be

vars == <<cursor, failures, cooling, held, passed>>

-----------------------------------------------------------------------------
Init == /\ cursor = 1 /\ failures = [k \in All |-> 0] /\ cooling = [k \in All |-> 0]
        /\ held = [c \in Callers |-> NoKey] /\ passed = [k \in All |-> <<>>]

Waiting(key, rest) == [k \in All |-> IF k = key \/ rest[k] > 0 THEN <<>>
                                      ELSE IF key = NoKey THEN passed[k] ELSE Append(passed[k], key)]

\* Faulty variant: when the key at the cursor cools, the search begins with the first.
PlaceFromFirst(a) == IF cooling[Keys[cursor]] > 0 THEN a + 1 ELSE ((cursor + a - 1) % Len(Keys)) + 1

\* The place that attempt a of a search looks at, and the attempts that find a key.
Place(a) == ((cursor + a - 1) % Len(Keys)) + 1
Free == {a \in 0..(Len(Keys) - 1) : cooling[Keys[Place(a)]] = 0}

\* next(); with every key in a cool-down it throws, and nothing changes.
NextKey(c) ==
    /\ held[c] = NoKey
    /\ \E a \in Free :
         /\ \A b \in Free : a <= b
         /\ cursor' = (Place(a) % Len(Keys)) + 1
         /\ held' = [held EXCEPT ![c] = Keys[Place(a)]]
         /\ passed' = Waiting(Keys[Place(a)], cooling)
    /\ UNCHANGED <<failures, cooling>>

\* markSuccess() also ends a cool-down that other calls began meanwhile.
MarkSuccess(c) ==
    /\ held[c] # NoKey
    /\ failures' = [failures EXCEPT ![held[c]] = 0]
    /\ cooling' = [cooling EXCEPT ![held[c]] = 0]
    /\ held' = [held EXCEPT ![c] = NoKey]
    /\ UNCHANGED <<cursor, passed>>

\* markFailure(): the end of a cool-down does not start the count again, so that one
\* more failure begins the next.
MarkFailure(c) ==
    LET k == held[c] IN
    /\ k # NoKey
    /\ failures' = [failures EXCEPT ![k] = IF @ < Threshold THEN @ + 1 ELSE @]
    /\ cooling' = [cooling EXCEPT ![k] = IF failures'[k] = Threshold THEN Cooldown ELSE @]
    /\ held' = [held EXCEPT ![c] = NoKey]
    /\ passed' = Waiting(NoKey, cooling')
    /\ UNCHANGED cursor

Tick == /\ \E k \in All : cooling[k] > 0
        /\ cooling' = [k \in All |-> IF cooling[k] = 0 THEN 0 ELSE cooling[k] - 1]
        /\ UNCHANGED <<cursor, failures, held, passed>>

Next == Tick \/ \E c \in Callers : NextKey(c) \/ MarkSuccess(c) \/ MarkFailure(c)

Spec == Init /\ [][Next]_vars

-----------------------------------------------------------------------------
(* availableCount() is what the status command shows. *)
TypeOK == /\ cursor \in 1..Len(Keys) /\ failures \in [All -> 0..Threshold]
          /\ cooling \in [All -> 0..Cooldown] /\ held \in [Callers -> All \cup {NoKey}]

\* Round robin, whatever keys begin and end a cool-down meanwhile: as long as a key
\* could be given and is not, no other key is given twice (next()); and a key is in a
\* cool-down only after as many failures as the threshold, with no success since.
KeysTakeTurns == /\ TypeOK
                 /\ \A k \in All : IsInjective(passed[k])
                 /\ \A k \in All : cooling[k] > 0 => failures[k] = Threshold
=============================================================================
