------------------------------ MODULE SlotLine ------------------------------
(***************************************************************************)
(* What ConcurrencyLane promises, without its counters: per key a pool of  *)
(* slots whose holders are known by name, and a first-come, first-served   *)
(* line in front of it.  Lane implements it (ImplementsPool).              *)
(***************************************************************************)
EXTENDS Integers, Sequences, FiniteSets

CONSTANTS Keys, Tasks, MaxConcurrent

VARIABLES holders,   \* who runs under each key with a valid handle
          capacity,  \* slots the key still has
          line       \* who waits for each key, in order of arrival

vars == <<holders, capacity, line>>

Outside(t) == \A k \in Keys :
                 /\ t \notin holders[k]
                 /\ \A i \in 1..Len(line[k]) : line[k][i] # t

Init == /\ holders = [k \in Keys |-> {}]
        /\ capacity = [k \in Keys |-> MaxConcurrent]
        /\ line = [k \in Keys |-> <<>>]

\* A newcomer enters when there is room and nobody is in front of it ...
Enter(t, k) == /\ Outside(t)
               /\ line[k] = <<>>
               /\ Cardinality(holders[k]) < capacity[k]
               /\ holders' = [holders EXCEPT ![k] = @ \cup {t}]
               /\ UNCHANGED <<capacity, line>>

\* ... and stands in line only when there is none.
Join(t, k) == /\ Outside(t)
              /\ Cardinality(holders[k]) = capacity[k]
              /\ line' = [line EXCEPT ![k] = Append(@, t)]
              /\ UNCHANGED <<holders, capacity>>

GiveUp(t, k) == /\ \E i \in 1..Len(line[k]) :
                     /\ line[k][i] = t
                     /\ line' = [line EXCEPT ![k] =
                                   SubSeq(@, 1, i - 1) \o SubSeq(@, i + 1, Len(@))]
                /\ UNCHANGED <<holders, capacity>>

\* The first in line takes the slot in the very step in which it is left.
Leave(t, k) == /\ t \in holders[k]
               /\ IF line[k] = <<>>
                    THEN /\ holders' = [holders EXCEPT ![k] = @ \ {t}]
                         /\ UNCHANGED line
                    ELSE /\ holders' = [holders EXCEPT
                                          ![k] = (@ \ {t}) \cup {Head(line[k])}]
                         /\ line' = [line EXCEPT ![k] = Tail(@)]
               /\ UNCHANGED capacity

\* All handles are revoked; the slots they stood for are never given back.
Revoke == /\ holders' = [k \in Keys |-> {}]
          /\ capacity' = [k \in Keys |-> capacity[k] - Cardinality(holders[k])]
          /\ line' = [k \in Keys |-> <<>>]

Next == \/ \E t \in Tasks, k \in Keys :
             Enter(t, k) \/ Join(t, k) \/ GiveUp(t, k) \/ Leave(t, k)
        \/ Revoke

Spec == Init /\ [][Next]_vars
=============================================================================
