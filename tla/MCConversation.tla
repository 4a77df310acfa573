--------------------------- MODULE MCConversation ---------------------------
(***************************************************************************)
(* Small instances for TLC of the way of a channel's message: its routing  *)
(* (MessageRouting) and its turn in the conversation (Conversation).  A    *)
(* behaviour exercises one of them, chosen at the start, while the other   *)
(* rests: the router passes a message on and they share no state.          *)
(***************************************************************************)
EXTENDS MessageRouting, Conversation

CONSTANTS m1, m2, m3, m4, s1, s2

MCMsgs == {m1, m2, m3, m4}
MCSessions == {s1, s2}
MCSessionOf == [m \in MCMsgs |-> IF m = m4 THEN s2 ELSE s1]

VARIABLE scope  \* the part that this behaviour exercises

all == <<scope, vars, conversationVars>>

MCInit == scope \in {"routing", "turns"} /\ Init /\ ConversationInit

MCNext == /\ UNCHANGED scope
          /\ \/ scope = "routing" /\ Next /\ UNCHANGED conversationVars
             \/ scope = "turns" /\ ConversationNext /\ UNCHANGED vars

InRouting == scope = "routing" /\ UNCHANGED <<scope, conversationVars>>

MCSpec == /\ MCInit /\ [][MCNext]_all
          /\ WF_all(InRouting /\ \E j \in jobs : StartProcess(j))
          /\ \A s \in Sessions : WF_all(InRouting /\ \E j \in JobsOf(s) : Finish(j))
          /\ WF_all(scope = "turns" /\ Advance /\ UNCHANGED <<scope, vars>>)
=============================================================================
