----------------------- MODULE ContextCompactionDocs -----------------------
(***************************************************************************)
(* What the documentation says of the messages of a conversation.          *)
(***************************************************************************)
EXTENDS MCContextCompaction

(* "conversation: visible to later tasks" (docs/03, section 1): a message  *)
(* of the conversation stands in the input of every task, as itself or as  *)
(* part of the summary.  The goal of a task that compacted is in neither:  *)
(* its compaction leaves it out and moves the cutoff past it.              *)
ConversationStaysVisible ==
    \A t \in Task : \A g \in ConversationGroups :
        worker[t].stage = "ready" /\ status[t] = "running" =>
            g \subseteq worker[t].base.covers \cup UNION worker[t].groups
=============================================================================
