----------------------------- MODULE MCAgentRuns -----------------------------
(* Instances of AgentRuns for TLC. *)
EXTENDS AgentRuns

TwoRuns == 1..2

\* What each origin owes; a review also finds something to file and to mail.
Tried == [issue |-> {"issue-comment", "pull-request"},
          review_request |-> {"review", "issue", "outbound-mail"}]
=============================================================================
