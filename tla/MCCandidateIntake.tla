-------------------------- MODULE MCCandidateIntake --------------------------
(* Instances of CandidateIntake for TLC. *)
EXTENDS CandidateIntake

Doc(cand, gen, content, registry, state, reason, kind) ==
    [cand |-> cand, gen |-> gen, content |-> content, registry |-> registry,
     head |-> "h1", state |-> state, reason |-> reason, kind |-> kind]

\* An issue that is edited, or closed as completed or as not planned; and that
\* is then closed, resolved again in another speaker view, or opened again.
Issue == {Doc("issue", 1, "old", "v1", "active", "none", "issue"),
          Doc("issue", 2, "new", "v1", "active", "none", "issue"),
          Doc("issue", 2, "old", "v1", "withdrawn", "issue_completed", "issue"),
          Doc("issue", 2, "old", "v1", "withdrawn", "issue_not_planned", "issue"),
          Doc("issue", 3, "new", "v1", "withdrawn", "issue_not_planned", "issue"),
          Doc("issue", 3, "new", "v2", "active", "none", "issue")}
=============================================================================
