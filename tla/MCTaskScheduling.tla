-------------------------- MODULE MCTaskScheduling --------------------------
(* Two tasks and one that research can add; four things research may say. *)
EXTENDS TaskScheduling, TLC

Advice(kind, related, date) == [kind |-> kind, related |-> related, date |-> date]

Of(t, items, due, effort) ==
    [task |-> t, items |-> items, due |-> due, effort |-> effort]

AfterB   == Advice("after_task_completed", "b", 0)
AfterA   == Advice("after_task_completed", "a", 0)
Later    == Advice("not_before", "none", 5)
Raise    == Advice("raise_priority", "none", 0)
Prepare  == Advice("create_prerequisite", "none", 0)

OfA(items) == "first"  :> Of("a", items, Never, "week")
OfB(items) == "second" :> Of("b", items, 12, "none")

Readings == {OfA(<<AfterB>>) @@ OfB(<<AfterA>>), OfA(<<AfterB>>) @@ OfB(<<Prepare>>),
             OfA(<<Raise, Later>>), OfA(<<Prepare, Raise>>)}
DueDates == [t \in {"a", "b", "c"} |-> IF t = "a" THEN 20 ELSE Never]
=============================================================================
