----------------------------- MODULE ClaimLedger -----------------------------
(***************************************************************************)
(* What the execution ledger promises the agents it starts, whatever the   *)
(* gates, the queue, the retries and the sources do on the way.            *)
(*                                                                         *)
(* A claim is issued once, to one task; no more than SlotCap are held at a *)
(* time; a held claim ends in exactly one way and then stays ended; only   *)
(* the holder of a claim ever answers it, and at most once.                *)
(***************************************************************************)
EXTENDS Integers, FiniteSets

CONSTANTS Tasks, ClaimIds, SlotCap, NoClaim

VARIABLES
    holder,     \* the claim each task is worked under, NoClaim if none
    fate,       \* how each claim stands
    answered    \* the claims that left a result

ledgerVars == <<holder, fate, answered>>

Ends == {"recorded", "released", "failed", "expired", "cancelled", "preempted"}

Held == {t \in Tasks : holder[t] # NoClaim}

Init == /\ holder = [t \in Tasks |-> NoClaim]
        /\ fate = [k \in ClaimIds |-> "unissued"]
        /\ answered = {}

\* The claims of the tasks in S end, each in its own way.
Freed(S) == [t \in Tasks |-> IF t \in S THEN NoClaim ELSE holder[t]]

Ended(S, end) ==
    [k \in ClaimIds |-> IF \E t \in S : holder[t] = k
                        THEN end[CHOOSE t \in S : holder[t] = k]
                        ELSE fate[k]]

\* One agent answers its claim, ...
Returns(t) ==
    /\ t \in Held
    /\ holder' = Freed({t})
    /\ fate' = [fate EXCEPT ![holder[t]] = "recorded"]
    /\ answered' = answered \cup {holder[t]}

\* ... or any number of claims end without an answer, ...
LetGo(S) ==
    /\ holder' = Freed(S)
    /\ \E end \in [S -> Ends \ {"recorded"}] : fate' = Ended(S, end)
    /\ UNCHANGED answered

\* ... after which one that was never issued may be granted.
Grants(S, t, k) ==
    /\ Cardinality(Held \ S) < SlotCap
    /\ t \notin Held \ S
    /\ fate[k] = "unissued"
    /\ holder' = [Freed(S) EXCEPT ![t] = k]
    /\ \E end \in [S -> Ends \ {"recorded"}] :
         fate' = [Ended(S, end) EXCEPT ![k] = "live"]
    /\ UNCHANGED answered

Next == \/ \E t \in Tasks : Returns(t)
        \/ \E S \in SUBSET Held :
             \/ LetGo(S)
             \/ \E t \in Tasks, k \in ClaimIds : Grants(S, t, k)

Spec == Init /\ [][Next]_ledgerVars
=============================================================================
