----------------------------- MODULE MCTaskCards -----------------------------
(***************************************************************************)
(* Instances of TaskCards: two or three tasks and one consumer.            *)
(***************************************************************************)
EXTENDS TaskCards

CONSTANTS k1

OneRoom  == [k \in Consumers |-> 1]
TwoRooms == [k \in Consumers |-> 2]

\* Three copies of one commitment, one of them seen finished.
Seen1    == {<<1, "q1">>}
OnePair  == {<<1, 2>>}
Copies   == {<<1, 2>>, <<1, 3>>}
=============================================================================
