----------------------------- MODULE TaskTables -----------------------------
(***************************************************************************)
(* What the database storage promises the task manager: a task has a row, or *)
(* none, in each of three tables; a save sets one row, a deletion removes    *)
(* the task's rows from all tables at once, and nothing else changes them.   *)
(***************************************************************************)
CONSTANTS Tasks, Tables, Values, NoRow

VARIABLE stored

Init == stored = [t \in Tasks |-> [b \in Tables |-> NoRow]]

Save(t, b, v) == stored' = [stored EXCEPT ![t][b] = v]

DeleteTask(t) == stored' = [stored EXCEPT ![t] = [b \in Tables |-> NoRow]]

Next == \E t \in Tasks : DeleteTask(t) \/ \E b \in Tables, v \in Values : Save(t, b, v)

Spec == Init /\ [][Next]_stored
=============================================================================
