----------------------------- MODULE MCAlertStore -----------------------------
(* A small instance of AlertStore for TLC. *)
EXTENDS AlertStore

\* Three alert ids for a deque of two; the first id occurs with two contents, as
\* when the same flow id is analysed again with other evidence.
MCAlert == {[id |-> 1, body |-> "first"], [id |-> 1, body |-> "again"],
            [id |-> 2, body |-> "first"], [id |-> 3, body |-> "first"]}
===============================================================================
