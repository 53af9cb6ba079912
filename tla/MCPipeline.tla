------------------------------ MODULE MCPipeline ------------------------------
(* A small instance of Pipeline for TLC. *)
EXTENDS Pipeline, TLC

CONSTANTS h1, h2

Event(id, src, ts, aware, bad) ==
  [id |-> id, src |-> src, ts |-> ts, aware |-> aware, bad |-> bad]

\* One host sends well-formed events in and out of order, one the extractors
\* cannot convert and one with a naive timestamp; the other sends good events,
\* of which the second expires everything before it.  Any event may be resent.
MCFlow == {Event(1, h1, 0, TRUE, FALSE), Event(2, h1, 1, TRUE, FALSE),
           Event(3, h1, 1, TRUE, TRUE), Event(4, h1, 1, FALSE, FALSE),
           Event(5, h2, 1, TRUE, FALSE), Event(6, h2, 3, TRUE, FALSE)}

\* The alert of an event that may be sent again, and one of an older capture.
MCPersisted == {[flow |-> 2, threat |-> "flood"], [flow |-> 0, threat |-> "flood"]}
===============================================================================
