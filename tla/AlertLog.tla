------------------------------- MODULE AlertLog -------------------------------
(***************************************************************************)
(* What an alert store promises: a bounded view of the newest alerts in    *)
(* front of an unbounded log, where reporting, clearing and reopening each *)
(* happen at once.  AlertStore implements it as long as SQLite does not    *)
(* fail.                                                                   *)
(***************************************************************************)
EXTENDS BoundedSeq

CONSTANTS Alert,     \* the alerts that may be reported
          MaxItems   \* how many the view shows

VARIABLES view,  \* the newest alerts, oldest first
          log    \* every alert reported since the last clear, by first report

Ids(s) == {a.id : a \in Elements(s)}

\* INSERT OR IGNORE: a row whose id exists is left as it was.
Inserted(rows, a) == IF a.id \in Ids(rows) THEN rows ELSE Append(rows, a)

LogInit == view = <<>> /\ log = <<>>

\* An alert the view already shows is not reported again.
Report(a) ==
  /\ a.id \notin Ids(view)
  /\ view' = Recent(Append(view, a), MaxItems)
  /\ log' = Inserted(log, a)

Clear == view' = <<>> /\ log' = <<>>

\* The view is rebuilt from the log, in whatever order that gives.
Reopen == view' = Recent(log, MaxItems) /\ UNCHANGED log

LogNext == (\E a \in Alert : Report(a)) \/ Clear \/ Reopen

LogSpec == LogInit /\ [][LogNext]_<<view, log>>
===============================================================================
