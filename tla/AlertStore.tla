------------------------------ MODULE AlertStore ------------------------------
(***************************************************************************)
(* backend/alerts/store.py: a deque of the newest alerts backed by a       *)
(* SQLite table.  A call is not atomic: add() appends to the deque, then   *)
(* executes an INSERT OR IGNORE, then commits; clear() empties the deque,  *)
(* then executes a DELETE, then commits.  The process may die between any  *)
(* two of these steps, and, where DbFails holds, each SQLite call may      *)
(* raise: the caller gets the exception and the process goes on with       *)
(* whatever state the steps before it left.                                *)
(***************************************************************************)
EXTENDS BoundedSeq

CONSTANTS Alert,     \* the alerts that may be raised; their ids may coincide
          MaxItems,  \* max_items: deque(maxlen) and LIMIT at start-up
          DbFails    \* whether a SQLite call may raise

ASSUME AlertStoreAssumption == MaxItems \in Nat \ {0} /\ DbFails \in BOOLEAN

VARIABLES pc,        \* where the running call is; "idle" between calls
          adding,    \* <<a>> while add(a) is between its append and its end
          items,     \* self.items
          rows,      \* the table as this connection sees it, in rowid order
          durable,   \* the table as the last commit left it
          before,    \* history: items when the running call began
          acked,     \* history: ids whose add returned since the last clear
          failed,    \* history: ids whose add raised since the last clear
          reported,  \* history: alerts passed to add since a clear completed
          reraised   \* history: an id came back after it had left the deque

vars == <<pc, adding, items, rows, durable, before, acked, failed, reported, reraised>>

Ids(s) == {a.id : a \in Elements(s)}

-------------------------------------------------------------------------------
Init ==
  /\ pc = "idle"
  /\ adding = <<>>
  /\ items = <<>> /\ rows = <<>> /\ durable = <<>> /\ before = <<>>
  /\ acked = {} /\ failed = {} /\ reported = {}
  /\ reraised = FALSE

\* The call in progress ends, by returning or by raising.
EndCall == pc' = "idle" /\ adding' = <<>>

\* Variants for the mutation runs: a duplicate test that compares whole alerts
\* and not their ids, commits that are never made, a delete that is not executed, an exception
\* that is swallowed, and a start that loads the oldest rows.
IsShownWhole(a) == a \in Elements(items)

CommitAddForgotten ==
  /\ pc = "commit" /\ EndCall
  /\ acked' = acked \cup {adding[1].id}
  /\ UNCHANGED <<items, rows, durable, before, failed, reported, reraised>>

AddSwallows ==
  /\ DbFails /\ pc \in {"insert", "commit"} /\ EndCall
  /\ rows' \in {rows, durable}
  /\ UNCHANGED <<items, durable, before, acked, failed, reported, reraised>>

DeleteForgotten ==
  /\ pc = "delete" /\ pc' = "commitClear"
  /\ UNCHANGED <<adding, items, rows, durable, before, acked, failed, reported, reraised>>

CommitClearForgotten ==
  /\ pc = "commitClear" /\ EndCall
  /\ reported' = {} /\ reraised' = FALSE
  /\ UNCHANGED <<items, rows, durable, before, acked, failed>>

RestartOldest ==
  /\ pc = "down" /\ pc' = "idle"
  /\ items' = SubSeq(rows, 1, IF Len(rows) > MaxItems THEN MaxItems ELSE Len(rows))
  /\ reraised' = FALSE
  /\ UNCHANGED <<adding, rows, durable, before, acked, failed, reported>>

\* any(x.alert_id == alert.alert_id for x in self.items)
IsShown(a) == a.id \in Ids(items)

\* add: an id that is in the deque returns at once.
AddDuplicate(a) ==
  /\ pc = "idle"
  /\ IsShown(a)
  /\ acked' = acked \cup {a.id}
  /\ UNCHANGED <<pc, adding, items, rows, durable, before, failed, reported, reraised>>

\* add: the append comes first, and drops the oldest item of a full deque.
AddAppends(a) ==
  /\ pc = "idle"
  /\ ~IsShown(a)
  /\ pc' = "insert"
  /\ adding' = <<a>>
  /\ before' = items
  /\ items' = Recent(Append(items, a), MaxItems)
  /\ reported' = reported \cup {a}
  /\ UNCHANGED <<rows, durable, acked, failed, reraised>>

\* INSERT OR IGNORE opens a transaction; a row with this id is kept as it is.
InsertRow ==
  /\ pc = "insert"
  /\ pc' = "commit"
  /\ LET a == adding[1] IN
       /\ rows' = IF a.id \in Ids(rows) THEN rows ELSE Append(rows, a)
       /\ reraised' = (reraised \/ a.id \in Ids(rows))
  /\ UNCHANGED <<adding, items, durable, before, acked, failed, reported>>

CommitAdd ==
  /\ pc = "commit"
  /\ EndCall
  /\ durable' = rows
  /\ acked' = acked \cup {adding[1].id}
  /\ UNCHANGED <<items, rows, before, failed, reported, reraised>>

\* execute or commit raises out of add: nothing takes the item back out of the
\* deque.  The open transaction survives, or SQLite has rolled it back.
AddRaises ==
  /\ DbFails
  /\ pc \in {"insert", "commit"}
  /\ EndCall
  /\ rows' \in {rows, durable}
  /\ failed' = failed \cup {adding[1].id}
  /\ UNCHANGED <<items, durable, before, acked, reported, reraised>>

\* clear: the deque is emptied first.
ClearItems ==
  /\ pc = "idle"
  /\ pc' = "delete"
  /\ before' = items
  /\ items' = <<>>
  /\ acked' = {}
  /\ failed' = {}
  /\ UNCHANGED <<adding, rows, durable, reported, reraised>>

DeleteRows ==
  /\ pc = "delete"
  /\ pc' = "commitClear"
  /\ rows' = <<>>
  /\ UNCHANGED <<adding, items, durable, before, acked, failed, reported, reraised>>

CommitClear ==
  /\ pc = "commitClear"
  /\ EndCall
  /\ durable' = rows
  /\ reported' = {}
  /\ reraised' = FALSE
  /\ UNCHANGED <<items, rows, before, acked, failed>>

ClearRaises ==
  /\ DbFails
  /\ pc \in {"delete", "commitClear"}
  /\ EndCall
  /\ rows' \in {rows, durable}
  /\ UNCHANGED <<items, durable, before, acked, failed, reported, reraised>>

\* The process dies: memory and the open transaction are gone.
Crash ==
  /\ pc # "down"
  /\ pc' = "down"
  /\ adding' = <<>> /\ items' = <<>> /\ before' = <<>>
  /\ rows' = durable
  /\ UNCHANGED <<durable, acked, failed, reported, reraised>>

\* __init__: the newest max_items rows by rowid, oldest first.
Restart ==
  /\ pc = "down"
  /\ pc' = "idle"
  /\ items' = Recent(rows, MaxItems)
  /\ reraised' = FALSE
  /\ UNCHANGED <<adding, rows, durable, before, acked, failed, reported>>

Next ==
  \/ \E a \in Alert : AddDuplicate(a) \/ AddAppends(a)
  \/ InsertRow \/ CommitAdd \/ AddRaises
  \/ ClearItems \/ DeleteRows \/ CommitClear \/ ClearRaises
  \/ Crash \/ Restart

Spec == Init /\ [][Next]_vars

-------------------------------------------------------------------------------
(* Properties *)

DistinctIds(s) == \A i, j \in DOMAIN s : s[i].id = s[j].id => i = j

\* The shape of the store.  Neither the deque, nor the table, nor what a restart
\* would load ever shows one alert id twice, whatever fails in between.
TypeOK ==
  /\ pc \in {"idle", "insert", "commit", "delete", "commitClear", "down"}
  /\ adding \in {<<>>} \cup {<<a>> : a \in Alert}
  /\ pc \in {"insert", "commit"} <=> adding # <<>>
  /\ items \in Seq(Alert) /\ DistinctIds(items) /\ Len(items) <= MaxItems
  /\ rows \in Seq(Alert) /\ DistinctIds(rows)
  /\ durable \in Seq(Alert) /\ DistinctIds(durable)
  /\ before \in Seq(Alert)
  /\ acked \subseteq {a.id : a \in Alert}
  /\ failed \subseteq {a.id : a \in Alert}
  /\ reported \subseteq Alert
  /\ reraised \in BOOLEAN

\* "Alerts persist to SQLite": an alert whose add returned is in the committed
\* table, also when the process dies in a later call.
AckedDurable == acked \subseteq Ids(durable)

\* An alert that is shown from memory but not committed is one whose caller got
\* an exception, or whose add is still running: no add loses its row silently.
UnsavedWereRefused ==
  Ids(items) \ Ids(durable) \subseteq failed \cup Ids(adding)

\* After a clear that returned, no older alert comes back, neither from memory
\* nor from the table after a restart, whatever failed or crashed in between.
NothingResurrected ==
  Elements(items) \cup Elements(rows) \cup Elements(durable) \subseteq reported

\* Between calls, a restart would load exactly what the deque shows, unless an
\* id was raised again after the deque had dropped it (its row keeps its place).
ReopenAgrees ==
  pc = "idle" /\ ~reraised => items = Recent(durable, MaxItems)

\* The promise, seen from outside: a call takes effect when it commits.
Log == INSTANCE AlertLog WITH
  view <- IF pc = "idle" THEN items
          ELSE IF pc = "down" THEN Recent(durable, MaxItems) ELSE before,
  log <- durable

ImplementsLog == Log!LogSpec
===============================================================================
