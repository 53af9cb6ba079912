--------------------------- MODULE AlertStoreProofs ---------------------------
(***************************************************************************)
(* Proofs about AlertStore for every set of alerts and every capacity: its *)
(* shape, what may be missing from the table when SQLite calls raise, and, *)
(* when they do not, that acknowledged alerts survive crashes and that the *)
(* store implements AlertLog.                                              *)
(***************************************************************************)
EXTENDS AlertStore, BoundedSeqProofs

-------------------------------------------------------------------------------
(* Ids *)

LEMMA AppendIds ==
  ASSUME NEW s \in Seq(Alert), NEW a \in Alert
  PROVE  Ids(Append(s, a)) = Ids(s) \cup {a.id}
BY AppendAddsElement DEF Ids

LEMMA RecentIds ==
  ASSUME NEW s \in Seq(Alert)
  PROVE  Ids(Recent(s, MaxItems)) \subseteq Ids(s)
<1>1. Elements(Recent(s, MaxItems)) \subseteq Elements(s)
  BY RecentElements, AlertStoreAssumption
<1> QED
  BY <1>1 DEF Ids

LEMMA EmptyIds == Elements(<<>>) = {} /\ Ids(<<>>) = {} /\ DistinctIds(<<>>)
BY EmptySeq DEF Elements, Ids, DistinctIds

(* An alert with a new id can be appended without repeating an id. *)
LEMMA AppendDistinct ==
  ASSUME NEW s \in Seq(Alert), DistinctIds(s), NEW a \in Alert, a.id \notin Ids(s)
  PROVE  DistinctIds(Append(s, a))
<1> DEFINE t == Append(s, a)
<1>1. /\ t \in Seq(Alert)
      /\ Len(t) = Len(s) + 1
      /\ \A i \in 1..Len(s) : t[i] = s[i]
      /\ t[Len(s) + 1] = a
  BY AppendElements
<1>2. /\ DOMAIN s = 1..Len(s)
      /\ Len(s) \in Nat
  BY LenProperties
<1> HIDE DEF t
<1>3. DOMAIN t = 1..(Len(s) + 1)
  BY <1>1, <1>2, LenProperties
<1>4. \A i \in 1..Len(s) : s[i].id # a.id
  BY <1>2 DEF Ids, Elements
<1>5. ASSUME NEW i \in 1..(Len(s) + 1), NEW j \in 1..(Len(s) + 1), t[i].id = t[j].id
      PROVE  i = j
  <2>1. CASE i \in 1..Len(s) /\ j \in 1..Len(s)
    <3>1. s[i].id = s[j].id
      BY <1>1, <1>5, <2>1
    <3> QED
      BY <1>2, <2>1, <3>1 DEF DistinctIds
  <2>2. CASE i = Len(s) + 1 \/ j = Len(s) + 1
    BY <1>1, <1>2, <1>4, <1>5, <2>2
  <2> QED
    BY <1>2, <1>5, <2>1, <2>2
<1>6. DistinctIds(t)
  BY <1>3, <1>5 DEF DistinctIds
<1> QED
  BY <1>6 DEF t

(* Dropping the oldest alerts repeats no id. *)
LEMMA RecentDistinct ==
  ASSUME NEW s \in Seq(Alert), DistinctIds(s)
  PROVE  DistinctIds(Recent(s, MaxItems))
<1> DEFINE r == Recent(s, MaxItems)
<1>0. MaxItems \in Nat
  BY AlertStoreAssumption
<1>1. PICK k \in 0..Len(s) :
        /\ r \in Seq(Alert)
        /\ Len(r) = Len(s) - k
        /\ \A i \in 1..(Len(s) - k) : r[i] = s[k + i]
  BY <1>0, RecentProperties
<1> HIDE DEF r
<1>2. /\ DOMAIN r = 1..Len(r)
      /\ DOMAIN s = 1..Len(s)
      /\ Len(s) \in Nat
  BY <1>1, LenProperties
<1>3. ASSUME NEW i \in 1..Len(r), NEW j \in 1..Len(r), r[i].id = r[j].id
      PROVE  i = j
  <2>1. k + i \in DOMAIN s /\ k + j \in DOMAIN s
    BY <1>1, <1>2
  <2>2. s[k + i].id = s[k + j].id
    BY <1>1, <1>3
  <2>3. k + i = k + j
    BY <2>1, <2>2 DEF DistinctIds
  <2> QED
    BY <1>1, <1>2, <2>3
<1> QED
  BY <1>2, <1>3 DEF DistinctIds, r

(* The deque after an append, and after a start: a bounded sequence of alerts. *)
LEMMA RecentIsBounded ==
  ASSUME NEW s \in Seq(Alert)
  PROVE  /\ Recent(s, MaxItems) \in Seq(Alert)
         /\ Len(Recent(s, MaxItems)) <= MaxItems
BY RecentProperties, AlertStoreAssumption

-------------------------------------------------------------------------------
(* Shape *)

(* One step keeps the shape of the store, whichever step it is. *)
LEMMA StepKeepsType == TypeOK /\ [Next]_vars => TypeOK'
<1> SUFFICES ASSUME TypeOK, [Next]_vars
             PROVE  TypeOK'
  OBVIOUS
<1> USE DEF TypeOK
<1>0. <<>> \in Seq(Alert) /\ DistinctIds(<<>>) /\ Len(<<>>) <= MaxItems
  BY EmptySeq, EmptyIds, AlertStoreAssumption
<1>1. ASSUME NEW a \in Alert, AddDuplicate(a)
      PROVE  TypeOK'
  BY <1>1 DEF AddDuplicate, IsShown, Ids, DistinctIds
<1>2. ASSUME NEW a \in Alert, AddAppends(a)
      PROVE  TypeOK'
  <2>1. Append(items, a) \in Seq(Alert) /\ DistinctIds(Append(items, a))
    BY <1>2, AppendDistinct, AppendElements DEF AddAppends, IsShown
  <2>2. /\ items' = Recent(Append(items, a), MaxItems)
        /\ adding' = <<a>> /\ adding' # <<>>
        /\ pc' = "insert"
    BY <1>2 DEF AddAppends, IsShown
  <2>3. items' \in Seq(Alert) /\ DistinctIds(items') /\ Len(items') <= MaxItems
    BY <2>1, <2>2, RecentDistinct, RecentIsBounded
  <2>4. reported' \subseteq Alert
    BY <1>2 DEF AddAppends, IsShown
  <2> QED
    BY <1>2, <2>2, <2>3, <2>4 DEF AddAppends, IsShown, DistinctIds
<1>3. CASE InsertRow
  <2>1. PICK a \in Alert : adding = <<a>> /\ adding[1] = a
    BY <1>3 DEF InsertRow
  <2>2. rows' = rows \/ (a.id \notin Ids(rows) /\ rows' = Append(rows, a))
    BY <1>3, <2>1 DEF InsertRow
  <2>3. rows' \in Seq(Alert) /\ DistinctIds(rows')
    <3>1. CASE rows' = rows
      BY <3>1
    <3>2. CASE a.id \notin Ids(rows) /\ rows' = Append(rows, a)
      BY <3>2, AppendDistinct, AppendElements
    <3> QED
      BY <2>2, <3>1, <3>2
  <2>4. reraised' \in BOOLEAN
    BY <1>3 DEF InsertRow
  <2> QED
    BY <1>3, <2>1, <2>3, <2>4 DEF InsertRow, DistinctIds
<1>4. CASE CommitAdd
  <2>1. adding[1].id \in {a.id : a \in Alert}
    BY <1>4 DEF CommitAdd
  <2> QED
    BY <1>4, <2>1 DEF CommitAdd, EndCall, DistinctIds
<1>5. CASE AddRaises
  <2>1. adding[1].id \in {a.id : a \in Alert}
    BY <1>5 DEF AddRaises
  <2> QED
    BY <1>5, <2>1 DEF AddRaises, EndCall, DistinctIds
<1>6. CASE ClearItems
  BY <1>0, <1>6 DEF ClearItems, DistinctIds
<1>7. CASE DeleteRows
  BY <1>0, <1>7 DEF DeleteRows, DistinctIds
<1>8. CASE CommitClear
  BY <1>8 DEF CommitClear, EndCall, DistinctIds
<1>9. CASE ClearRaises
  BY <1>9 DEF ClearRaises, EndCall, DistinctIds
<1>10. CASE Crash
  BY <1>0, <1>10 DEF Crash, DistinctIds
<1>11. CASE Restart
  <2>1. items' = Recent(rows, MaxItems)
    BY <1>11 DEF Restart
  <2>2. items' \in Seq(Alert) /\ DistinctIds(items') /\ Len(items') <= MaxItems
    BY <2>1, RecentDistinct, RecentIsBounded
  <2> QED
    BY <1>11, <2>2 DEF Restart, DistinctIds
<1>12. CASE UNCHANGED vars
  BY <1>12 DEF vars, DistinctIds
<1> QED
  BY <1>1, <1>2, <1>3, <1>4, <1>5, <1>6, <1>7, <1>8, <1>9, <1>10, <1>11, <1>12 DEF Next

(* No failure makes the deque or the table repeat an id or exceed its bound. *)
THEOREM StoreTypeCorrect == Spec => []TypeOK
<1>1. Init => TypeOK
  <2>1. <<>> \in Seq(Alert) /\ DistinctIds(<<>>) /\ Len(<<>>) <= MaxItems
    BY EmptySeq, EmptyIds, AlertStoreAssumption
  <2>2. SUFFICES ASSUME Init
                 PROVE  TypeOK
    OBVIOUS
  <2>3. items = <<>> /\ rows = <<>> /\ durable = <<>> /\ before = <<>>
    BY <2>2 DEF Init
  <2> QED
    BY <2>1, <2>2, <2>3 DEF Init, TypeOK
<1> QED
  BY <1>1, StepKeepsType, PTL DEF Spec

-------------------------------------------------------------------------------
(* What memory and the table may disagree on *)

\* Where the running call is decides what it has already changed.
CallInv ==
  /\ pc = "commit" => adding[1].id \in Ids(rows)
  /\ pc \in {"delete", "commitClear"} => items = <<>>
  /\ pc = "commitClear" => rows = <<>>
  /\ pc = "down" => items = <<>> /\ rows = durable

\* An alert of the deque that has no row, in this connection's view or in the
\* committed table, is the one being added or one whose add raised.
UnsavedInv ==
  /\ Ids(items) \subseteq Ids(rows) \cup failed \cup Ids(adding)
  /\ Ids(items) \subseteq Ids(durable) \cup failed \cup Ids(adding)

(* The ids of the call in progress. *)
LEMMA AddingIds ==
  ASSUME TypeOK
  PROVE  /\ pc \in {"insert", "commit"} =>
              adding[1] \in Alert /\ Ids(adding) = {adding[1].id}
         /\ pc \notin {"insert", "commit"} => adding = <<>> /\ Ids(adding) = {}
<1>1. ASSUME NEW a \in Alert
      PROVE  Ids(<<a>>) = {a.id} /\ <<a>>[1] = a
  <2>1. DOMAIN <<a>> = {1} /\ <<a>>[1] = a
    OBVIOUS
  <2> QED
    BY <2>1 DEF Ids, Elements
<1>2. CASE pc \in {"insert", "commit"}
  <2>1. PICK a \in Alert : adding = <<a>>
    BY <1>2 DEF TypeOK
  <2> QED
    BY <1>1, <1>2, <2>1
<1>3. CASE pc \notin {"insert", "commit"}
  BY <1>3, EmptyIds DEF TypeOK
<1> QED
  BY <1>2, <1>3

(* Executing the insert leaves a row with the id, and the rows that were there. *)
LEMMA InsertRowIds ==
  ASSUME TypeOK, InsertRow
  PROVE  Ids(rows') = Ids(rows) \cup {adding[1].id}
<1>1. adding[1] \in Alert /\ rows \in Seq(Alert)
  BY AddingIds DEF TypeOK, InsertRow
<1>2. CASE adding[1].id \in Ids(rows)
  BY <1>2 DEF InsertRow
<1>3. CASE adding[1].id \notin Ids(rows)
  <2>1. rows' = Append(rows, adding[1])
    BY <1>3 DEF InsertRow
  <2> QED
    BY <1>1, <2>1, AppendIds
<1> QED
  BY <1>2, <1>3

LEMMA StepKeepsCallInv == TypeOK /\ CallInv /\ [Next]_vars => CallInv'
<1> SUFFICES ASSUME TypeOK, CallInv, [Next]_vars
             PROVE  CallInv'
  OBVIOUS
<1> USE DEF CallInv
<1>1. CASE \E a \in Alert : AddDuplicate(a)
  BY <1>1 DEF AddDuplicate, IsShown, Ids
<1>2. CASE \E a \in Alert : AddAppends(a)
  BY <1>2 DEF AddAppends, IsShown
<1>3. CASE InsertRow
  <2>1. adding' = adding /\ pc' = "commit"
    BY <1>3 DEF InsertRow
  <2>2. adding[1].id \in Ids(rows')
    BY <1>3, InsertRowIds
  <2>3. Ids(rows)' = Ids(rows')
    BY DEF Ids, Elements
  <2> QED
    BY <2>1, <2>2, <2>3
<1>4. CASE CommitAdd \/ AddRaises \/ CommitClear \/ ClearRaises
  <2>1. pc' = "idle"
    BY <1>4 DEF CommitAdd, AddRaises, CommitClear, ClearRaises, EndCall
  <2> QED
    BY <2>1
<1>5. CASE ClearItems \/ DeleteRows \/ Crash \/ Restart
  BY <1>5 DEF ClearItems, DeleteRows, Crash, Restart
<1>6. CASE UNCHANGED vars
  BY <1>6 DEF vars, Ids
<1> QED
  BY <1>1, <1>2, <1>3, <1>4, <1>5, <1>6 DEF Next

LEMMA StepKeepsUnsavedInv ==
  TypeOK /\ CallInv /\ UnsavedInv /\ [Next]_vars => UnsavedInv'
<1> SUFFICES ASSUME TypeOK, CallInv, UnsavedInv, [Next]_vars
             PROVE  /\ Ids(items') \subseteq Ids(rows') \cup failed' \cup Ids(adding')
                    /\ Ids(items') \subseteq Ids(durable') \cup failed' \cup Ids(adding')
  BY DEF UnsavedInv, Ids, Elements
<1> USE DEF UnsavedInv
<1>0. TypeOK'
  BY StepKeepsType
<1>00. /\ pc' \notin {"insert", "commit"} => Ids(adding') = {}
       /\ pc \notin {"insert", "commit"} => Ids(adding) = {}
       /\ pc \in {"insert", "commit"} => Ids(adding) = {adding[1].id}
  <2>1. pc' \notin {"insert", "commit"} => adding' = <<>>
    BY <1>0 DEF TypeOK
  <2> QED
    BY <2>1, AddingIds, EmptyIds
<1>1. CASE \E a \in Alert : AddDuplicate(a)
  BY <1>1 DEF AddDuplicate, IsShown
<1>2. ASSUME NEW a \in Alert, AddAppends(a)
      PROVE  /\ Ids(items') \subseteq Ids(rows') \cup failed' \cup Ids(adding')
             /\ Ids(items') \subseteq Ids(durable') \cup failed' \cup Ids(adding')
  <2>1. /\ items' = Recent(Append(items, a), MaxItems)
        /\ rows' = rows /\ durable' = durable /\ failed' = failed
        /\ adding' = <<a>>
        /\ pc = "idle"
    BY <1>2 DEF AddAppends, IsShown
  <2>2. Append(items, a) \in Seq(Alert) /\ Ids(Append(items, a)) = Ids(items) \cup {a.id}
    BY AppendElements, AppendIds DEF TypeOK
  <2>3. Ids(items') \subseteq Ids(items) \cup {a.id}
    BY <2>1, <2>2, RecentIds
  <2>4. Ids(adding') = {a.id}
    <3>1. DOMAIN <<a>> = {1} /\ <<a>>[1] = a
      OBVIOUS
    <3> QED
      BY <2>1, <3>1 DEF Ids, Elements
  <2> QED
    BY <1>00, <2>1, <2>3, <2>4
<1>3. CASE InsertRow
  <2>1. Ids(rows') = Ids(rows) \cup {adding[1].id}
    BY <1>3, InsertRowIds
  <2> QED
    BY <1>3, <2>1 DEF InsertRow
<1>4. CASE CommitAdd
  <2>1. adding[1].id \in Ids(rows)
    BY <1>4 DEF CommitAdd, CallInv
  <2> QED
    BY <1>00, <1>4, <2>1 DEF CommitAdd, EndCall
<1>5. CASE AddRaises
  <2>1. rows' = rows \/ rows' = durable
    BY <1>5 DEF AddRaises
  <2> QED
    BY <1>00, <1>5, <2>1 DEF AddRaises, EndCall
<1>6. CASE ClearItems \/ DeleteRows \/ CommitClear \/ ClearRaises \/ Crash
  <2>1. items' = <<>>
    BY <1>6 DEF ClearItems, DeleteRows, CommitClear, ClearRaises, Crash, CallInv
  <2> QED
    BY <2>1, EmptyIds
<1>7. CASE Restart
  <2>1. items' = Recent(rows, MaxItems) /\ rows' = rows /\ durable' = rows
    BY <1>7 DEF Restart, CallInv
  <2>2. Ids(items') \subseteq Ids(rows)
    BY <2>1, RecentIds DEF TypeOK
  <2> QED
    BY <2>1, <2>2
<1>8. CASE UNCHANGED vars
  BY <1>8 DEF vars
<1> QED
  BY <1>1, <1>2, <1>3, <1>4, <1>5, <1>6, <1>7, <1>8 DEF Next

LEMMA CallAndUnsavedInvCorrect == Spec => [](CallInv /\ UnsavedInv)
<1>1. Init => CallInv /\ UnsavedInv
  <2>1. SUFFICES ASSUME Init
                 PROVE  CallInv /\ UnsavedInv
    OBVIOUS
  <2>2. pc = "idle" /\ items = <<>>
    BY <2>1 DEF Init
  <2> QED
    BY <2>2, EmptyIds DEF CallInv, UnsavedInv
<1> QED
  BY <1>1, StepKeepsCallInv, StepKeepsUnsavedInv, StoreTypeCorrect, PTL DEF Spec

(* However SQLite fails: an alert shown from memory without a committed row is  *)
(* the one being added, or its caller was given the exception.                  *)
THEOREM UnsavedAlertsWereRefused == Spec => []UnsavedWereRefused
<1>1. UnsavedInv => UnsavedWereRefused
  BY DEF UnsavedInv, UnsavedWereRefused
<1> QED
  BY <1>1, CallAndUnsavedInvCorrect, PTL

-------------------------------------------------------------------------------
(* What a clear that returned has removed *)

ReportedInv ==
  /\ Elements(items) \subseteq reported
  /\ Elements(rows) \subseteq reported
  /\ Elements(durable) \subseteq reported
  /\ Elements(adding) \subseteq reported

LEMMA StepKeepsReportedInv ==
  TypeOK /\ CallInv /\ ReportedInv /\ [Next]_vars => ReportedInv'
<1> SUFFICES ASSUME TypeOK, CallInv, ReportedInv, [Next]_vars
             PROVE  /\ Elements(items') \subseteq reported'
                    /\ Elements(rows') \subseteq reported'
                    /\ Elements(durable') \subseteq reported'
                    /\ Elements(adding') \subseteq reported'
  BY DEF ReportedInv, Elements
<1> USE DEF ReportedInv
<1>0. Elements(<<>>) = {}
  BY EmptyIds
<1>1. CASE \E a \in Alert : AddDuplicate(a)
  BY <1>1 DEF AddDuplicate, IsShown
<1>2. ASSUME NEW a \in Alert, AddAppends(a)
      PROVE  /\ Elements(items') \subseteq reported'
             /\ Elements(rows') \subseteq reported'
             /\ Elements(durable') \subseteq reported'
             /\ Elements(adding') \subseteq reported'
  <2>1. /\ items' = Recent(Append(items, a), MaxItems)
        /\ rows' = rows /\ durable' = durable
        /\ adding' = <<a>>
        /\ reported' = reported \cup {a}
    BY <1>2 DEF AddAppends, IsShown
  <2>2. /\ Append(items, a) \in Seq(Alert)
        /\ Elements(Append(items, a)) = Elements(items) \cup {a}
    BY AppendElements, AppendAddsElement DEF TypeOK
  <2>3. Elements(items') \subseteq Elements(items) \cup {a}
    BY <2>1, <2>2, RecentElements, AlertStoreAssumption
  <2>4. Elements(adding') = {a}
    <3>1. DOMAIN <<a>> = {1} /\ <<a>>[1] = a
      OBVIOUS
    <3> QED
      BY <2>1, <3>1 DEF Elements
  <2> QED
    BY <2>1, <2>3, <2>4
<1>3. CASE InsertRow
  <2>1. adding[1] \in Alert /\ adding[1] \in Elements(adding)
    BY <1>3, AddingIds DEF InsertRow, TypeOK, Elements
  <2>2. Elements(rows') \subseteq Elements(rows) \cup {adding[1]}
    <3>1. Elements(Append(rows, adding[1])) = Elements(rows) \cup {adding[1]}
      BY <2>1, AppendAddsElement DEF TypeOK
    <3>2. rows' = rows \/ rows' = Append(rows, adding[1])
      BY <1>3 DEF InsertRow
    <3> QED
      BY <3>1, <3>2
  <2> QED
    BY <1>3, <2>1, <2>2 DEF InsertRow
<1>4. CASE CommitAdd \/ AddRaises
  <2>1. /\ items' = items /\ reported' = reported /\ adding' = <<>>
        /\ rows' \in {rows, durable} /\ durable' \in {rows, durable}
    BY <1>4 DEF CommitAdd, AddRaises, EndCall
  <2> QED
    BY <1>0, <2>1
<1>5. CASE ClearItems \/ DeleteRows \/ ClearRaises \/ Crash
  <2>1. /\ items' = <<>> /\ reported' = reported
        /\ adding' \in {<<>>, adding}
        /\ rows' \in {<<>>, rows, durable} /\ durable' = durable
    BY <1>5 DEF ClearItems, DeleteRows, ClearRaises, Crash, EndCall, CallInv
  <2> QED
    BY <1>0, <2>1
<1>6. CASE CommitClear
  <2>1. items' = <<>> /\ rows' = <<>> /\ durable' = <<>> /\ adding' = <<>>
    BY <1>6 DEF CommitClear, EndCall, CallInv
  <2> QED
    BY <1>0, <2>1
<1>7. CASE Restart
  <2>1. /\ items' = Recent(rows, MaxItems) /\ reported' = reported
        /\ rows' = rows /\ durable' = durable /\ adding' = adding
    BY <1>7 DEF Restart
  <2>2. Elements(items') \subseteq Elements(rows)
    BY <2>1, RecentElements, AlertStoreAssumption DEF TypeOK
  <2> QED
    BY <2>1, <2>2
<1>8. CASE UNCHANGED vars
  BY <1>8 DEF vars
<1> QED
  BY <1>1, <1>2, <1>3, <1>4, <1>5, <1>6, <1>7, <1>8 DEF Next

(* However SQLite fails and whenever the process dies: once a clear returned,   *)
(* no alert from before it is in the deque, the table or a restarted store.     *)
THEOREM ClearedStaysCleared == Spec => []NothingResurrected
<1>1. Init => ReportedInv
  <2>1. SUFFICES ASSUME Init
                 PROVE  ReportedInv
    OBVIOUS
  <2>2. items = <<>> /\ rows = <<>> /\ durable = <<>> /\ adding = <<>>
    BY <2>1 DEF Init
  <2> QED
    BY <2>2, EmptyIds DEF ReportedInv
<1>2. ReportedInv => NothingResurrected
  BY DEF ReportedInv, NothingResurrected
<1> QED
  BY <1>1, <1>2, StepKeepsReportedInv, CallAndUnsavedInvCorrect, StoreTypeCorrect,
     PTL DEF Spec

-------------------------------------------------------------------------------
(* When SQLite does not fail *)

\* The table follows the call in progress exactly.
SavedInv ==
  /\ failed = {}
  /\ acked \subseteq Ids(durable)
  /\ pc \in {"delete", "commitClear"} => acked = {}
  /\ pc \notin {"commit", "commitClear"} => rows = durable
  /\ pc \in {"insert", "commit"} =>
       /\ items = Recent(Append(before, adding[1]), MaxItems)
       /\ adding[1].id \notin Ids(before)
  /\ pc = "commit" => rows = IF adding[1].id \in Ids(durable)
                             THEN durable ELSE Append(durable, adding[1])

LEMMA StepKeepsSavedInv ==
  ASSUME ~DbFails
  PROVE  TypeOK /\ CallInv /\ UnsavedInv /\ SavedInv /\ [Next]_vars => SavedInv'
<1> SUFFICES ASSUME TypeOK, CallInv, UnsavedInv, SavedInv, [Next]_vars
             PROVE  SavedInv'
  OBVIOUS
<1> USE DEF SavedInv
<1>1. ASSUME NEW a \in Alert, AddDuplicate(a)
      PROVE  SavedInv'
  <2>1. a.id \in Ids(durable)
    BY <1>1, AddingIds DEF AddDuplicate, IsShown, UnsavedInv
  <2> QED
    BY <1>1, <2>1 DEF AddDuplicate, IsShown, Ids, Elements
<1>2. ASSUME NEW a \in Alert, AddAppends(a)
      PROVE  SavedInv'
  <2>1. <<a>>[1] = a
    OBVIOUS
  <2>2. /\ pc = "idle" /\ pc' = "insert"
        /\ a.id \notin Ids(items)
        /\ adding' = <<a>> /\ before' = items
        /\ items' = Recent(Append(items, a), MaxItems)
        /\ UNCHANGED <<rows, durable, acked, failed>>
    BY <1>2 DEF AddAppends, IsShown
  <2>3. Ids(before)' = Ids(items) /\ Ids(durable)' = Ids(durable)
    BY <2>2 DEF Ids, Elements
  <2> QED
    BY <2>1, <2>2, <2>3
<1>3. CASE InsertRow
  <2>1. /\ pc = "insert" /\ pc' = "commit"
        /\ rows = durable
        /\ UNCHANGED <<adding, items, durable, before, acked, failed>>
        /\ rows' = IF adding[1].id \in Ids(rows) THEN rows ELSE Append(rows, adding[1])
    BY <1>3 DEF InsertRow
  <2>2. Ids(before)' = Ids(before) /\ Ids(durable)' = Ids(durable)
    BY <2>1 DEF Ids, Elements
  <2> QED
    BY <2>1, <2>2
<1>4. CASE CommitAdd
  <2>1. adding[1] \in Alert /\ durable \in Seq(Alert) /\ adding[1].id \in Ids(rows)
    BY <1>4, AddingIds DEF CommitAdd, TypeOK, CallInv
  <2>2. Ids(durable) \subseteq Ids(rows)
    BY <1>4, <2>1, AppendIds DEF CommitAdd
  <2>3. Ids(durable)' = Ids(rows)
    BY <1>4 DEF CommitAdd, Ids, Elements
  <2> QED
    BY <1>4, <2>1, <2>2, <2>3 DEF CommitAdd, EndCall
<1>5. CASE AddRaises \/ ClearRaises
  BY <1>5 DEF AddRaises, ClearRaises
<1>6. CASE ClearItems \/ DeleteRows
  <2>1. durable' = durable
    BY <1>6 DEF ClearItems, DeleteRows
  <2>2. Ids(durable)' = Ids(durable)
    BY <2>1 DEF Ids, Elements
  <2> QED
    BY <1>6, <2>1, <2>2 DEF ClearItems, DeleteRows
<1>7. CASE CommitClear
  BY <1>7, EmptyIds DEF CommitClear, EndCall
<1>8. CASE Crash \/ Restart
  <2>1. durable' = durable /\ rows' = durable
    BY <1>8 DEF Crash, Restart
  <2>2. Ids(durable)' = Ids(durable)
    BY <2>1 DEF Ids, Elements
  <2> QED
    BY <1>8, <2>1, <2>2 DEF Crash, Restart
<1>9. CASE UNCHANGED vars
  BY <1>9 DEF vars, Ids, Elements
<1> QED
  BY <1>1, <1>2, <1>3, <1>4, <1>5, <1>6, <1>7, <1>8, <1>9 DEF Next

LEMMA SavedInvCorrect ==
  ASSUME ~DbFails
  PROVE  Spec => []SavedInv
<1>1. Init => SavedInv
  BY DEF Init, SavedInv
<1> QED
  BY <1>1, StepKeepsSavedInv, CallAndUnsavedInvCorrect, StoreTypeCorrect, PTL DEF Spec

(* An alert whose add returned is committed, and a crash at any later point     *)
(* leaves it in the table, as long as SQLite calls do not raise.                *)
THEOREM AcknowledgedAlertsAreDurable ==
  ASSUME ~DbFails
  PROVE  Spec => []AckedDurable
<1>1. SavedInv => AckedDurable
  BY DEF SavedInv, AckedDurable
<1> QED
  BY <1>1, SavedInvCorrect, PTL

\* The deque and the newest rows are the same list, as far as the call got.
AgreeInv ==
  /\ pc = "idle" /\ ~reraised => items = Recent(durable, MaxItems)
  /\ pc = "insert" /\ ~reraised => before = Recent(durable, MaxItems)
  /\ pc = "commit" /\ ~reraised => items = Recent(rows, MaxItems)

LEMMA StepKeepsAgreeInv ==
  ASSUME ~DbFails
  PROVE  TypeOK /\ CallInv /\ SavedInv /\ AgreeInv /\ [Next]_vars => AgreeInv'
<1> SUFFICES ASSUME TypeOK, CallInv, SavedInv, AgreeInv, [Next]_vars
             PROVE  AgreeInv'
  OBVIOUS
<1> USE DEF AgreeInv
<1>0. Recent(<<>>, MaxItems) = <<>>
  BY EmptySeq, AlertStoreAssumption DEF Recent
<1>1. CASE \E a \in Alert : AddDuplicate(a)
  BY <1>1 DEF AddDuplicate, IsShown
<1>2. CASE \E a \in Alert : AddAppends(a)
  BY <1>2 DEF AddAppends, IsShown
<1>3. CASE InsertRow
  <2> SUFFICES ASSUME ~reraised'
               PROVE  items' = Recent(rows', MaxItems)
    BY <1>3 DEF InsertRow
  <2>1. /\ adding[1].id \notin Ids(rows) /\ ~reraised
        /\ rows = durable /\ items' = items
        /\ rows' = Append(rows, adding[1])
    BY <1>3 DEF InsertRow, SavedInv
  <2>2. /\ before = Recent(durable, MaxItems)
        /\ items = Recent(Append(before, adding[1]), MaxItems)
        /\ adding[1] \in Alert
    BY <1>3, <2>1, AddingIds DEF InsertRow, SavedInv
  <2>3. durable \in Seq(Alert) /\ MaxItems \in Nat
    BY AlertStoreAssumption DEF TypeOK
  <2> QED
    BY <2>1, <2>2, <2>3, RecentOfAppend
<1>4. CASE CommitAdd
  BY <1>4 DEF CommitAdd, EndCall
<1>5. CASE AddRaises \/ ClearRaises
  BY <1>5 DEF AddRaises, ClearRaises
<1>6. CASE ClearItems \/ DeleteRows
  BY <1>6 DEF ClearItems, DeleteRows
<1>7. CASE CommitClear
  BY <1>0, <1>7 DEF CommitClear, EndCall, CallInv
<1>8. CASE Crash
  BY <1>8 DEF Crash
<1>9. CASE Restart
  BY <1>9 DEF Restart, CallInv
<1>10. CASE UNCHANGED vars
  BY <1>10 DEF vars
<1> QED
  BY <1>1, <1>2, <1>3, <1>4, <1>5, <1>6, <1>7, <1>8, <1>9, <1>10 DEF Next

(* A restart changes nothing a reader could see, unless an id was raised again  *)
(* after the deque had dropped it.                                              *)
THEOREM RestartIsInvisible ==
  ASSUME ~DbFails
  PROVE  Spec => []ReopenAgrees
<1>1. Init => AgreeInv
  <2>1. Recent(<<>>, MaxItems) = <<>>
    BY EmptySeq, AlertStoreAssumption DEF Recent
  <2> QED
    BY <2>1 DEF Init, AgreeInv
<1>2. AgreeInv => ReopenAgrees
  BY DEF AgreeInv, ReopenAgrees
<1>3. TypeOK /\ CallInv /\ SavedInv /\ AgreeInv /\ [Next]_vars => AgreeInv'
  BY StepKeepsAgreeInv
<1> QED
  BY <1>1, <1>2, <1>3, SavedInvCorrect, CallAndUnsavedInvCorrect, StoreTypeCorrect,
     PTL DEF Spec

-------------------------------------------------------------------------------
(* AlertStore implements AlertLog *)

\* The abstract view, as a definition of this module.
View == IF pc = "idle" THEN items
        ELSE IF pc = "down" THEN Recent(durable, MaxItems) ELSE before

\* The operators of BoundedSeq mean the same in the instance.
LEMMA SameOperators ==
  /\ \A s, n : Log!Recent(s, n) = Recent(s, n)
  /\ \A s : Log!Ids(s) = Ids(s)
BY DEF Log!Recent, Recent, Log!Ids, Ids, Log!Elements, Elements

LEMMA InitImplementsLog == Init => Log!LogInit
BY DEF Init, Log!LogInit

(* A commit is the step at which a report or a clear takes effect, a crash is a *)
(* reopening of the log, and every other step is invisible.                     *)
LEMMA StepImplementsLog ==
  ASSUME ~DbFails
  PROVE  TypeOK /\ CallInv /\ SavedInv /\ [Next]_vars
           => [Log!LogNext]_<<View, durable>>
<1> SUFFICES ASSUME TypeOK, CallInv, SavedInv, [Next]_vars
             PROVE  [Log!LogNext]_<<View, durable>>
  OBVIOUS
<1>1. CASE \E a \in Alert : AddDuplicate(a)
  BY <1>1 DEF AddDuplicate, IsShown, View
<1>2. CASE \E a \in Alert : AddAppends(a)
  BY <1>2 DEF AddAppends, IsShown, View
<1>3. CASE InsertRow
  BY <1>3 DEF InsertRow, View
<1>4. CASE CommitAdd
  <2> DEFINE a == adding[1]
  <2>1. a \in Alert
    BY <1>4, AddingIds DEF CommitAdd
  <2>2. /\ View = before
        /\ a.id \notin Ids(before)
        /\ items = Recent(Append(before, a), MaxItems)
        /\ rows = IF a.id \in Ids(durable) THEN durable ELSE Append(durable, a)
    BY <1>4 DEF CommitAdd, SavedInv, View
  <2>3. View' = items /\ durable' = rows
    BY <1>4 DEF CommitAdd, EndCall, View
  <2> HIDE DEF a
  <2>4. Log!Report(a)
    BY <2>2, <2>3, SameOperators DEF Log!Report, Log!Inserted, View
  <2> QED
    BY <2>1, <2>4 DEF Log!LogNext
<1>5. CASE AddRaises \/ ClearRaises
  BY <1>5 DEF AddRaises, ClearRaises
<1>6. CASE ClearItems
  BY <1>6 DEF ClearItems, View
<1>7. CASE DeleteRows
  BY <1>7 DEF DeleteRows, View
<1>8. CASE CommitClear
  <2>1. View' = <<>> /\ durable' = <<>>
    BY <1>8 DEF CommitClear, EndCall, CallInv, View
  <2> QED
    BY <2>1 DEF Log!LogNext, Log!Clear, View
<1>9. CASE Crash
  <2>1. View' = Recent(durable, MaxItems) /\ durable' = durable
    BY <1>9 DEF Crash, View
  <2> QED
    BY <2>1, SameOperators DEF Log!LogNext, Log!Reopen, View
<1>10. CASE Restart
  <2>1. View = Recent(durable, MaxItems) /\ View' = Recent(durable, MaxItems)
    BY <1>10 DEF Restart, CallInv, View
  <2>2. durable' = durable
    BY <1>10 DEF Restart
  <2> QED
    BY <2>1, <2>2
<1>11. CASE UNCHANGED vars
  BY <1>11 DEF vars, View
<1> QED
  BY <1>1, <1>2, <1>3, <1>4, <1>5, <1>6, <1>7, <1>8, <1>9, <1>10, <1>11 DEF Next

(* Seen from outside, the small steps of the store and its crashes are reports, *)
(* clears and reopenings of an atomic log, as long as SQLite does not raise.    *)
THEOREM StoreImplementsLog ==
  ASSUME ~DbFails
  PROVE  Spec => ImplementsLog
<1>1. TypeOK /\ CallInv /\ SavedInv /\ [Next]_vars
        => [Log!LogNext]_<<View, durable>>
  BY StepImplementsLog
<1> QED
  BY <1>1, InitImplementsLog, SavedInvCorrect, CallAndUnsavedInvCorrect,
     StoreTypeCorrect, PTL DEF Spec, ImplementsLog, Log!LogSpec, View
===============================================================================
