------------------------------- MODULE ApiProofs -------------------------------
(***************************************************************************)
(* What holds of the coroutines and threads of backend/api/main.py for any *)
(* number of requests, sockets and pollers, and captures of any length.    *)
(* The inductive invariant is a conjunction of eight parts, each proved to *)
(* be kept by every step with the help of the earlier ones only.           *)
(***************************************************************************)
EXTENDS Api, BoundedSeqProofs

-------------------------------------------------------------------------------
(* The inductive invariant *)

HostsOf == {Sender[e] : e \in DOMAIN Sender}
StatsType == [received : Nat, accepted : Nat, failed : Nat]
AlertType == [flow : DOMAIN Sender, threat : Threats] \cup Elements(Persisted)
HostType == [host : HostsOf, observations : Nat]
RowType == [host : HostsOf, observations : Nat, baseline_ready : BOOLEAN]
SeenType == [session : Nat, received : Nat, accepted : Nat, failed : Nat]
ListType == [session : Nat, size : Nat, rows : Seq(RowType)]
Phases == {"none", "idle", "received", "accepted", "failed", "windows", "answered",
           "hosts", "host", "observations", "listed", "crashed"}

\* The values of the variables.
SessionShape ==
  /\ statsOf \in Seq(StatsType) /\ statsOf # <<>>
  /\ baselines \in Seq(Seq(HostType)) /\ Len(baselines) = Len(statsOf)
  /\ alerts \in Seq(AlertType) /\ Len(alerts) <= MaxItems

CallShape ==
  /\ loop \in Calls \cup {Free}
  /\ pc \in [Calls -> {"new", "ready", "inside", "scored", "raised", "alert", "metrics"} \cup Ended]
  /\ left \in [Calls -> Nat]
  /\ DOMAIN raised = Ingests /\ DOMAIN attached = Ingests
  /\ metricsOf \in [Ingests -> StatsType]
  /\ todo \in [Ingests -> SUBSET Sockets] /\ dead \in [Ingests -> SUBSET Sockets]

FeedShape ==
  /\ subscribers \subseteq Sockets
  /\ socket \in [Sockets -> {"new", "open", "gone", "closed"}]
  /\ metricsTo \in [Sockets -> StatsType]

PollShape ==
  /\ pollPc \in [Pollers -> Phases]
  /\ seen \in [Pollers -> SeenType]
  /\ listing \in [Pollers -> ListType]
  /\ \A r \in Pollers : seen[r].session \in DOMAIN statsOf
  /\ \A r \in Pollers : listing[r].session \in DOMAIN statsOf
  /\ \A r \in Pollers : pollPc[r] \in {"host", "observations"} => listing[r].rows # <<>>

\* Where the calls are: who processes an event holds the loop, and has one to process.
Control ==
  /\ \A t \in Calls : pc[t] \in {"ready", "inside", "scored", "raised"} => loop = t
  /\ \A t \in Calls : loop = t => pc[t] \notin {"new"} \cup Ended
  /\ \A t \in Calls : Broadcasting(t) => t \in Ingests
  /\ \A t \in Calls : left[t] <= Len(Body[t])
  /\ \A t \in Calls : pc[t] = "new" => left[t] = Len(Body[t])
  /\ \A t \in Calls : pc[t] \in {"inside", "scored"} => left[t] > 0
  /\ \A t \in Ingests : dead[t] # {} \/ todo[t] # {} => Broadcasting(t)

ApiShape == SessionShape /\ CallShape /\ FeedShape /\ PollShape /\ Control

\* At most one event has been received and not counted out, in the newest session,
\* while its call holds the loop; a poller is never ahead of what it has yet to read.
InProcess == \E t \in Calls : pc[t] \in {"inside", "scored"}
SessionsBalanced ==
  /\ \A n \in DOMAIN statsOf :
       \/ Balanced(statsOf[n])
       \/ /\ n = Len(statsOf) /\ InProcess
          /\ statsOf[n].received = statsOf[n].accepted + statsOf[n].failed + 1
  /\ InProcess => ~Balanced(Stats)
SentBalanced ==
  /\ \A t \in Ingests : Balanced(metricsOf[t])
  /\ \A ws \in Sockets : Balanced(metricsTo[ws])

PollersInv ==
  \A r \in Pollers :
    LET s == statsOf[seen[r].session]
    IN  /\ pollPc[r] = "received" => seen[r].received <= s.accepted + s.failed + 1
        /\ pollPc[r] = "accepted" => seen[r].received <= seen[r].accepted + s.failed + 1
        /\ pollPc[r] \notin DOMAIN Fields =>
             seen[r].received <= seen[r].accepted + seen[r].failed + 1

\* A socket found dead has left, so that discarding it disconnects nobody.
SocketsInv ==
  /\ SubscribersAreConnected
  /\ \A t \in Ingests : \A ws \in dead[t] : socket[ws] \in {"gone", "closed"}

\* Until an ingest with an id of its own is done with its event, no alert is of its flow.
OwnAlert(t) ==
  /\ pc[t] = "new" \/ (pc[t] \in {"ready", "inside", "scored"} /\ left[t] > 0) =>
       raised[t] = <<>> /\ \A a \in Elements(alerts) : a.flow # Body[t][1]
  /\ pc[t] = "ready" /\ left[t] = 0 => Attachment(t) = raised[t]
  /\ Broadcasting(t) \/ pc[t] = "returned" => attached[t] = raised[t]
AttachInv == \A t \in Ingests : UniqueId(t) => OwnAlert(t)

\* The session of an upload that has the loop counts its events alone; and the analysis
\* is of the session's upload, unless that is still running or has failed.
AnalysisInv ==
  /\ owner = <<>> \/ \E u \in Uploads : owner = <<u>>
  /\ \A u \in Uploads : pc[u] \in {"ready", "inside", "scored"} =>
       owner = <<u>> /\ Stats.accepted + left[u] = Len(Body[u])
  /\ owner # <<>> => loop = owner[1] \/ pc[owner[1]] \in {"returned", "failed"}
  /\ AnalysisOfOneCapture
  /\ \A a \in Elements(analysis) :
       /\ owner # <<>>
       /\ owner = <<a.upload>> \/ loop = owner[1] \/ pc[owner[1]] = "failed"

\* The rows of a listing follow the hosts of its session; a row whose readiness was read
\* is ready if it has enough, in the newest session; one whose readiness is yet to be
\* read shows no more observations than the host has.
RowsFollow(r) ==
  LET l == listing[r]
      hosts == baselines[l.session]
  IN  /\ l.size <= Len(hosts) /\ Len(l.rows) <= Len(hosts)
      /\ \A i \in DOMAIN l.rows : l.rows[i].host = hosts[i].host
RowFair(r, i) ==
  LET row == listing[r].rows[i]
  IN  IF i = Len(listing[r].rows) /\ pollPc[r] = "observations"
      THEN row.observations <= Observed(listing[r].session, row.host)
      ELSE row.observations >= Warmup /\ ~row.baseline_ready => listing[r].session < Len(baselines)
RowsInv == \A r \in Pollers : RowsFollow(r) /\ \A i \in DOMAIN listing[r].rows : RowFair(r, i)

ApiInv ==
  /\ ApiShape /\ SessionsBalanced /\ SentBalanced /\ PollersInv /\ SocketsInv
  /\ AttachInv /\ AnalysisInv /\ RowsInv

-------------------------------------------------------------------------------
(* Who changes what *)

(* The session changes in the four steps of process and in the resets of an upload. *)
LEMMA SessionMoves ==
  ASSUME [ApiNext]_apiVars
  PROVE  \/ UNCHANGED sessionVars
         \/ \E t \in Calls : Receive(t) \/ Score(t) \/ Accept(t) \/ Reject(t)
         \/ \E u \in Uploads : UploadRead(u) \/ UploadRaises(u)
<1>1. CASE UNCHANGED apiVars
  BY <1>1 DEF apiVars
<1>2. CASE \E t \in Calls : Runs(t) \/ Resume(t)
  BY <1>2 DEF Runs, Resume, IngestRaises, Publish, EndOfAlert, EndOfMetrics, Send, SendsTo,
              ParseRaises, UploadRaises, Analysed
<1>3. CASE \/ \E t \in Ingests : IngestCalled(t)
           \/ \E u \in Uploads : UploadRefused(u) \/ UploadRead(u) \/ UploadReadRaises(u)
           \/ \E ws \in Sockets : Subscribe(ws) \/ ClientLeaves(ws) \/ HandlerEnds(ws)
  BY <1>3 DEF IngestCalled, UploadRefused, UploadReadRaises, Subscribe, ClientLeaves, HandlerEnds
<1>4. CASE \E r \in Pollers : \/ Poll(r) \/ Read(r) \/ ListHosts(r) \/ NextHost(r)
                              \/ ListRaises(r) \/ ReadColumn(r)
                              \/ CountWindows(r) \/ Counted(r)
  BY <1>4 DEF Poll, Read, ListHosts, NextHost, ListRaises, ReadColumn, CountWindows,
              Counted
<1> QED
  BY <1>1, <1>2, <1>3, <1>4 DEF ApiNext

(* The sockets change when they are served, when the dead are discarded, and by themselves. *)
LEMMA FeedMoves ==
  ASSUME [ApiNext]_apiVars
  PROVE  \/ UNCHANGED feedVars /\ UNCHANGED dead
         \/ \E t \in Calls : EndOfAlert(t) \/ EndOfMetrics(t) \/ \E ws \in Sockets : Send(t, ws)
         \/ \E ws \in Sockets : Subscribe(ws) \/ ClientLeaves(ws) \/ HandlerEnds(ws)
<1>1. CASE UNCHANGED apiVars
  BY <1>1 DEF apiVars, castVars
<1>2. CASE \E t \in Calls : Runs(t) \/ Resume(t)
  BY <1>2 DEF Runs, Resume, IngestRaises, Publish, Receive, Score, Accept, Reject,
              ParseRaises, UploadRaises, Analysed, castVars
<1>3. CASE \/ \E t \in Ingests : IngestCalled(t)
           \/ \E u \in Uploads : UploadRefused(u) \/ UploadRead(u) \/ UploadReadRaises(u)
           \/ \E ws \in Sockets : Subscribe(ws) \/ ClientLeaves(ws) \/ HandlerEnds(ws)
  BY <1>3 DEF IngestCalled, UploadRefused, UploadRead, UploadReadRaises, castVars
<1>4. CASE \E r \in Pollers : \/ Poll(r) \/ Read(r) \/ ListHosts(r) \/ NextHost(r)
                              \/ ListRaises(r) \/ ReadColumn(r)
                              \/ CountWindows(r) \/ Counted(r)
  BY <1>4 DEF Poll, Read, ListHosts, NextHost, ListRaises, ReadColumn, CountWindows,
              Counted, castVars
<1> QED
  BY <1>1, <1>2, <1>3, <1>4 DEF ApiNext

(* The metrics to broadcast are read when a broadcast of metrics begins. *)
LEMMA MetricsMoves ==
  ASSUME [ApiNext]_apiVars
  PROVE  \/ metricsOf' = metricsOf
         \/ \E t \in Calls : Publish(t) \/ EndOfAlert(t) \/ \E ws \in Sockets : Send(t, ws)
         \/ \E ws \in Sockets : Subscribe(ws) \/ ClientLeaves(ws) \/ HandlerEnds(ws)
<1>1. CASE UNCHANGED apiVars
  BY <1>1 DEF apiVars, castVars
<1>2. CASE \E t \in Calls : Runs(t) \/ Resume(t)
  BY <1>2 DEF Runs, Resume, IngestRaises, Receive, Score, Accept, Reject, EndOfMetrics,
              ParseRaises, UploadRaises, Analysed, castVars
<1>3. CASE \/ \E t \in Ingests : IngestCalled(t)
           \/ \E u \in Uploads : UploadRefused(u) \/ UploadRead(u) \/ UploadReadRaises(u)
           \/ \E ws \in Sockets : Subscribe(ws) \/ ClientLeaves(ws) \/ HandlerEnds(ws)
  BY <1>3 DEF IngestCalled, UploadRefused, UploadRead, UploadReadRaises, castVars
<1>4. CASE \E r \in Pollers : \/ Poll(r) \/ Read(r) \/ ListHosts(r) \/ NextHost(r)
                              \/ ListRaises(r) \/ ReadColumn(r)
                              \/ CountWindows(r) \/ Counted(r)
  BY <1>4 DEF Poll, Read, ListHosts, NextHost, ListRaises, ReadColumn, CountWindows,
              Counted, castVars
<1> QED
  BY <1>1, <1>2, <1>3, <1>4 DEF ApiNext

(* A sequence is empty when its length is 0. *)
LEMMA NonEmptySeq ==
  ASSUME NEW S, NEW s \in Seq(S)
  PROVE  s # <<>> <=> Len(s) >= 1
<1>1. Len(s) \in Nat /\ (Len(s) = 0 => s = <<>>)
  BY EmptySeq, LenProperties, SeqEqual
<1> QED
  BY <1>1, EmptySeq

(* There is a newest session. *)
LEMMA NewestSession ==
  ASSUME SessionShape
  PROVE  /\ Len(statsOf) \in Nat /\ Len(statsOf) \in 1..Len(statsOf)
         /\ Len(baselines) = Len(statsOf)
         /\ DOMAIN statsOf = 1..Len(statsOf) /\ DOMAIN baselines = 1..Len(statsOf)
         /\ Stats \in StatsType
<1>1. /\ Len(statsOf) \in Nat /\ Len(statsOf) \in 1..Len(statsOf)
      /\ DOMAIN statsOf = 1..Len(statsOf) /\ DOMAIN baselines = 1..Len(baselines)
  BY NonEmptySeq, LenProperties DEF SessionShape
<1> QED
  BY <1>1, ElementOfSeq DEF SessionShape, Stats

(* Counting one event changes one field of the newest session's counters. *)
LEMMA CountEffect ==
  ASSUME NEW field \in {"received", "accepted", "failed"}, SessionShape, Count(field)
  PROVE  /\ statsOf' \in Seq(StatsType) /\ statsOf' # <<>>
         /\ Len(statsOf') = Len(statsOf)
         /\ \A n \in DOMAIN statsOf : n # Len(statsOf) => statsOf'[n] = statsOf[n]
         /\ statsOf'[Len(statsOf)] = [Stats EXCEPT ![field] = @ + 1]
<1>1. /\ Len(statsOf) \in Nat /\ Len(statsOf) \in 1..Len(statsOf)
      /\ DOMAIN statsOf = 1..Len(statsOf) /\ Stats \in StatsType
  BY NewestSession
<1> DEFINE e == [Stats EXCEPT ![field] = @ + 1]
<1>3. e \in StatsType
  BY <1>1 DEF StatsType
<1>4. statsOf' = [statsOf EXCEPT ![Len(statsOf)] = e]
  BY DEF Count, Stats
<1> HIDE DEF e
<1>5. statsOf' \in Seq(StatsType) /\ Len(statsOf') = Len(statsOf)
  BY <1>1, <1>3, <1>4, ExceptSeq DEF SessionShape
<1>6. \A n \in 1..Len(statsOf) : statsOf'[n] = IF n = Len(statsOf) THEN e ELSE statsOf[n]
  BY <1>1, <1>3, <1>4, ExceptSeq DEF SessionShape
<1>7. statsOf' # <<>>
  <2>1. Len(statsOf') >= 1
    BY <1>1, <1>5
  <2> QED
    BY <1>5, <2>1, NonEmptySeq
<1> QED
  BY <1>1, <1>5, <1>6, <1>7 DEF e

(* A reset adds a session with nothing in it. *)
LEMMA ResetEffect ==
  ASSUME NEW u, SessionShape, ResetBy(u)
  PROVE  /\ statsOf' \in Seq(StatsType) /\ statsOf' # <<>>
         /\ Len(statsOf') = Len(statsOf) + 1
         /\ \A n \in DOMAIN statsOf : statsOf'[n] = statsOf[n]
         /\ statsOf'[Len(statsOf')] = NoStats
         /\ baselines' \in Seq(Seq(HostType))
         /\ Len(baselines') = Len(baselines) + 1
         /\ \A n \in DOMAIN baselines : baselines'[n] = baselines[n]
         /\ alerts' = <<>> /\ owner' = <<u>>
<1>1. NoStats \in StatsType /\ <<>> \in Seq(HostType)
  BY EmptySeq DEF NoStats, StatsType
<1>2. /\ DOMAIN statsOf = 1..Len(statsOf) /\ DOMAIN baselines = 1..Len(baselines)
  BY LenProperties DEF SessionShape
<1>3. /\ statsOf' \in Seq(StatsType) /\ statsOf' # <<>>
      /\ Len(statsOf') = Len(statsOf) + 1
      /\ \A n \in 1..Len(statsOf) : statsOf'[n] = statsOf[n]
      /\ statsOf'[Len(statsOf) + 1] = NoStats
  <2> SUFFICES ASSUME NEW s \in Seq(StatsType), s = statsOf
               PROVE  /\ Append(s, NoStats) \in Seq(StatsType) /\ Append(s, NoStats) # <<>>
                      /\ Len(Append(s, NoStats)) = Len(s) + 1
                      /\ \A n \in 1..Len(s) : Append(s, NoStats)[n] = s[n]
                      /\ Append(s, NoStats)[Len(s) + 1] = NoStats
    BY DEF SessionShape, ResetBy
  <2> QED
    BY <1>1, AppendProperties
<1>4. /\ baselines' \in Seq(Seq(HostType))
      /\ Len(baselines') = Len(baselines) + 1
      /\ \A n \in 1..Len(baselines) : baselines'[n] = baselines[n]
  BY <1>1, AppendProperties DEF SessionShape, ResetBy
<1> QED
  BY <1>2, <1>3, <1>4 DEF ResetBy

(* A call that processes an event processes one of its own, of a known sender. *)
LEMMA CurrentOfBody ==
  ASSUME ApiAssumption, CallShape, Control,
         NEW t \in Calls, left[t] > 0
  PROVE  /\ Current(t) \in Elements(Body[t])
         /\ Current(t) \in DOMAIN Sender
         /\ Sender[Current(t)] \in HostsOf
<1>1. Len(Body[t]) \in Nat /\ DOMAIN Body[t] = 1..Len(Body[t])
  BY LenProperties DEF ApiAssumption
<1>2. Len(Body[t]) - left[t] + 1 \in DOMAIN Body[t]
  BY <1>1 DEF CallShape, Control
<1> QED
  BY <1>2 DEF Current, Elements, HostsOf, ApiAssumption

(* behavior.score adds at most a host, without observations, to the newest session. *)
LEMMA ScoreEffect ==
  ASSUME ApiAssumption, ApiShape, NEW t \in Calls, Score(t)
  PROVE  /\ baselines' \in Seq(Seq(HostType))
         /\ Len(baselines') = Len(baselines)
         /\ \A n \in DOMAIN baselines :
              \/ baselines'[n] = baselines[n]
              \/ /\ Known(n, Sender[Current(t)]) = {}
                 /\ baselines'[n] = Append(baselines[n], [host |-> Sender[Current(t)], observations |-> 0])
<1> DEFINE n == Len(baselines)
           row == [host |-> Sender[Current(t)], observations |-> 0]
<1>1. /\ n \in Nat /\ n \in 1..n /\ DOMAIN baselines = 1..n /\ baselines \in Seq(Seq(HostType))
  BY NewestSession DEF ApiShape, SessionShape
<1>2. row \in HostType
  BY CurrentOfBody DEF Score, ApiShape, Control, HostType
<1> HIDE DEF row
<1>3. baselines[n] \in Seq(HostType)
  BY <1>1, ElementOfSeq
<1>4. Append(baselines[n], row) \in Seq(HostType)
  BY <1>2, <1>3, AppendProperties
<1>5. CASE baselines' = baselines
  BY <1>1, <1>5
<1>6. CASE /\ baselines' = [baselines EXCEPT ![n] = Append(@, row)]
           /\ Known(n, Sender[Current(t)]) = {}
  <2>1. baselines' = [baselines EXCEPT ![n] = Append(baselines[n], row)]
    BY <1>6
  <2>2. /\ baselines' \in Seq(Seq(HostType)) /\ Len(baselines') = n
        /\ \A j \in 1..n : baselines'[j] = IF j = n THEN Append(baselines[n], row) ELSE baselines[j]
    BY <1>1, <1>4, <2>1, ExceptSeq
  <2> QED
    BY <1>1, <1>6, <2>2 DEF row
<1> QED
  BY <1>5, <1>6 DEF Score, row

(* behavior.learn changes the observations of the newest session, upwards. *)
LEMMA LearnEffect ==
  ASSUME SessionShape, NEW t, Learns(t)
  PROVE  /\ baselines' \in Seq(Seq(HostType))
         /\ Len(baselines') = Len(baselines)
         /\ \A n \in DOMAIN baselines :
              \/ baselines'[n] = baselines[n]
              \/ baselines'[n] = [i \in DOMAIN baselines[n] |->
                   IF i \in Known(n, Sender[Current(t)])
                   THEN [baselines[n][i] EXCEPT !.observations = @ + 1] ELSE baselines[n][i]]
<1> DEFINE n == Len(baselines)
           learned == [i \in DOMAIN baselines[n] |->
                         IF i \in Known(n, Sender[Current(t)])
                         THEN [baselines[n][i] EXCEPT !.observations = @ + 1] ELSE baselines[n][i]]
<1>1. /\ n \in Nat /\ n \in 1..n /\ DOMAIN baselines = 1..n /\ baselines \in Seq(Seq(HostType))
  BY NewestSession DEF SessionShape
<1>2. baselines[n] \in Seq(HostType)
  BY <1>1, ElementOfSeq
<1>3. /\ Len(baselines[n]) \in Nat /\ DOMAIN baselines[n] = 1..Len(baselines[n])
      /\ \A i \in DOMAIN baselines[n] : baselines[n][i] \in HostType
  BY <1>2, LenProperties, ElementOfSeq
<1>4. learned \in [1..Len(baselines[n]) -> HostType]
  BY <1>3 DEF HostType
<1>5. learned \in Seq(HostType)
  BY <1>3, <1>4, SeqDef
<1>8. baselines' = [baselines EXCEPT ![n] = learned] \/ baselines' = baselines
  BY DEF Learns
<1> HIDE DEF learned
<1>6. CASE baselines' = baselines
  BY <1>1, <1>6
<1>7. CASE baselines' = [baselines EXCEPT ![n] = learned]
  <2>1. /\ baselines' \in Seq(Seq(HostType)) /\ Len(baselines') = n
        /\ \A j \in 1..n : baselines'[j] = IF j = n THEN learned ELSE baselines[j]
    BY <1>1, <1>5, <1>7, ExceptSeq
  <2> QED
    BY <1>1, <2>1 DEF learned
<1> QED
  BY <1>6, <1>7, <1>8

(* alerts.add invents no alert, and the newest is the one that was new. *)
LEMMA NotedEffect ==
  ASSUME ApiAssumption, SessionShape, NEW a \in AlertType
  PROVE  /\ Noted(a) \in Seq(AlertType) /\ Len(Noted(a)) <= MaxItems
         /\ Elements(Noted(a)) \subseteq Elements(alerts) \cup {a}
         /\ a \notin Elements(alerts) => Noted(a) # <<>> /\ Noted(a)[Len(Noted(a))] = a
<1> DEFINE s == Append(alerts, a)
<1>0. MaxItems \in Nat /\ MaxItems >= 1 /\ alerts \in Seq(AlertType) /\ Len(alerts) <= MaxItems
  BY DEF ApiAssumption, SessionShape
<1>1. CASE a \in Elements(alerts)
  BY <1>0, <1>1 DEF Noted
<1>2. CASE a \notin Elements(alerts)
  <2>1. /\ s \in Seq(AlertType) /\ Len(s) = Len(alerts) + 1 /\ s[Len(s)] = a
        /\ Elements(s) = Elements(alerts) \cup {a} /\ Len(alerts) \in Nat
    BY <1>0, AppendElements, AppendAddsElement, LenProperties
  <2>2. Noted(a) = Recent(s, MaxItems)
    BY <1>2 DEF Noted
  <2> HIDE DEF s
  <2>3. PICK k \in 0..Len(s) :
          /\ Recent(s, MaxItems) \in Seq(AlertType)
          /\ Len(Recent(s, MaxItems)) = Len(s) - k
          /\ Len(Recent(s, MaxItems)) <= MaxItems
          /\ \A i \in 1..(Len(s) - k) : Recent(s, MaxItems)[i] = s[k + i]
          /\ k > 0 => Len(s) - k = MaxItems
    BY <1>0, <2>1, RecentProperties
  <2>4. Elements(Recent(s, MaxItems)) \subseteq Elements(s)
    BY <1>0, <2>1, RecentElements
  <2>5. Len(s) - k >= 1
    BY <1>0, <2>1, <2>3
  <2>6. /\ Recent(s, MaxItems) # <<>>
        /\ Recent(s, MaxItems)[Len(Recent(s, MaxItems))] = s[Len(s)]
    <3>1. Len(s) - k \in 1..(Len(s) - k) /\ k + (Len(s) - k) = Len(s)
      BY <2>1, <2>3, <2>5
    <3>2. Recent(s, MaxItems)[Len(Recent(s, MaxItems))] = s[k + (Len(s) - k)]
      BY <2>3, <3>1
    <3> QED
      BY <2>3, <2>5, <3>1, <3>2, NonEmptySeq
  <2> QED
    BY <2>1, <2>2, <2>3, <2>4, <2>6
<1> QED
  BY <1>1, <1>2

(* An alert that a call may raise is of the event it is processing. *)
LEMMA AlertsOfType ==
  ASSUME ApiAssumption, CallShape, Control, NEW t \in Calls, left[t] > 0, NEW a \in AlertsOf(t)
  PROVE  a \in AlertType /\ a.flow = Current(t)
<1>1. Current(t) \in DOMAIN Sender
  BY CurrentOfBody
<1> QED
  BY <1>1 DEF AlertsOf, AlertType

-------------------------------------------------------------------------------
(* The values of the variables *)

(* What process and reset_session leave is a session again. *)
LEMMA SessionShapeKept ==
  ASSUME ApiAssumption, ApiShape, [ApiNext]_apiVars
  PROVE  SessionShape'
<1> USE DEF ApiShape
<1>1. CASE UNCHANGED sessionVars
  BY <1>1 DEF sessionVars, SessionShape
<1>2. ASSUME NEW t \in Calls, Receive(t)
      PROVE  SessionShape'
  BY <1>2, CountEffect DEF Receive, SessionShape
<1>3. ASSUME NEW t \in Calls, Score(t)
      PROVE  SessionShape'
  BY <1>3, ScoreEffect DEF Score, SessionShape
<1>4. ASSUME NEW t \in Calls, Accept(t)
      PROVE  SessionShape'
  <2>1. left[t] > 0
    BY <1>4 DEF Accept, Control
  <2>2. \A a \in AlertsOf(t) : Noted(a) \in Seq(AlertType) /\ Len(Noted(a)) <= MaxItems
    BY <2>1, AlertsOfType, NotedEffect
  <2>3. alerts' = alerts \/ \E a \in AlertsOf(t) : alerts' = Noted(a)
    BY <1>4 DEF Accept
  <2>4. alerts' \in Seq(AlertType) /\ Len(alerts') <= MaxItems
    BY <2>2, <2>3 DEF SessionShape
  <2>5. baselines' \in Seq(Seq(HostType)) /\ Len(baselines') = Len(baselines)
    BY <1>4, LearnEffect DEF Accept
  <2>6. statsOf' \in Seq(StatsType) /\ statsOf' # <<>> /\ Len(statsOf') = Len(statsOf)
    BY <1>4, CountEffect DEF Accept
  <2> QED
    BY <2>4, <2>5, <2>6 DEF SessionShape
<1>5. ASSUME NEW t \in Calls, Reject(t)
      PROVE  SessionShape'
  <2>1. alerts' = alerts \/ \E a \in AlertsOf(t) : left[t] > 0 /\ alerts' = Noted(a)
    BY <1>5 DEF Reject, Control
  <2>2. \A a \in AlertsOf(t) : left[t] > 0 => Noted(a) \in Seq(AlertType) /\ Len(Noted(a)) <= MaxItems
    BY AlertsOfType, NotedEffect
  <2>3. alerts' \in Seq(AlertType) /\ Len(alerts') <= MaxItems
    BY <2>1, <2>2 DEF SessionShape
  <2>4. statsOf' \in Seq(StatsType) /\ statsOf' # <<>> /\ Len(statsOf') = Len(statsOf)
    BY <1>5, CountEffect DEF Reject
  <2> QED
    BY <1>5, <2>3, <2>4 DEF SessionShape, Reject
<1>6. ASSUME NEW u \in Uploads, ResetBy(u)
      PROVE  SessionShape'
  <2>1. /\ statsOf' \in Seq(StatsType) /\ statsOf' # <<>>
        /\ baselines' \in Seq(Seq(HostType)) /\ Len(baselines') = Len(statsOf')
        /\ alerts' = <<>>
    BY <1>6, ResetEffect DEF SessionShape
  <2>2. <<>> \in Seq(AlertType) /\ Len(<<>>) = 0 /\ MaxItems >= 0
    BY EmptySeq DEF ApiAssumption
  <2> QED
    BY <2>1, <2>2 DEF SessionShape
<1> QED
  BY <1>1, <1>2, <1>3, <1>4, <1>5, <1>6, SessionMoves DEF UploadRead, UploadRaises

(* The calls stay in their places. *)
LEMMA CallShapeKept ==
  ASSUME ApiAssumption, ApiShape, [ApiNext]_apiVars
  PROVE  CallShape'
<1> USE DEF ApiShape, Ended, castVars
<1>1. CASE UNCHANGED apiVars
  BY <1>1 DEF apiVars, CallShape
<1>2. Stats \in StatsType /\ Calls = Ingests \cup Uploads
  BY NewestSession DEF Calls
<1>3. ASSUME NEW t \in Calls, Receive(t) \/ Score(t) \/ Reject(t)
      PROVE  CallShape'
  BY <1>3 DEF Receive, Score, Reject, CallShape
<1>4. ASSUME NEW t \in Calls, Accept(t)
      PROVE  CallShape'
  BY <1>4 DEF Accept, CallShape, Control
<1>5. ASSUME NEW t \in Calls, IngestRaises(t) \/ ParseRaises(t) \/ UploadRaises(t) \/ Analysed(t) \/ Resume(t)
      PROVE  CallShape'
  BY <1>5 DEF IngestRaises, ParseRaises, UploadRaises, Analysed, Resume, CallShape
<1>6. ASSUME NEW t \in Calls, Publish(t)
      PROVE  CallShape'
  <2>1. t \in Ingests /\ subscribers \in SUBSET Sockets
    BY <1>6 DEF Publish, FeedShape
  <2>2. CASE Attachment(t) = <<>>
    <3>1. /\ pc' = [pc EXCEPT ![t] = "metrics"]
          /\ metricsOf' = [metricsOf EXCEPT ![t] = Stats]
          /\ todo' = [todo EXCEPT ![t] = subscribers]
          /\ attached' = [attached EXCEPT ![t] = Attachment(t)]
          /\ UNCHANGED <<loop, left, raised, dead>>
      BY <1>6, <2>2 DEF Publish, StartsMetrics
    <3>2. todo' \in [Ingests -> SUBSET Sockets]
      BY <2>1, <3>1 DEF CallShape
    <3>3. metricsOf' \in [Ingests -> StatsType]
      BY <1>2, <3>1 DEF CallShape
    <3> QED
      BY <3>1, <3>2, <3>3 DEF CallShape
  <2>3. CASE Attachment(t) # <<>>
    BY <1>6, <2>1, <2>3, ZenonT(30) DEF Publish, CallShape
  <2> QED
    BY <2>2, <2>3
<1>7. ASSUME NEW t \in Calls, EndOfAlert(t)
      PROVE  CallShape'
  <2>1. t \in Ingests
    BY <1>7 DEF EndOfAlert, Control, Broadcasting
  <2> QED
    BY <1>2, <1>7, <2>1 DEF EndOfAlert, StartsMetrics, CallShape, FeedShape
<1>8. ASSUME NEW t \in Calls, EndOfMetrics(t)
      PROVE  CallShape'
  BY <1>8 DEF EndOfMetrics, CallShape
<1>9. ASSUME NEW t \in Calls, NEW ws \in Sockets, Send(t, ws)
      PROVE  CallShape'
  <2>1. t \in Ingests
    BY <1>9 DEF Send, SendsTo, Control, Broadcasting
  <2>2. todo' \in [Ingests -> SUBSET Sockets] /\ dead' \in [Ingests -> SUBSET Sockets]
    <3>1. /\ todo' = [todo EXCEPT ![t] = @ \ {ws}]
          /\ dead' = dead \/ dead' = [dead EXCEPT ![t] = @ \cup {ws}]
      BY <1>9 DEF Send
    <3>2. todo[t] \ {ws} \in SUBSET Sockets /\ dead[t] \cup {ws} \in SUBSET Sockets
      BY <2>1 DEF CallShape
    <3>3. todo' \in [Ingests -> SUBSET Sockets]
      BY <3>1, <3>2 DEF CallShape
    <3>4. ASSUME dead' = [dead EXCEPT ![t] = @ \cup {ws}]
          PROVE  dead' \in [Ingests -> SUBSET Sockets]
      BY <3>2, <3>4 DEF CallShape
    <3> QED
      BY <3>1, <3>3, <3>4 DEF CallShape
  <2> QED
    BY <1>9, <2>2 DEF Send, SendsTo, CallShape
<1>10. ASSUME NEW t \in Calls, IngestCalled(t) \/ UploadRefused(t) \/ UploadRead(t) \/ UploadReadRaises(t)
       PROVE  CallShape'
  BY <1>10 DEF IngestCalled, UploadRefused, UploadRead, UploadReadRaises, CallShape
<1>11. ASSUME NEW ws \in Sockets, Subscribe(ws) \/ ClientLeaves(ws) \/ HandlerEnds(ws)
       PROVE  CallShape'
  BY <1>11 DEF Subscribe, ClientLeaves, HandlerEnds, CallShape
<1>12. ASSUME NEW r \in Pollers, \/ Poll(r) \/ Read(r) \/ ListHosts(r) \/ NextHost(r)
                                 \/ ListRaises(r) \/ ReadColumn(r)
                                 \/ CountWindows(r) \/ Counted(r)
       PROVE  CallShape'
  BY <1>12 DEF Poll, Read, ListHosts, NextHost, ListRaises, ReadColumn, CountWindows,
               Counted, CallShape
<1> QED
  BY <1>1, <1>2, <1>3, <1>4, <1>5, <1>6, <1>7, <1>8, <1>9, <1>10, <1>11, <1>12 DEF ApiNext, Runs

(* The sockets and the subscribers stay what they are. *)
LEMMA FeedShapeKept ==
  ASSUME ApiAssumption, ApiShape, [ApiNext]_apiVars
  PROVE  FeedShape'
<1> USE DEF ApiShape, feedVars
<1>1. CASE UNCHANGED feedVars
  BY <1>1 DEF FeedShape
<1>2. Stats \in StatsType /\ NoStats \in StatsType
  BY NewestSession DEF NoStats, StatsType
<1>3. ASSUME NEW t \in Calls, EndOfAlert(t) \/ EndOfMetrics(t)
      PROVE  FeedShape'
  BY <1>3 DEF EndOfAlert, EndOfMetrics, FeedShape
<1>4. ASSUME NEW t \in Calls, NEW ws \in Sockets, Send(t, ws)
      PROVE  FeedShape'
  <2>1. t \in Ingests
    BY <1>4 DEF Send, SendsTo, Control, Broadcasting
  <2>2. metricsOf[t] \in StatsType
    BY <2>1 DEF CallShape
  <2> QED
    BY <1>4, <2>2 DEF Send, SendsTo, Delivered, FeedShape
<1>5. ASSUME NEW ws \in Sockets, Subscribe(ws) \/ ClientLeaves(ws) \/ HandlerEnds(ws)
      PROVE  FeedShape'
  BY <1>2, <1>5 DEF Subscribe, ClientLeaves, HandlerEnds, FeedShape
<1> QED
  BY <1>1, <1>3, <1>4, <1>5, FeedMoves

(* Sessions are only added. *)
LEMMA SessionsStay ==
  ASSUME ApiAssumption, ApiShape, [ApiNext]_apiVars
  PROVE  DOMAIN statsOf \subseteq DOMAIN statsOf'
<1>1. SessionShape'
  BY SessionShapeKept
<1>2. DOMAIN statsOf = 1..Len(statsOf) /\ DOMAIN statsOf' = 1..Len(statsOf') /\ Len(statsOf) \in Nat
  BY <1>1, LenProperties DEF SessionShape, ApiShape
<1>3. Len(statsOf') \in {Len(statsOf), Len(statsOf) + 1}
  <2> USE DEF ApiShape
  <2>1. CASE UNCHANGED sessionVars
    BY <2>1 DEF sessionVars
  <2>2. ASSUME NEW t \in Calls, Receive(t) \/ Accept(t) \/ Reject(t)
        PROVE  Len(statsOf') = Len(statsOf)
    BY <2>2, CountEffect DEF Receive, Accept, Reject
  <2>3. ASSUME NEW t \in Calls, Score(t)
        PROVE  statsOf' = statsOf
    BY <2>3 DEF Score
  <2>4. ASSUME NEW u \in Uploads, ResetBy(u)
        PROVE  Len(statsOf') = Len(statsOf) + 1
    BY <2>4, ResetEffect
  <2> QED
    BY <2>1, <2>2, <2>3, <2>4, SessionMoves DEF UploadRead, UploadRaises
<1>4. Len(statsOf') \in Nat
  BY <1>1, LenProperties DEF SessionShape
<1>5. \A n, m \in Nat : m \in {n, n + 1} => 1..n \subseteq 1..m
  OBVIOUS
<1> QED
  BY <1>2, <1>3, <1>4, <1>5

(* A poller changes its own state only, and nobody else changes it. *)
LEMMA PollMoves ==
  ASSUME [ApiNext]_apiVars
  PROVE  \/ UNCHANGED pollVars
         \/ \E r \in Pollers : \/ Poll(r) \/ Read(r) \/ ListHosts(r) \/ NextHost(r)
                              \/ ListRaises(r) \/ ReadColumn(r)
                              \/ CountWindows(r) \/ Counted(r)
<1>1. CASE UNCHANGED apiVars
  BY <1>1 DEF apiVars
<1>2. CASE \E t \in Calls : Runs(t) \/ Resume(t)
  BY <1>2 DEF Runs, Resume, IngestRaises, Publish, Receive, Score, Accept, Reject,
              EndOfAlert, EndOfMetrics, Send, SendsTo, ParseRaises, UploadRaises, Analysed
<1>3. CASE \/ \E t \in Ingests : IngestCalled(t)
           \/ \E u \in Uploads : UploadRefused(u) \/ UploadRead(u) \/ UploadReadRaises(u)
           \/ \E ws \in Sockets : Subscribe(ws) \/ ClientLeaves(ws) \/ HandlerEnds(ws)
  BY <1>3 DEF IngestCalled, UploadRefused, UploadRead, UploadReadRaises,
              Subscribe, ClientLeaves, HandlerEnds
<1> QED
  BY <1>1, <1>2, <1>3 DEF ApiNext

(* What each poller does, in a step. *)
LEMMA PollerMoves ==
  ASSUME [ApiNext]_apiVars, PollShape, NEW r \in Pollers
  PROVE  \/ pollPc'[r] = pollPc[r] /\ seen'[r] = seen[r] /\ listing'[r] = listing[r]
         \/ Poll(r) \/ Read(r) \/ ListHosts(r) \/ NextHost(r) \/ ListRaises(r) \/ ReadColumn(r)
         \/ CountWindows(r) \/ Counted(r)
<1>1. CASE UNCHANGED pollVars
  BY <1>1 DEF pollVars
<1>2. ASSUME NEW q \in Pollers, q # r, Poll(q) \/ Read(q) \/ ListHosts(q)
      PROVE  pollPc'[r] = pollPc[r] /\ seen'[r] = seen[r] /\ listing'[r] = listing[r]
  BY <1>2 DEF Poll, Read, ListHosts, PollShape
<1>3. ASSUME NEW q \in Pollers, q # r, \/ NextHost(q) \/ ListRaises(q) \/ ReadColumn(q)
                                           \/ CountWindows(q) \/ Counted(q)
      PROVE  pollPc'[r] = pollPc[r] /\ seen'[r] = seen[r] /\ listing'[r] = listing[r]
  BY <1>3 DEF NextHost, ListRaises, ReadColumn, CountWindows, Counted, PollShape
<1> QED
  BY <1>1, <1>2, <1>3, PollMoves

(* What a poller reads next. *)
LEMMA FieldCases ==
  /\ DOMAIN Fields = {"idle", "received", "accepted"}
  /\ Fields["idle"] = "received" /\ Fields["received"] = "accepted" /\ Fields["accepted"] = "failed"
  /\ DOMAIN Columns = {"host", "observations"}
  /\ Columns["host"] = "observations" /\ Columns["observations"] = "baseline_ready"
<1> QED
  BY DEF Fields, Columns

(* One read of GET /metrics, spelled out. *)
LEMMA ReadEffect ==
  ASSUME ApiShape, NEW r \in Pollers, Read(r)
  PROVE  \E s \in StatsType :
           /\ s = statsOf[seen[r].session]
           /\ \/ /\ pollPc[r] = "idle" /\ pollPc' = [pollPc EXCEPT ![r] = "received"]
                 /\ seen' = [seen EXCEPT ![r] = [seen[r] EXCEPT !.received = s.received]]
              \/ /\ pollPc[r] = "received" /\ pollPc' = [pollPc EXCEPT ![r] = "accepted"]
                 /\ seen' = [seen EXCEPT ![r] = [seen[r] EXCEPT !.accepted = s.accepted]]
              \/ /\ pollPc[r] = "accepted" /\ pollPc' = [pollPc EXCEPT ![r] = "failed"]
                 /\ seen' = [seen EXCEPT ![r] = [seen[r] EXCEPT !.failed = s.failed]]
<1>1. statsOf[seen[r].session] \in StatsType
  BY NewestSession, ElementOfSeq DEF ApiShape, SessionShape, PollShape
<1>2. pollPc[r] \in {"idle", "received", "accepted"}
  BY FieldCases DEF Read
<1>3. CASE pollPc[r] = "idle"
  BY <1>1, <1>3, FieldCases DEF Read
<1>4. CASE pollPc[r] = "received"
  BY <1>1, <1>4, FieldCases DEF Read
<1>5. CASE pollPc[r] = "accepted"
  BY <1>1, <1>5, FieldCases DEF Read
<1> QED
  BY <1>2, <1>3, <1>4, <1>5

(* A host that is known has learned a number of events. *)
LEMMA ObservedIsNat ==
  ASSUME SessionShape, NEW n \in DOMAIN baselines, NEW h
  PROVE  Observed(n, h) \in Nat
<1>1. \A i \in Known(n, h) : baselines[n][i].observations \in Nat
  <2>1. baselines[n] \in Seq(HostType)
    BY NewestSession, ElementOfSeq DEF SessionShape
  <2>2. \A i \in DOMAIN baselines[n] : baselines[n][i] \in HostType
    BY <2>1, LenProperties, ElementOfSeq
  <2> QED
    BY <2>2 DEF Known, HostType
<1> QED
  BY <1>1 DEF Observed

(* A comparison is TRUE or FALSE. *)
LEMMA ComparisonIsBoolean ==
  ASSUME NEW x, NEW y
  PROVE  (x >= y) \in BOOLEAN
<1> QED
  OBVIOUS

(* One column of GET /hosts, spelled out: the newest row gets it. *)
LEMMA ColumnEffect ==
  ASSUME ApiShape, NEW r \in Pollers, ReadColumn(r)
  PROVE  \E i \in 1..Len(listing[r].rows), row \in RowType :
           /\ i = Len(listing[r].rows)
           /\ listing' = [listing EXCEPT ![r] =
                [listing[r] EXCEPT !.rows = [listing[r].rows EXCEPT ![i] = row]]]
           /\ \/ /\ pollPc[r] = "host" /\ pollPc' = [pollPc EXCEPT ![r] = "observations"]
                 /\ row = [listing[r].rows[i] EXCEPT !.observations =
                            Observed(listing[r].session, listing[r].rows[i].host)]
              \/ /\ pollPc[r] = "observations" /\ pollPc' = [pollPc EXCEPT ![r] = "hosts"]
                 /\ row = [listing[r].rows[i] EXCEPT !.baseline_ready =
                            (Observed(Len(baselines), listing[r].rows[i].host) >= Warmup)]
<1> USE DEF ApiShape
<1> DEFINE i == Len(listing[r].rows)
           h == listing[r].rows[i].host
           seenRow == [listing[r].rows[i] EXCEPT !.observations = Observed(listing[r].session, h)]
           readyRow == [listing[r].rows[i] EXCEPT !.baseline_ready = (Observed(Len(baselines), h) >= Warmup)]
<1>1. i \in 1..Len(listing[r].rows) /\ listing[r].rows[i] \in RowType
  BY FieldCases, NonEmptySeq, LenProperties, ElementOfSeq DEF ReadColumn, PollShape, ListType
<1>2. Observed(listing[r].session, h) \in Nat
  BY NewestSession, ObservedIsNat DEF PollShape
<1>3. seenRow \in RowType
  BY <1>1, <1>2 DEF RowType
<1>6. readyRow \in RowType
  <2>1. \A b \in BOOLEAN : [listing[r].rows[i] EXCEPT !.baseline_ready = b] \in RowType
    BY <1>1 DEF RowType
  <2> QED
    BY <2>1, ComparisonIsBoolean, Zenon
<1>4. CASE pollPc[r] = "host"
  <2>1. /\ pollPc' = [pollPc EXCEPT ![r] = "observations"]
        /\ listing' = [listing EXCEPT ![r] =
                [listing[r] EXCEPT !.rows = [listing[r].rows EXCEPT ![i] = seenRow]]]
    BY <1>4, FieldCases DEF ReadColumn
  <2> QED
    BY <1>1, <1>3, <1>4, <2>1
<1>5. CASE pollPc[r] = "observations"
  <2>1. /\ pollPc' = [pollPc EXCEPT ![r] = "hosts"]
        /\ listing' = [listing EXCEPT ![r] =
                [listing[r] EXCEPT !.rows = [listing[r].rows EXCEPT ![i] = readyRow]]]
    BY <1>5, FieldCases DEF ReadColumn
  <2> QED
    BY <1>1, <1>5, <1>6, <2>1
<1> QED
  BY <1>4, <1>5, FieldCases DEF ReadColumn

(* A poller that goes on to another phase, with what it has read, keeps the shape. *)
LEMMA PollerStep ==
  ASSUME PollShape, DOMAIN statsOf \subseteq DOMAIN statsOf',
         NEW r \in Pollers, NEW p \in Phases, NEW s \in SeenType, NEW l \in ListType,
         s.session \in DOMAIN statsOf, l.session \in DOMAIN statsOf,
         p \in {"host", "observations"} => l.rows # <<>>,
         pollPc' = [pollPc EXCEPT ![r] = p],
         seen' = [seen EXCEPT ![r] = s],
         listing' = [listing EXCEPT ![r] = l]
  PROVE  PollShape'
<1>1. /\ pollPc' \in [Pollers -> Phases]
      /\ seen' \in [Pollers -> SeenType]
      /\ listing' \in [Pollers -> ListType]
  BY DEF PollShape
<1>2. \A q \in Pollers : /\ seen'[q].session \in DOMAIN statsOf'
                         /\ listing'[q].session \in DOMAIN statsOf'
                         /\ pollPc'[q] \in {"host", "observations"} => listing'[q].rows # <<>>
  BY DEF PollShape
<1> QED
  BY <1>1, <1>2 DEF PollShape

(* The rows a poller has read stay rows, of a session that exists. *)
LEMMA PollShapeKept ==
  ASSUME ApiAssumption, ApiShape, [ApiNext]_apiVars
  PROVE  PollShape'
<1> USE DEF ApiShape
<1>1. DOMAIN statsOf \subseteq DOMAIN statsOf'
  BY SessionsStay
<1>2. CASE UNCHANGED pollVars
  BY <1>1, <1>2 DEF pollVars, PollShape
<1>3. /\ Len(statsOf) \in Nat /\ Len(statsOf) \in DOMAIN statsOf /\ 1 \in DOMAIN statsOf
      /\ Len(baselines) = Len(statsOf)
  BY NewestSession
<1>4. <<>> \in Seq(RowType)
  BY EmptySeq
<1>5. ASSUME NEW r \in Pollers
      PROVE  /\ seen[r] \in SeenType /\ seen[r].session \in DOMAIN statsOf
             /\ listing[r] \in ListType /\ listing[r].session \in DOMAIN statsOf
             /\ seen = [seen EXCEPT ![r] = seen[r]]
             /\ listing = [listing EXCEPT ![r] = listing[r]]
  BY DEF PollShape
<1>6. /\ \A n \in Nat : Blank(n) \in SeenType /\ Blank(n).session = n
      /\ NoListing \in ListType /\ NoListing.session = 1
  BY <1>4 DEF Blank, NoListing, SeenType, ListType
<1>7. ASSUME NEW r \in Pollers, Poll(r)
      PROVE  PollShape'
  BY <1>1, <1>3, <1>6, <1>7, PollerStep DEF Poll, Phases
<1>8. ASSUME NEW r \in Pollers, Read(r)
      PROVE  PollShape'
  <2>1. PICK s \in StatsType :
          \/ /\ pollPc' = [pollPc EXCEPT ![r] = "received"]
             /\ seen' = [seen EXCEPT ![r] = [seen[r] EXCEPT !.received = s.received]]
          \/ /\ pollPc' = [pollPc EXCEPT ![r] = "accepted"]
             /\ seen' = [seen EXCEPT ![r] = [seen[r] EXCEPT !.accepted = s.accepted]]
          \/ /\ pollPc' = [pollPc EXCEPT ![r] = "failed"]
             /\ seen' = [seen EXCEPT ![r] = [seen[r] EXCEPT !.failed = s.failed]]
    BY <1>8, ReadEffect
  <2>2. \A v \in {[seen[r] EXCEPT !.received = s.received],
                  [seen[r] EXCEPT !.accepted = s.accepted],
                  [seen[r] EXCEPT !.failed = s.failed]} :
          v \in SeenType /\ v.session = seen[r].session
    BY <1>5 DEF SeenType, StatsType
  <2>3. PICK p \in {"received", "accepted", "failed"}, v \in SeenType :
          /\ v.session = seen[r].session
          /\ pollPc' = [pollPc EXCEPT ![r] = p]
          /\ seen' = [seen EXCEPT ![r] = v]
    BY <2>1, <2>2
  <2>4. listing' = [listing EXCEPT ![r] = listing[r]]
    BY <1>5, <1>8 DEF Read
  <2> QED
    BY <1>1, <1>5, <2>3, <2>4, PollerStep DEF Phases
<1>9. ASSUME NEW r \in Pollers, ListHosts(r)
      PROVE  PollShape'
  <2> DEFINE l == [session |-> Len(baselines), size |-> Len(baselines[Len(baselines)]), rows |-> <<>>]
  <2>1. Len(baselines[Len(baselines)]) \in Nat
    BY <1>3, NewestSession, ElementOfSeq, LenProperties DEF SessionShape
  <2>2. l \in ListType /\ l.session \in DOMAIN statsOf
    BY <1>3, <1>4, <2>1 DEF ListType
  <2>3. /\ pollPc' = [pollPc EXCEPT ![r] = "hosts"]
        /\ seen' = [seen EXCEPT ![r] = Blank(1)]
        /\ listing' = [listing EXCEPT ![r] = l]
    BY <1>9 DEF ListHosts
  <2> HIDE DEF l
  <2> QED
    BY <1>1, <1>3, <1>6, <2>2, <2>3, PollerStep DEF Phases
<1>10. ASSUME NEW r \in Pollers, NextHost(r)
       PROVE  PollShape'
  <2> DEFINE hosts == baselines[listing[r].session]
             i == Len(listing[r].rows) + 1
             row == [host |-> hosts[i].host, observations |-> 0, baseline_ready |-> FALSE]
  <2>1. seen' = [seen EXCEPT ![r] = seen[r]]
    BY <1>5, <1>10 DEF NextHost
  <2>2. CASE i \in DOMAIN hosts /\ pollPc' = [pollPc EXCEPT ![r] = "host"]
             /\ listing' = [listing EXCEPT ![r].rows = Append(@, row)]
    <3>1. hosts \in Seq(HostType)
      BY NewestSession, ElementOfSeq DEF SessionShape, PollShape
    <3>2. row \in RowType
      <4>1. hosts[i] \in HostType
        BY <2>2, <3>1, LenProperties, ElementOfSeq
      <4> QED
        BY <4>1 DEF RowType, HostType
    <3> HIDE DEF row
    <3> DEFINE rows == Append(listing[r].rows, row)
    <3>3. rows \in Seq(RowType) /\ rows # <<>>
      BY <1>5, <3>2, AppendProperties DEF ListType
    <3>4. listing' = [listing EXCEPT ![r] = [listing[r] EXCEPT !.rows = rows]]
      BY <2>2
    <3> HIDE DEF rows
    <3> DEFINE l == [listing[r] EXCEPT !.rows = rows]
    <3>5. l \in ListType /\ l.session = listing[r].session /\ l.rows = rows
      BY <1>5, <3>3 DEF ListType
    <3>6. listing' = [listing EXCEPT ![r] = l]
      BY <3>4
    <3> HIDE DEF l
    <3> QED
      BY <1>1, <1>5, <2>1, <2>2, <3>3, <3>5, <3>6, PollerStep DEF Phases
  <2>3. CASE pollPc' = [pollPc EXCEPT ![r] = "listed"] /\ UNCHANGED listing
    <3>1. listing' = [listing EXCEPT ![r] = listing[r]]
      BY <1>5, <2>3
    <3>2. /\ pollPc' = [pollPc EXCEPT ![r] = "listed"]
          /\ seen' = [seen EXCEPT ![r] = seen[r]]
          /\ "listed" \in Phases /\ "listed" \notin {"host", "observations"}
      BY <2>1, <2>3 DEF Phases
    <3> QED
      BY <1>1, <1>5, <3>1, <3>2, PollerStep
  <2> QED
    BY <1>10, <2>2, <2>3 DEF NextHost
<1>11. ASSUME NEW r \in Pollers, ListRaises(r)
       PROVE  PollShape'
  <2>1. /\ pollPc' = [pollPc EXCEPT ![r] = "crashed"]
        /\ seen' = [seen EXCEPT ![r] = seen[r]]
        /\ listing' = [listing EXCEPT ![r] = listing[r]]
    BY <1>5, <1>11 DEF ListRaises
  <2> QED
    BY <1>1, <1>5, <2>1, PollerStep DEF Phases
<1>12. ASSUME NEW r \in Pollers, ReadColumn(r)
       PROVE  PollShape'
  <2>1. PICK i \in 1..Len(listing[r].rows), row \in RowType :
          /\ listing' = [listing EXCEPT ![r] =
                [listing[r] EXCEPT !.rows = [listing[r].rows EXCEPT ![i] = row]]]
          /\ pollPc' = [pollPc EXCEPT ![r] = "observations"] \/ pollPc' = [pollPc EXCEPT ![r] = "hosts"]
    BY <1>12, ColumnEffect
  <2> DEFINE rows == [listing[r].rows EXCEPT ![i] = row]
             l == [listing[r] EXCEPT !.rows = rows]
  <2>2. rows \in Seq(RowType) /\ Len(rows) = Len(listing[r].rows) /\ Len(rows) >= 1
    BY <1>5, ExceptSeq, LenProperties DEF ListType
  <2>3. rows # <<>>
    BY <2>2, NonEmptySeq
  <2> HIDE DEF rows
  <2>4. listing' = [listing EXCEPT ![r] = l]
    BY <2>1 DEF rows
  <2>5. l \in ListType /\ l.session = listing[r].session /\ l.rows = rows
    BY <1>5, <2>2 DEF ListType
  <2> HIDE DEF l
  <2>6. seen' = [seen EXCEPT ![r] = seen[r]]
    BY <1>5, <1>12 DEF ReadColumn
  <2> QED
    BY <1>1, <1>5, <2>1, <2>3, <2>4, <2>5, <2>6, PollerStep DEF Phases
<1>13. ASSUME NEW r \in Pollers, CountWindows(r)
       PROVE  PollShape'
  <2>1. /\ pollPc' = [pollPc EXCEPT ![r] = "windows"]
        /\ seen' = [seen EXCEPT ![r] = seen[r]]
        /\ listing' = [listing EXCEPT ![r] = listing[r]]
    BY <1>5, <1>13 DEF CountWindows
  <2> QED
    BY <1>1, <1>5, <2>1, PollerStep DEF Phases
<1>14. ASSUME NEW r \in Pollers, Counted(r)
       PROVE  PollShape'
  <2>1. /\ \/ pollPc' = [pollPc EXCEPT ![r] = "answered"]
           \/ pollPc' = [pollPc EXCEPT ![r] = "crashed"]
        /\ seen' = [seen EXCEPT ![r] = seen[r]]
        /\ listing' = [listing EXCEPT ![r] = listing[r]]
    BY <1>5, <1>14 DEF Counted
  <2> QED
    BY <1>1, <1>5, <2>1, PollerStep DEF Phases
<1> QED
  BY <1>2, <1>7, <1>8, <1>9, <1>10, <1>11, <1>12, <1>13, <1>14, PollMoves

(* One call holds the loop at a time, and what it has yet to do is what it is at. *)
LEMMA ControlKept ==
  ASSUME ApiAssumption, ApiShape, [ApiNext]_apiVars
  PROVE  Control'
<1> USE DEF ApiShape, Ended, Broadcasting, castVars
<1>1. CASE UNCHANGED apiVars
  BY <1>1 DEF apiVars, Control
<1>2. /\ Calls = Ingests \cup Uploads /\ Ingests \cap Uploads = {} /\ Free \notin Calls
      /\ \A t \in Calls : Len(Body[t]) \in Nat
  BY LenProperties DEF Calls, ApiAssumption
<1>3. ASSUME NEW t \in Calls, Receive(t) \/ Score(t) \/ Reject(t)
      PROVE  Control'
  <2>1. /\ loop = t
        /\ \/ pc[t] = "ready" /\ left[t] > 0 /\ pc' = [pc EXCEPT ![t] = "inside"]
           \/ pc[t] = "inside" /\ pc' = [pc EXCEPT ![t] = "scored"]
           \/ pc[t] \in {"inside", "scored"} /\ pc' = [pc EXCEPT ![t] = "raised"]
        /\ UNCHANGED <<loop, left, todo, dead>>
    BY <1>3 DEF Receive, Score, Reject
  <2>2. CASE pc[t] = "ready" /\ left[t] > 0 /\ pc' = [pc EXCEPT ![t] = "inside"]
    BY <1>2, <2>1, <2>2 DEF CallShape, Control
  <2>3. CASE pc[t] = "inside" /\ pc' = [pc EXCEPT ![t] = "scored"]
    BY <1>2, <2>1, <2>3 DEF CallShape, Control
  <2>4. CASE pc[t] \in {"inside", "scored"} /\ pc' = [pc EXCEPT ![t] = "raised"]
    BY <1>2, <2>1, <2>4 DEF CallShape, Control
  <2> QED
    BY <2>1, <2>2, <2>3, <2>4
<1>4. ASSUME NEW t \in Calls, Accept(t)
      PROVE  Control'
  <2>1. /\ left' = [left EXCEPT ![t] = left[t] - 1]
        /\ pc' = [pc EXCEPT ![t] = "ready"] /\ pc[t] = "scored" /\ loop = t
        /\ UNCHANGED <<loop, todo, dead>>
    BY <1>4 DEF Accept
  <2> QED
    BY <1>2, <2>1 DEF CallShape, Control
<1>5. ASSUME NEW t \in Calls, IngestRaises(t) \/ ParseRaises(t) \/ UploadRaises(t) \/ Analysed(t) \/ Resume(t)
      PROVE  Control'
  <2>1. CASE IngestRaises(t) \/ UploadRaises(t) \/ Analysed(t)
    <3>1. /\ loop = t /\ loop' = Free
          /\ \/ pc[t] = "raised" /\ pc' = [pc EXCEPT ![t] = "failed"]
             \/ pc[t] = "ready" /\ pc' = [pc EXCEPT ![t] = "returned"]
          /\ UNCHANGED <<left, todo, dead>>
      BY <2>1 DEF IngestRaises, UploadRaises, Analysed
    <3>2. CASE pc[t] = "raised" /\ pc' = [pc EXCEPT ![t] = "failed"]
      BY <1>2, <3>1, <3>2 DEF CallShape, Control
    <3>3. CASE pc[t] = "ready" /\ pc' = [pc EXCEPT ![t] = "returned"]
      BY <1>2, <3>1, <3>3 DEF CallShape, Control
    <3> QED
      BY <3>1, <3>2, <3>3
  <2>2. CASE ParseRaises(t)
    BY <1>2, <2>2 DEF ParseRaises, CallShape, Control
  <2>3. CASE Resume(t)
    BY <1>2, <2>3 DEF Resume, CallShape, Control
  <2> QED
    BY <1>5, <2>1, <2>2, <2>3
<1>6. ASSUME NEW t \in Calls, Publish(t)
      PROVE  Control'
  <2>1. /\ t \in Ingests /\ loop = t /\ pc[t] = "ready"
        /\ pc' = [pc EXCEPT ![t] = "alert"] \/ pc' = [pc EXCEPT ![t] = "metrics"]
        /\ todo' = [todo EXCEPT ![t] = subscribers]
        /\ UNCHANGED <<loop, left, dead>>
    BY <1>6 DEF Publish, StartsMetrics
  <2>2. CASE pc' = [pc EXCEPT ![t] = "alert"]
    BY <1>2, <2>1, <2>2 DEF CallShape, Control
  <2>3. CASE pc' = [pc EXCEPT ![t] = "metrics"]
    BY <1>2, <2>1, <2>3 DEF CallShape, Control
  <2> QED
    BY <2>1, <2>2, <2>3
<1>7. ASSUME NEW t \in Calls, EndOfAlert(t)
      PROVE  Control'
  <2>1. /\ t \in Ingests /\ loop = t /\ pc[t] = "alert"
        /\ pc' = [pc EXCEPT ![t] = "metrics"]
        /\ todo' = [todo EXCEPT ![t] = subscribers']
        /\ dead' = [dead EXCEPT ![t] = {}]
        /\ UNCHANGED <<loop, left>>
    BY <1>7 DEF EndOfAlert, StartsMetrics, Control
  <2> QED
    BY <1>2, <2>1 DEF CallShape, Control
<1>8. ASSUME NEW t \in Calls, EndOfMetrics(t)
      PROVE  Control'
  <2>1. /\ t \in Ingests /\ loop = t /\ pc[t] = "metrics" /\ todo[t] = {} /\ loop' = Free
        /\ pc' = [pc EXCEPT ![t] = "returned"]
        /\ dead' = [dead EXCEPT ![t] = {}]
        /\ UNCHANGED <<left, todo>>
    BY <1>8 DEF EndOfMetrics, Control
  <2> QED
    BY <1>2, <2>1 DEF CallShape, Control
<1>9. ASSUME NEW t \in Calls, NEW ws \in Sockets, Send(t, ws)
      PROVE  Control'
  <2>1. /\ t \in Ingests /\ loop = t /\ Broadcasting(t) /\ loop' \in {t, Free}
        /\ todo' = [todo EXCEPT ![t] = @ \ {ws}]
        /\ dead' = dead \/ dead' = [dead EXCEPT ![t] = @ \cup {ws}]
        /\ UNCHANGED <<pc, left>>
    BY <1>9 DEF Send, SendsTo, Control
  <2> QED
    BY <1>2, <2>1 DEF CallShape, Control
<1>10. ASSUME NEW t \in Calls, IngestCalled(t) \/ UploadRefused(t) \/ UploadRead(t) \/ UploadReadRaises(t)
       PROVE  Control'
  <2>1. /\ loop = Free /\ pc[t] = "new"
        /\ \/ loop' = t /\ pc' = [pc EXCEPT ![t] = "ready"]
           \/ loop' = t /\ pc' = [pc EXCEPT ![t] = "raised"]
           \/ loop' = loop /\ pc' = [pc EXCEPT ![t] = "refused"]
        /\ UNCHANGED <<left, todo, dead>>
    BY <1>10 DEF IngestCalled, UploadRefused, UploadRead, UploadReadRaises
  <2>2. CASE loop' = t /\ pc' = [pc EXCEPT ![t] = "ready"]
    BY <1>2, <2>1, <2>2 DEF CallShape, Control
  <2>3. CASE loop' = t /\ pc' = [pc EXCEPT ![t] = "raised"]
    BY <1>2, <2>1, <2>3 DEF CallShape, Control
  <2>4. CASE loop' = loop /\ pc' = [pc EXCEPT ![t] = "refused"]
    BY <1>2, <2>1, <2>4 DEF CallShape, Control
  <2> QED
    BY <2>1, <2>2, <2>3, <2>4
<1>11. ASSUME NEW ws \in Sockets, Subscribe(ws) \/ ClientLeaves(ws) \/ HandlerEnds(ws)
       PROVE  Control'
  BY <1>11 DEF Subscribe, ClientLeaves, HandlerEnds, Control
<1>12. ASSUME NEW r \in Pollers, \/ Poll(r) \/ Read(r) \/ ListHosts(r) \/ NextHost(r)
                                 \/ ListRaises(r) \/ ReadColumn(r)
                                 \/ CountWindows(r) \/ Counted(r)
       PROVE  Control'
  BY <1>12 DEF Poll, Read, ListHosts, NextHost, ListRaises, ReadColumn, CountWindows,
               Counted, Control
<1> QED
  BY <1>1, <1>2, <1>3, <1>4, <1>5, <1>6, <1>7, <1>8, <1>9, <1>10, <1>11, <1>12 DEF ApiNext, Runs

(* The shape is kept by every step, and the state at start-up has it. *)
LEMMA ApiShapeKept ==
  ASSUME ApiAssumption, ApiShape, [ApiNext]_apiVars
  PROVE  ApiShape'
<1> QED
  BY SessionShapeKept, CallShapeKept, FeedShapeKept, PollShapeKept, ControlKept DEF ApiShape

(* One session, nothing in it, and every call new. *)
LEMMA ApiShapeAtStart ==
  ASSUME ApiAssumption, ApiInit
  PROVE  ApiShape
<1> USE DEF ApiInit
<1>1. NoStats \in StatsType /\ <<>> \in Seq(HostType) /\ <<>> \in Seq(RowType)
      /\ <<>> \in Seq(AlertType) /\ Len(<<>>) = 0 /\ MaxItems >= 0
  BY EmptySeq DEF NoStats, StatsType, ApiAssumption
<1>2. /\ statsOf \in Seq(StatsType) /\ Len(statsOf) = 1 /\ statsOf # <<>>
      /\ baselines \in Seq(Seq(HostType)) /\ Len(baselines) = 1
      /\ DOMAIN statsOf = {1}
  BY <1>1
<1>3. SessionShape
  <2>1. Persisted \in Seq(Elements(Persisted)) /\ Elements(Persisted) \subseteq AlertType
    BY DEF ApiAssumption, AlertType
  <2>2. Persisted \in Seq(AlertType)
    <3> HIDE DEF AlertType
    <3> QED
      BY <2>1, ElementOfSeq, LenProperties
  <2> QED
    BY <1>2, <2>2 DEF SessionShape, ApiAssumption
<1>4. /\ Calls = Ingests \cup Uploads /\ Free \notin Calls
      /\ \A t \in Calls : Len(Body[t]) \in Nat
  BY LenProperties DEF Calls, ApiAssumption
<1>5. CallShape
  BY <1>1, <1>4 DEF CallShape, Ended
<1>6. FeedShape
  BY <1>1 DEF FeedShape
<1>7. Blank(1) \in SeenType /\ Blank(1).session = 1 /\ NoListing \in ListType /\ NoListing.session = 1
  BY <1>1 DEF Blank, NoListing, SeenType, ListType
<1>8. PollShape
  BY <1>2, <1>7 DEF PollShape, Phases
<1>9. Control
  BY <1>4 DEF Control, Broadcasting, Ended
<1> QED
  BY <1>3, <1>5, <1>6, <1>8, <1>9 DEF ApiShape

(* backend/api/main.py: the state keeps its shape: a call that is neither new nor over  *)
(* either holds the event loop or is suspended in a broadcast, there is always a newest *)
(* session, and a broadcast that is over leaves no socket behind to serve or discard.   *)
THEOREM ApiTypeCorrect == ApiSpec => []ApiTypeOK
<1>1. ApiInit => ApiShape
  BY ApiAssumption, ApiShapeAtStart
<1>2. ApiShape /\ [ApiNext]_apiVars => ApiShape'
  BY ApiAssumption, ApiShapeKept
<1>3. ApiShape => ApiTypeOK
  BY DEF ApiShape, SessionShape, CallShape, FeedShape, Control, ApiTypeOK, StatsType, Calls, Ended
<1> QED
  BY <1>1, <1>2, <1>3, PTL DEF ApiSpec

-------------------------------------------------------------------------------
(* The counters *)

(* No event is in process when the loop is free, or its holder is elsewhere. *)
LEMMA NobodyInProcess ==
  ASSUME ApiAssumption, ApiShape,
         loop = Free \/ \E t \in Calls : loop = t /\ pc[t] \notin {"inside", "scored"}
  PROVE  ~InProcess
<1> QED
  BY DEF InProcess, ApiShape, Control, ApiAssumption

(* Then the newest session's counters are balanced. *)
LEMMA StatsBalanced ==
  ASSUME ApiAssumption, ApiShape, SessionsBalanced,
         loop = Free \/ \E t \in Calls : loop = t /\ pc[t] \notin {"inside", "scored"}
  PROVE  Balanced(Stats)
<1> QED
  BY NobodyInProcess, NewestSession DEF SessionsBalanced, Stats, ApiShape

(* Where an event begins and ends; nothing else changes the calls in process. *)
LEMMA ProcessMoves ==
  ASSUME ApiAssumption, ApiShape, [ApiNext]_apiVars
  PROVE  \/ \E t \in Calls : Receive(t) \/ Score(t) \/ Accept(t) \/ Reject(t)
         \/ \A t \in Calls : pc[t] \in {"inside", "scored"} \/ pc'[t] \in {"inside", "scored"}
                            => pc'[t] = pc[t]
<1> USE DEF ApiShape
<1>1. CASE UNCHANGED apiVars
  BY <1>1 DEF apiVars
<1>2. ASSUME NEW t \in Calls, IngestRaises(t) \/ ParseRaises(t) \/ UploadRaises(t) \/ Analysed(t) \/ Resume(t)
      PROVE  \A q \in Calls : pc[q] \in {"inside", "scored"} \/ pc'[q] \in {"inside", "scored"}
                              => pc'[q] = pc[q]
  BY <1>2 DEF IngestRaises, ParseRaises, UploadRaises, Analysed, Resume, CallShape
<1>3. ASSUME NEW t \in Calls, Publish(t) \/ EndOfAlert(t) \/ EndOfMetrics(t) \/ \E ws \in Sockets : Send(t, ws)
      PROVE  \A q \in Calls : pc[q] \in {"inside", "scored"} \/ pc'[q] \in {"inside", "scored"}
                              => pc'[q] = pc[q]
  <2>1. /\ pc[t] \notin {"inside", "scored"}
        /\ \/ pc' = pc
           \/ \E p \in {"alert", "metrics", "returned"} : pc' = [pc EXCEPT ![t] = p]
    BY <1>3 DEF Publish, EndOfAlert, EndOfMetrics, Send, SendsTo, StartsMetrics
  <2> QED
    BY <2>1 DEF CallShape
<1>4. ASSUME NEW t \in Calls, IngestCalled(t) \/ UploadRefused(t) \/ UploadRead(t) \/ UploadReadRaises(t)
      PROVE  \A q \in Calls : pc[q] \in {"inside", "scored"} \/ pc'[q] \in {"inside", "scored"}
                              => pc'[q] = pc[q]
  BY <1>4 DEF IngestCalled, UploadRefused, UploadRead, UploadReadRaises, CallShape
<1>5. ASSUME NEW ws \in Sockets, Subscribe(ws) \/ ClientLeaves(ws) \/ HandlerEnds(ws)
      PROVE  UNCHANGED pc
  BY <1>5 DEF Subscribe, ClientLeaves, HandlerEnds
<1>6. ASSUME NEW r \in Pollers, \/ Poll(r) \/ Read(r) \/ ListHosts(r) \/ NextHost(r)
                                \/ ListRaises(r) \/ ReadColumn(r)
                                \/ CountWindows(r) \/ Counted(r)
      PROVE  UNCHANGED pc
  BY <1>6 DEF Poll, Read, ListHosts, NextHost, ListRaises, ReadColumn, CountWindows,
              Counted
<1> QED
  BY <1>1, <1>2, <1>3, <1>4, <1>5, <1>6 DEF ApiNext, Runs, Calls

(* One event more is received, and counted out before the next. *)
LEMMA SessionsBalancedKept ==
  ASSUME ApiAssumption, ApiShape, SessionsBalanced, [ApiNext]_apiVars
  PROVE  SessionsBalanced'
<1> USE DEF ApiShape
<1>1. /\ Len(statsOf) \in Nat /\ Len(statsOf) \in 1..Len(statsOf) /\ DOMAIN statsOf = 1..Len(statsOf)
      /\ Stats \in StatsType
  BY NewestSession
<1>2. SessionShape' /\ ApiShape'
  BY ApiShapeKept
<1>3. /\ DOMAIN statsOf' = 1..Len(statsOf')
      /\ Stats' = statsOf'[Len(statsOf')] /\ Stats = statsOf[Len(statsOf)]
  BY <1>2, LenProperties DEF SessionShape, Stats
<1>4. ASSUME NEW t \in Calls, Receive(t)
      PROVE  SessionsBalanced'
  <2>1. Balanced(Stats) /\ ~InProcess
    BY <1>4, StatsBalanced, NobodyInProcess DEF Receive
  <2>2. /\ Len(statsOf') = Len(statsOf)
        /\ \A n \in DOMAIN statsOf : n # Len(statsOf) => statsOf'[n] = statsOf[n]
        /\ statsOf'[Len(statsOf)] = [Stats EXCEPT !.received = @ + 1]
    BY <1>4, CountEffect DEF Receive
  <2>3. InProcess'
    BY <1>4 DEF Receive, InProcess, CallShape
  <2>4. /\ statsOf'[Len(statsOf)].received
             = statsOf'[Len(statsOf)].accepted + statsOf'[Len(statsOf)].failed + 1
        /\ ~Balanced(statsOf'[Len(statsOf)])
    BY <1>1, <2>1, <2>2 DEF Balanced, StatsType
  <2>5. \A n \in DOMAIN statsOf : Balanced(statsOf[n])
    BY <2>1 DEF SessionsBalanced
  <2> QED
    BY <1>1, <1>3, <2>2, <2>3, <2>4, <2>5 DEF SessionsBalanced
<1>5. ASSUME NEW t \in Calls, Accept(t) \/ Reject(t)
      PROVE  SessionsBalanced'
  <2>1. loop = t /\ InProcess
    BY <1>5 DEF Accept, Reject, InProcess
  <2>2. Stats.received = Stats.accepted + Stats.failed + 1
    BY <1>1, <1>3, <2>1 DEF SessionsBalanced
  <2>3. /\ Len(statsOf') = Len(statsOf)
        /\ \A n \in DOMAIN statsOf : n # Len(statsOf) => statsOf'[n] = statsOf[n]
        /\ \/ statsOf'[Len(statsOf)] = [Stats EXCEPT !.accepted = @ + 1]
           \/ statsOf'[Len(statsOf)] = [Stats EXCEPT !.failed = @ + 1]
    BY <1>5, CountEffect DEF Accept, Reject
  <2>4. Balanced(statsOf'[Len(statsOf)])
    <3>1. /\ Balanced([Stats EXCEPT !.accepted = @ + 1])
          /\ Balanced([Stats EXCEPT !.failed = @ + 1])
      BY <1>1, <2>2 DEF Balanced, StatsType
    <3> QED
      BY <2>3, <3>1
  <2>5. loop' = t /\ pc'[t] \notin {"inside", "scored"}
    BY <1>5 DEF Accept, Reject, CallShape
  <2>6. ~InProcess'
    BY <1>2, <2>5 DEF InProcess, Control
  <2>7. \A n \in DOMAIN statsOf : n # Len(statsOf) => Balanced(statsOf[n])
    BY DEF SessionsBalanced
  <2> QED
    BY <1>1, <1>3, <2>3, <2>4, <2>6, <2>7 DEF SessionsBalanced
<1>6. ASSUME NEW t \in Calls, Score(t)
      PROVE  SessionsBalanced'
  <2>1. statsOf' = statsOf /\ InProcess /\ InProcess'
    BY <1>6 DEF Score, InProcess, CallShape
  <2> QED
    BY <1>1, <1>3, <2>1 DEF SessionsBalanced
<1>7. ASSUME NEW u \in Uploads, ResetBy(u), ~InProcess, ~InProcess'
      PROVE  SessionsBalanced'
  <2>1. /\ Len(statsOf') = Len(statsOf) + 1
        /\ \A n \in DOMAIN statsOf : statsOf'[n] = statsOf[n]
        /\ statsOf'[Len(statsOf')] = NoStats
    BY <1>7, ResetEffect
  <2>2. Balanced(NoStats)
    BY DEF Balanced, NoStats
  <2>3. \A n \in DOMAIN statsOf : Balanced(statsOf[n])
    BY <1>7 DEF SessionsBalanced
  <2>4. \A n \in DOMAIN statsOf' : Balanced(statsOf'[n])
    BY <1>1, <1>3, <2>1, <2>2, <2>3
  <2> QED
    BY <1>7, <2>4 DEF SessionsBalanced
<1>8. ASSUME UNCHANGED sessionVars,
             \A t \in Calls : pc[t] \in {"inside", "scored"} \/ pc'[t] \in {"inside", "scored"}
                             => pc'[t] = pc[t]
      PROVE  SessionsBalanced'
  <2>1. statsOf' = statsOf /\ InProcess' = InProcess
    BY <1>8 DEF sessionVars, InProcess
  <2> QED
    BY <1>1, <1>3, <2>1 DEF SessionsBalanced
<1>9. ASSUME NEW u \in Uploads, UploadRead(u) \/ UploadRaises(u)
      PROVE  ResetBy(u) /\ ~InProcess /\ ~InProcess'
  <2>1. ~InProcess
    BY <1>9, NobodyInProcess DEF UploadRead, UploadRaises, Calls
  <2>2. /\ u \in Calls
        /\ pc' = [pc EXCEPT ![u] = "ready"] \/ pc' = [pc EXCEPT ![u] = "failed"]
    BY <1>9 DEF UploadRead, UploadRaises, Calls
  <2> QED
    BY <1>9, <2>1, <2>2 DEF UploadRead, UploadRaises, InProcess, CallShape
<1> QED
  BY <1>4, <1>5, <1>6, <1>7, <1>8, <1>9, SessionMoves, ProcessMoves

(* What is sent was read while nobody was in the middle of an event. *)
LEMMA SentBalancedKept ==
  ASSUME ApiAssumption, ApiShape, SessionsBalanced, SentBalanced, [ApiNext]_apiVars
  PROVE  SentBalanced'
<1> USE DEF ApiShape, SentBalanced
<1>1. CASE UNCHANGED <<metricsOf, metricsTo>>
  BY <1>1
<1>2. Balanced(NoStats)
  BY DEF Balanced, NoStats
<1>3. ASSUME NEW t \in Calls, Publish(t) \/ EndOfAlert(t)
      PROVE  SentBalanced'
  <2>1. /\ t \in Ingests
        /\ metricsOf' = metricsOf \/ metricsOf' = [metricsOf EXCEPT ![t] = Stats]
        /\ metricsTo' = metricsTo
    BY <1>3 DEF Publish, EndOfAlert, StartsMetrics, Control, Broadcasting, feedVars
  <2>2. Balanced(Stats)
    BY <1>3, StatsBalanced DEF Publish, EndOfAlert
  <2> QED
    BY <2>1, <2>2 DEF CallShape
<1>4. ASSUME NEW t \in Calls, NEW ws \in Sockets, Send(t, ws)
      PROVE  SentBalanced'
  <2>1. /\ t \in Ingests /\ metricsOf' = metricsOf
        /\ metricsTo' = metricsTo \/ metricsTo' = [metricsTo EXCEPT ![ws] = metricsOf[t]]
    BY <1>4 DEF Send, SendsTo, Delivered, Control, Broadcasting
  <2> QED
    BY <2>1 DEF FeedShape
<1>5. ASSUME NEW ws \in Sockets, Subscribe(ws)
      PROVE  SentBalanced'
  <2>1. Balanced(Stats)
    BY <1>5, StatsBalanced DEF Subscribe
  <2> QED
    BY <1>5, <2>1 DEF Subscribe, FeedShape, castVars
<1>6. ASSUME NEW ws \in Sockets, ClientLeaves(ws) \/ HandlerEnds(ws)
      PROVE  SentBalanced'
  BY <1>2, <1>6 DEF ClientLeaves, HandlerEnds, FeedShape, castVars
<1>7. ASSUME NEW t \in Calls, EndOfMetrics(t)
      PROVE  UNCHANGED <<metricsOf, metricsTo>>
  BY <1>7 DEF EndOfMetrics
<1>8. CASE UNCHANGED feedVars
  <2>1. metricsTo' = metricsTo
    BY <1>8 DEF feedVars
  <2>2. \/ metricsOf' = metricsOf
        \/ \E t \in Calls : Publish(t) \/ EndOfAlert(t) \/ \E ws \in Sockets : Send(t, ws)
        \/ \E ws \in Sockets : Subscribe(ws) \/ ClientLeaves(ws) \/ HandlerEnds(ws)
    BY MetricsMoves
  <2> QED
    BY <1>1, <1>3, <1>4, <1>5, <1>6, <2>1, <2>2
<1> QED
  BY <1>3, <1>4, <1>5, <1>6, <1>7, <1>1, <1>8, FeedMoves

(* A counter of a session, old or new, is never turned back. *)
LEMMA CountersGrow ==
  ASSUME ApiAssumption, ApiShape, [ApiNext]_apiVars, NEW n \in DOMAIN statsOf
  PROVE  /\ statsOf[n] \in StatsType /\ n \in DOMAIN statsOf' /\ statsOf'[n] \in StatsType
         /\ statsOf'[n].received >= statsOf[n].received
         /\ statsOf'[n].accepted >= statsOf[n].accepted
         /\ statsOf'[n].failed >= statsOf[n].failed
<1> USE DEF ApiShape
<1>1. statsOf[n] \in StatsType /\ Stats \in StatsType /\ Stats = statsOf[Len(statsOf)]
  BY NewestSession, ElementOfSeq DEF SessionShape, Stats
<1>2. n \in DOMAIN statsOf' /\ statsOf'[n] \in StatsType
  <2>1. n \in DOMAIN statsOf'
    BY SessionsStay
  <2>2. \A s \in Seq(StatsType) : \A i \in DOMAIN s : s[i] \in StatsType
    BY LenProperties, ElementOfSeq
  <2>3. statsOf' \in Seq(StatsType)
    BY SessionShapeKept DEF SessionShape
  <2> QED
    BY <2>1, <2>2, <2>3
<1>3. ASSUME statsOf'[n] = statsOf[n]
      PROVE  /\ statsOf'[n].received >= statsOf[n].received
             /\ statsOf'[n].accepted >= statsOf[n].accepted
             /\ statsOf'[n].failed >= statsOf[n].failed
  BY <1>1, <1>3 DEF StatsType
<1>4. ASSUME NEW field \in {"received", "accepted", "failed"}, Count(field)
      PROVE  /\ statsOf'[n].received >= statsOf[n].received
             /\ statsOf'[n].accepted >= statsOf[n].accepted
             /\ statsOf'[n].failed >= statsOf[n].failed
  <2>1. CASE n # Len(statsOf)
    BY <1>3, <1>4, <2>1, CountEffect
  <2>2. CASE n = Len(statsOf)
    <3>1. statsOf'[n] = [statsOf[n] EXCEPT ![field] = @ + 1]
      BY <1>1, <1>4, <2>2, CountEffect
    <3>2. \A s \in StatsType : LET m == [s EXCEPT ![field] = @ + 1]
                              IN  /\ m.received >= s.received
                                  /\ m.accepted >= s.accepted
                                  /\ m.failed >= s.failed
      BY DEF StatsType
    <3> QED
      BY <1>1, <3>1, <3>2
  <2> QED
    BY <2>1, <2>2
<1>5. CASE UNCHANGED sessionVars
  BY <1>2, <1>3, <1>5, <1>1 DEF sessionVars
<1>6. ASSUME NEW t \in Calls, Receive(t) \/ Score(t) \/ Accept(t) \/ Reject(t)
      PROVE  /\ statsOf'[n].received >= statsOf[n].received
             /\ statsOf'[n].accepted >= statsOf[n].accepted
             /\ statsOf'[n].failed >= statsOf[n].failed
  BY <1>3, <1>4, <1>6 DEF Receive, Score, Accept, Reject
<1>7. ASSUME NEW u \in Uploads, UploadRead(u) \/ UploadRaises(u)
      PROVE  statsOf'[n] = statsOf[n]
  BY <1>7, ResetEffect DEF UploadRead, UploadRaises
<1> QED
  BY <1>1, <1>2, <1>3, <1>5, <1>6, <1>7, SessionMoves

(* At most one event is received and not yet counted out, in any session. *)
LEMMA SessionLag ==
  ASSUME ApiShape, SessionsBalanced, NEW n \in DOMAIN statsOf
  PROVE  statsOf[n].received <= statsOf[n].accepted + statsOf[n].failed + 1
<1>1. statsOf[n] \in StatsType
  BY NewestSession, ElementOfSeq DEF ApiShape, SessionShape
<1> QED
  BY <1>1 DEF SessionsBalanced, Balanced, StatsType

(* A poller that has read received first never sees more received than it will see *)
(* counted out, but for one.                                                       *)
LEMMA PollersInvKept ==
  ASSUME ApiAssumption, ApiShape, SessionsBalanced, PollersInv, [ApiNext]_apiVars
  PROVE  PollersInv'
<1> USE DEF ApiShape
<1> SUFFICES ASSUME NEW r \in Pollers
             PROVE  LET s == statsOf'[seen'[r].session]
                    IN  /\ pollPc'[r] = "received" => seen'[r].received <= s.accepted + s.failed + 1
                        /\ pollPc'[r] = "accepted" => seen'[r].received <= seen'[r].accepted + s.failed + 1
                        /\ pollPc'[r] \notin DOMAIN Fields =>
                             seen'[r].received <= seen'[r].accepted + seen'[r].failed + 1
  BY DEF PollersInv
<1> DEFINE n == seen[r].session
<1>1. /\ seen[r] \in SeenType /\ n \in DOMAIN statsOf
  BY DEF PollShape
<1>2. /\ statsOf[n] \in StatsType /\ statsOf'[n] \in StatsType
      /\ statsOf'[n].accepted >= statsOf[n].accepted
      /\ statsOf'[n].failed >= statsOf[n].failed
  BY <1>1, CountersGrow
<1>3. statsOf[n].received <= statsOf[n].accepted + statsOf[n].failed + 1
  BY <1>1, SessionLag
<1>4. /\ pollPc[r] = "received" => seen[r].received <= statsOf[n].accepted + statsOf[n].failed + 1
      /\ pollPc[r] = "accepted" => seen[r].received <= seen[r].accepted + statsOf[n].failed + 1
      /\ pollPc[r] \notin DOMAIN Fields => seen[r].received <= seen[r].accepted + seen[r].failed + 1
  BY DEF PollersInv
<1> HIDE DEF n
<1>5. CASE pollPc'[r] = pollPc[r] /\ seen'[r] = seen[r]
  <2>1. seen'[r].session = n /\ seen[r] \in SeenType
    BY <1>1, <1>5 DEF n
  <2>2. /\ statsOf[n].accepted \in Nat /\ statsOf[n].failed \in Nat
        /\ statsOf'[n].accepted \in Nat /\ statsOf'[n].failed \in Nat
        /\ seen[r].received \in Nat /\ seen[r].accepted \in Nat /\ seen[r].failed \in Nat
    BY <1>2, <2>1 DEF SeenType, StatsType
  <2>3. PICK a, b, c, d, x, y :
          /\ a = statsOf[n].accepted /\ b = statsOf[n].failed
          /\ c = statsOf'[n].accepted /\ d = statsOf'[n].failed
          /\ x = seen[r].received /\ y = seen[r].accepted
    OBVIOUS
  <2>4. /\ a \in Nat /\ b \in Nat /\ c \in Nat /\ d \in Nat /\ x \in Nat /\ y \in Nat
        /\ c >= a /\ d >= b
    BY <1>2, <2>2, <2>3
  <2>5. (x <= a + b + 1 => x <= c + d + 1) /\ (x <= y + b + 1 => x <= y + d + 1)
    BY <2>4
  <2>6. pollPc[r] = "received" => x <= c + d + 1
    <3>1. pollPc[r] = "received" => x <= a + b + 1
      BY <1>4, <2>3
    <3> QED
      BY <2>5, <3>1
  <2>7. pollPc[r] = "accepted" => x <= y + d + 1
    <3>1. pollPc[r] = "accepted" => x <= y + b + 1
      BY <1>4, <2>3
    <3> QED
      BY <2>5, <3>1
  <2>8. pollPc[r] \notin DOMAIN Fields => seen[r].received <= seen[r].accepted + seen[r].failed + 1
    BY <1>4
  <2> QED
    BY <1>5, <2>1, <2>3, <2>6, <2>7, <2>8
<1>6. CASE Poll(r) \/ ListHosts(r)
  <2>1. seen'[r].received = 0 /\ seen'[r].accepted = 0 /\ seen'[r].failed = 0
        /\ pollPc'[r] \in {"idle", "hosts"}
    BY <1>6 DEF Poll, ListHosts, Blank, PollShape
  <2> QED
    BY <2>1
<1>7. CASE \/ NextHost(r) \/ ListRaises(r) \/ ReadColumn(r)
           \/ CountWindows(r) \/ Counted(r)
  <2>1. /\ pollPc[r] \in {"hosts", "host", "observations", "failed", "windows"}
        /\ pollPc'[r] \in {"host", "listed", "crashed", "hosts", "observations",
                          "windows", "answered"}
        /\ seen'[r] = seen[r]
    BY <1>7, FieldCases DEF NextHost, ListRaises, ReadColumn, CountWindows, Counted, PollShape
  <2> QED
    BY <1>4, <2>1, FieldCases
<1>8. CASE Read(r)
  <2>1. PICK s \in StatsType :
           /\ s = statsOf[n]
           /\ \/ /\ pollPc[r] = "idle" /\ pollPc' = [pollPc EXCEPT ![r] = "received"]
                 /\ seen' = [seen EXCEPT ![r] = [seen[r] EXCEPT !.received = s.received]]
              \/ /\ pollPc[r] = "received" /\ pollPc' = [pollPc EXCEPT ![r] = "accepted"]
                 /\ seen' = [seen EXCEPT ![r] = [seen[r] EXCEPT !.accepted = s.accepted]]
              \/ /\ pollPc[r] = "accepted" /\ pollPc' = [pollPc EXCEPT ![r] = "failed"]
                 /\ seen' = [seen EXCEPT ![r] = [seen[r] EXCEPT !.failed = s.failed]]
    BY <1>8, ReadEffect DEF n
  <2>2. statsOf' = statsOf
    BY <1>8 DEF Read, sessionVars
  <2>3. CASE /\ pollPc'[r] = "received"
             /\ seen'[r] = [seen[r] EXCEPT !.received = s.received]
    BY <1>1, <1>3, <2>1, <2>2, <2>3, FieldCases DEF n, SeenType, StatsType
  <2>4. CASE /\ pollPc[r] = "received" /\ pollPc'[r] = "accepted"
             /\ seen'[r] = [seen[r] EXCEPT !.accepted = s.accepted]
    BY <1>1, <1>4, <2>1, <2>2, <2>4, FieldCases DEF n, SeenType, StatsType
  <2>5. CASE /\ pollPc[r] = "accepted" /\ pollPc'[r] = "failed"
             /\ seen'[r] = [seen[r] EXCEPT !.failed = s.failed]
    BY <1>1, <1>4, <2>1, <2>2, <2>5, FieldCases DEF n, SeenType, StatsType
  <2> QED
    BY <2>1, <2>3, <2>4, <2>5 DEF PollShape
<1> QED
  BY <1>5, <1>6, <1>7, <1>8, PollerMoves

-------------------------------------------------------------------------------
(* The sockets *)

(* Whoever is discarded has left, and whoever is connected stays subscribed. *)
LEMMA SocketsInvKept ==
  ASSUME ApiAssumption, ApiShape, SocketsInv, [ApiNext]_apiVars
  PROVE  SocketsInv'
<1> USE DEF ApiShape, SocketsInv, SubscribersAreConnected
<1>1. CASE UNCHANGED feedVars /\ UNCHANGED dead
  BY <1>1 DEF feedVars
<1>2. ASSUME NEW t \in Calls, EndOfAlert(t) \/ EndOfMetrics(t)
      PROVE  SocketsInv'
  <2>1. /\ t \in Ingests
        /\ subscribers' = subscribers \ dead[t] /\ dead' = [dead EXCEPT ![t] = {}]
        /\ socket' = socket
    BY <1>2 DEF EndOfAlert, EndOfMetrics, Control, Broadcasting
  <2> QED
    BY <2>1 DEF CallShape
<1>3. ASSUME NEW t \in Calls, NEW ws \in Sockets, Send(t, ws)
      PROVE  SocketsInv'
  <2>1. /\ t \in Ingests /\ UNCHANGED <<socket, subscribers>>
        /\ \/ dead' = dead
           \/ socket[ws] \in {"gone", "closed"} /\ dead' = [dead EXCEPT ![t] = @ \cup {ws}]
    BY <1>3 DEF Send, SendsTo, Control, Broadcasting
  <2> QED
    BY <2>1, SMTT(30) DEF CallShape
<1>4. ASSUME NEW ws \in Sockets, Subscribe(ws)
      PROVE  SocketsInv'
  BY <1>4 DEF Subscribe, FeedShape, CallShape, castVars
<1>5. ASSUME NEW ws \in Sockets, ClientLeaves(ws)
      PROVE  SocketsInv'
  BY <1>5 DEF ClientLeaves, FeedShape, CallShape, castVars
<1>6. ASSUME NEW ws \in Sockets, HandlerEnds(ws)
      PROVE  SocketsInv'
  BY <1>6 DEF HandlerEnds, FeedShape, CallShape, castVars
<1> QED
  BY <1>1, <1>2, <1>3, <1>4, <1>5, <1>6, FeedMoves

-------------------------------------------------------------------------------
(* What an ingest attaches *)

(* A call is moved by its own steps only. *)
OwnStep(t) == \/ Runs(t) \/ Resume(t) \/ IngestCalled(t)
              \/ UploadRefused(t) \/ UploadRead(t) \/ UploadReadRaises(t)
LEMMA CallMoves ==
  ASSUME ApiShape, [ApiNext]_apiVars, NEW t \in Calls
  PROVE  \/ OwnStep(t)
         \/ /\ pc'[t] = pc[t] /\ left'[t] = left[t]
            /\ t \in Ingests => raised'[t] = raised[t] /\ attached'[t] = attached[t]
<1> DEFINE Still == /\ pc'[t] = pc[t] /\ left'[t] = left[t]
                    /\ t \in Ingests => raised'[t] = raised[t] /\ attached'[t] = attached[t]
<1> USE DEF ApiShape, castVars
<1>1. CASE UNCHANGED apiVars
  BY <1>1 DEF apiVars
<1>2. ASSUME NEW q \in Calls, q # t, Receive(q) \/ Score(q) \/ Reject(q)
      PROVE  Still
  BY <1>2 DEF Receive, Score, Reject, CallShape
<1>3. ASSUME NEW q \in Calls, q # t, Accept(q)
      PROVE  Still
  BY <1>3 DEF Accept, CallShape
<1>4. ASSUME NEW q \in Calls, q # t,
             IngestRaises(q) \/ ParseRaises(q) \/ UploadRaises(q) \/ Analysed(q) \/ Resume(q)
      PROVE  Still
  BY <1>4 DEF IngestRaises, ParseRaises, UploadRaises, Analysed, Resume, CallShape
<1>5. ASSUME NEW q \in Calls, q # t, Publish(q)
      PROVE  Still
  <2>1. /\ pc' = [pc EXCEPT ![q] = "alert"] \/ pc' = [pc EXCEPT ![q] = "metrics"]
        /\ attached' = [attached EXCEPT ![q] = Attachment(q)]
        /\ UNCHANGED <<left, raised>>
    BY <1>5 DEF Publish, StartsMetrics
  <2> QED
    BY <1>5, <2>1 DEF CallShape
<1>6. ASSUME NEW q \in Calls, q # t, EndOfAlert(q) \/ EndOfMetrics(q)
      PROVE  Still
  BY <1>6 DEF EndOfAlert, EndOfMetrics, StartsMetrics, CallShape
<1>7. ASSUME NEW q \in Calls, NEW ws \in Sockets, Send(q, ws)
      PROVE  Still
  BY <1>7 DEF Send, SendsTo
<1>8. ASSUME NEW q \in Calls, q # t,
             IngestCalled(q) \/ UploadRefused(q) \/ UploadRead(q) \/ UploadReadRaises(q)
      PROVE  Still
  BY <1>8 DEF IngestCalled, UploadRefused, UploadRead, UploadReadRaises, CallShape
<1>9. ASSUME NEW ws \in Sockets, Subscribe(ws) \/ ClientLeaves(ws) \/ HandlerEnds(ws)
      PROVE  Still
  BY <1>9 DEF Subscribe, ClientLeaves, HandlerEnds
<1>10. ASSUME NEW r \in Pollers, \/ Poll(r) \/ Read(r) \/ ListHosts(r) \/ NextHost(r)
                                 \/ ListRaises(r) \/ ReadColumn(r)
                                 \/ CountWindows(r) \/ Counted(r)
       PROVE  Still
  BY <1>10 DEF Poll, Read, ListHosts, NextHost, ListRaises, ReadColumn, CountWindows,
               Counted
<1>11. ASSUME NEW q \in Calls, Runs(q) \/ Resume(q)
       PROVE  Still \/ OwnStep(t)
  <2>1. CASE q = t
    BY <1>11, <2>1 DEF OwnStep
  <2>2. CASE q # t
    BY <1>2, <1>3, <1>4, <1>5, <1>6, <1>7, <1>11, <2>2 DEF Runs
  <2> QED
    BY <2>1, <2>2
<1>12. ASSUME NEW q \in Calls,
              IngestCalled(q) \/ UploadRefused(q) \/ UploadRead(q) \/ UploadReadRaises(q)
       PROVE  Still \/ OwnStep(t)
  <2>1. CASE q = t
    BY <1>12, <2>1 DEF OwnStep
  <2>2. CASE q # t
    BY <1>8, <1>12, <2>2
  <2> QED
    BY <2>1, <2>2
<1>13. \A q \in Ingests : IngestCalled(q) => Still \/ OwnStep(t)
  BY <1>12 DEF Calls
<1>14. \A q \in Uploads : UploadRefused(q) \/ UploadRead(q) \/ UploadReadRaises(q) => Still \/ OwnStep(t)
  BY <1>12 DEF Calls
<1>15. CASE ApiNext
  <2>1. CASE \E q \in Calls : Runs(q) \/ Resume(q)
    BY <1>11, <2>1
  <2>2. CASE \/ \E q \in Ingests : IngestCalled(q)
             \/ \E q \in Uploads : UploadRefused(q) \/ UploadRead(q) \/ UploadReadRaises(q)
    BY <1>13, <1>14, <2>2
  <2>3. CASE \E ws \in Sockets : Subscribe(ws) \/ ClientLeaves(ws) \/ HandlerEnds(ws)
    BY <1>9, <2>3
  <2>4. CASE \E r \in Pollers : \/ Poll(r) \/ Read(r) \/ ListHosts(r) \/ NextHost(r)
                                \/ ListRaises(r) \/ ReadColumn(r)
                                \/ CountWindows(r) \/ Counted(r)
    BY <1>10, <2>4
  <2> QED
    BY <1>15, <2>1, <2>2, <2>3, <2>4 DEF ApiNext
<1> QED
  BY <1>1, <1>15

(* Which alerts there are after a step. *)
LEMMA AlertsMove ==
  ASSUME ApiAssumption, ApiShape, [ApiNext]_apiVars
  PROVE  \/ alerts' = alerts
         \/ \E u \in Uploads : UploadRead(u) \/ UploadRaises(u)
         \/ \E q \in Calls, f \in DOMAIN Sender :
              /\ Accept(q) \/ Reject(q)
              /\ f \in Elements(Body[q])
              /\ \A b \in Elements(alerts') : b \in Elements(alerts) \/ b.flow = f
<1> USE DEF ApiShape
<1>1. ASSUME NEW q \in Calls, Accept(q) \/ Reject(q), alerts' # alerts
      PROVE  \E f \in DOMAIN Sender :
              /\ f \in Elements(Body[q])
              /\ \A b \in Elements(alerts') : b \in Elements(alerts) \/ b.flow = f
  <2>1. PICK a \in AlertsOf(q) : alerts' = Noted(a) /\ left[q] > 0
    BY <1>1 DEF Accept, Reject, Control
  <2>2. a \in AlertType /\ a.flow = Current(q) /\ Current(q) \in Elements(Body[q])
        /\ Current(q) \in DOMAIN Sender
    BY <2>1, AlertsOfType, CurrentOfBody
  <2>3. Elements(Noted(a)) \subseteq Elements(alerts) \cup {a}
    BY <2>2, NotedEffect
  <2> QED
    BY <2>1, <2>2, <2>3
<1>2. ASSUME NEW q \in Calls, Receive(q) \/ Score(q)
      PROVE  alerts' = alerts
  BY <1>2 DEF Receive, Score
<1> QED
  BY <1>1, <1>2, SessionMoves DEF sessionVars

(* While an ingest with an id of its own waits and runs, nobody else raises an alert of *)
(* its flow; its own, if any, is the newest when the answer is built.                   *)
LEMMA AttachInvKept ==
  ASSUME ApiAssumption, ApiShape, AttachInv, [ApiNext]_apiVars
  PROVE  AttachInv'
<1> USE DEF ApiShape
<1> SUFFICES ASSUME NEW t \in Ingests, UniqueId(t)
             PROVE  OwnAlert(t)'
  BY DEF AttachInv, UniqueId
<1>1. /\ t \in Calls /\ t \notin Uploads /\ Len(Body[t]) = 1 /\ Body[t][1] \in Elements(Body[t])
      /\ \A q \in Calls : q # t => Body[t][1] \notin Elements(Body[q])
  <2>1. Len(Body[t]) = 1 /\ DOMAIN Body[t] = 1..Len(Body[t])
    BY LenProperties DEF ApiAssumption, Calls
  <2> QED
    BY <2>1 DEF ApiAssumption, Calls, Elements, UniqueId
<1>2. OwnAlert(t)
  BY DEF AttachInv
<1> DEFINE NoAlert == \A a \in Elements(alerts) : a.flow # Body[t][1]
<1>3. /\ pc[t] \in {"ready", "inside", "scored"} => loop = t
      /\ left[t] \in Nat /\ left[t] <= 1
      /\ pc[t] = "new" => left[t] = 1
      /\ pc[t] \in {"inside", "scored"} => left[t] > 0
  <2>1. left[t] \in Nat /\ left[t] <= Len(Body[t]) /\ (pc[t] = "new" => left[t] = Len(Body[t]))
    BY <1>1 DEF Control, CallShape
  <2> QED
    BY <1>1, <2>1 DEF Control
<1>4. CASE /\ pc'[t] = pc[t] /\ left'[t] = left[t]
           /\ raised'[t] = raised[t] /\ attached'[t] = attached[t]
  <2>1. CASE alerts' = alerts
    BY <1>2, <1>4, <2>1 DEF OwnAlert, Attachment, Broadcasting
  <2>2. CASE \E u \in Uploads : UploadRead(u) \/ UploadRaises(u)
    <3>1. alerts' = <<>> /\ pc[t] \notin {"ready", "inside", "scored"}
      BY <1>1, <1>3, <2>2 DEF UploadRead, UploadRaises, ResetBy, ApiAssumption, Calls
    <3>2. Elements(<<>>) = {}
      BY DEF Elements
    <3> QED
      BY <1>2, <1>4, <3>1, <3>2 DEF OwnAlert, Broadcasting
  <2>3. ASSUME NEW q \in Calls, NEW f \in DOMAIN Sender,
               Accept(q) \/ Reject(q), f \in Elements(Body[q]),
               \A b \in Elements(alerts') : b \in Elements(alerts) \/ b.flow = f
        PROVE  OwnAlert(t)'
    <3>1. q # t /\ loop = q
      BY <1>1, <1>4, <2>3 DEF Accept, Reject, CallShape
    <3>2. pc[t] \notin {"ready", "inside", "scored"} /\ f # Body[t][1]
      BY <1>1, <1>3, <2>3, <3>1
    <3> QED
      BY <1>2, <1>4, <2>3, <3>2 DEF OwnAlert, Broadcasting
  <2> QED
    BY <2>1, <2>2, <2>3, AlertsMove
<1>5. CASE IngestCalled(t) \/ Receive(t) \/ Score(t)
  <2>1. /\ pc[t] = "new" \/ (pc[t] \in {"ready", "inside", "scored"} /\ left[t] > 0)
        /\ pc'[t] \in {"ready", "inside", "scored"} /\ left'[t] = left[t] /\ left'[t] > 0
        /\ UNCHANGED <<alerts, raised, attached>>
    BY <1>1, <1>3, <1>5 DEF IngestCalled, Receive, Score, CallShape, sessionVars, castVars
  <2> QED
    BY <1>2, <2>1 DEF OwnAlert, Broadcasting
<1>6. CASE Accept(t)
  <2>1. /\ pc'[t] = "ready" /\ left[t] = 1 /\ left'[t] = 0 /\ pc[t] = "scored"
    BY <1>1, <1>3, <1>6 DEF Accept, CallShape
  <2>2. NoAlert
    BY <1>2, <2>1 DEF OwnAlert
  <2>3. PICK found \in {<<>>} \cup {<<a>> : a \in AlertsOf(t)} :
          /\ alerts' = IF found = <<>> THEN alerts ELSE Noted(found[1])
          /\ raised'[t] = found
    BY <1>6 DEF Accept, CallShape
  <2>4. CASE found = <<>>
    <3>1. alerts = <<>> \/ alerts[Len(alerts)] \in Elements(alerts)
      <4>1. alerts # <<>> => Len(alerts) \in 1..Len(alerts)
        BY NonEmptySeq, LenProperties DEF SessionShape
      <4> QED
        BY <4>1, LenProperties DEF SessionShape, Elements
    <3>2. Attachment(t) = <<>>
      BY <2>2, <3>1 DEF Attachment
    <3>3. Attachment(t)' = <<>>
      BY <2>3, <2>4, <3>2 DEF Attachment
    <3> QED
      BY <2>1, <2>3, <2>4, <3>3 DEF OwnAlert, Broadcasting
  <2>5. CASE found # <<>>
    <3>1. PICK a \in AlertsOf(t) : found = <<a>>
      BY <2>5
    <3>2. Current(t) = Body[t][1]
      BY <1>1, <2>1 DEF Current
    <3>3. a \in AlertType /\ a.flow = Body[t][1]
      BY <1>1, <2>1, <3>2, AlertsOfType
    <3>4. a \notin Elements(alerts)
      BY <2>2, <3>3
    <3>5. Noted(a) # <<>> /\ Noted(a)[Len(Noted(a))] = a
      BY <3>3, <3>4, NotedEffect
    <3>6. alerts' = Noted(a)
      BY <2>3, <2>5, <3>1
    <3>7. Attachment(t)' = <<a>>
      BY <3>3, <3>5, <3>6 DEF Attachment
    <3> QED
      BY <2>1, <2>3, <3>1, <3>7 DEF OwnAlert, Broadcasting
  <2> QED
    BY <2>4, <2>5
<1>7. CASE Reject(t) \/ IngestRaises(t)
  <2>1. pc'[t] \in {"raised", "failed"}
    BY <1>1, <1>7 DEF Reject, IngestRaises, CallShape
  <2> QED
    BY <2>1 DEF OwnAlert, Broadcasting
<1>8. CASE Publish(t)
  <2>1. /\ pc[t] = "ready" /\ left[t] = 0 /\ pc'[t] \in {"alert", "metrics"}
        /\ attached'[t] = Attachment(t) /\ raised' = raised
    BY <1>1, <1>8 DEF Publish, StartsMetrics, CallShape
  <2> QED
    BY <1>2, <2>1 DEF OwnAlert, Broadcasting
<1>9. CASE EndOfAlert(t) \/ EndOfMetrics(t) \/ \E ws \in Sockets : Send(t, ws)
  <2>1. /\ pc[t] \in {"alert", "metrics"} /\ pc'[t] \in {"alert", "metrics", "returned"}
        /\ UNCHANGED <<raised, attached>>
    BY <1>1, <1>9 DEF EndOfAlert, EndOfMetrics, Send, SendsTo, StartsMetrics, CallShape
  <2> QED
    BY <1>2, <2>1 DEF OwnAlert, Broadcasting
<1>10. CASE Resume(t)
  <2>1. UNCHANGED <<pc, left, raised, attached, alerts>>
    BY <1>10 DEF Resume, sessionVars, castVars
  <2> QED
    BY <1>4, <2>1
<1>11. ~(ParseRaises(t) \/ UploadRaises(t) \/ Analysed(t) \/ UploadRefused(t) \/ UploadRead(t)
         \/ UploadReadRaises(t))
  BY <1>1 DEF ParseRaises, UploadRaises, Analysed, UploadRefused, UploadRead, UploadReadRaises
<1> QED
  BY <1>1, <1>4, <1>5, <1>6, <1>7, <1>8, <1>9, <1>10, <1>11, CallMoves DEF OwnStep, Runs

-------------------------------------------------------------------------------
(* The analysis *)

(* As long as no upload has the loop, the session and the analysis are settled. *)
LEMMA AnalysisFrame ==
  ASSUME ApiAssumption, ApiShape, AnalysisInv, UNCHANGED <<owner, analysis>>,
         loop \notin Uploads, loop' \notin Uploads,
         \A u \in Uploads : pc'[u] = pc[u] \/ (pc[u] = "new" /\ pc'[u] = "refused")
  PROVE  AnalysisInv'
<1>1. owner = <<>> \/ \E u \in Uploads : owner = <<u>>
  BY DEF AnalysisInv
<1>2. owner # <<>> => owner[1] \in Uploads /\ pc[owner[1]] \in {"returned", "failed"}
  BY <1>1 DEF AnalysisInv
<1>3. owner # <<>> => pc'[owner[1]] = pc[owner[1]]
  BY <1>2
<1>4. \A u \in Uploads : pc'[u] \notin {"ready", "inside", "scored"}
  BY DEF ApiShape, Control, Calls
<1>5. \A a \in Elements(analysis) : owner # <<>> /\ (owner = <<a.upload>> \/ pc[owner[1]] = "failed")
  BY <1>2 DEF AnalysisInv
<1>6. AnalysisOfOneCapture'
  BY DEF AnalysisInv, AnalysisOfOneCapture
<1> QED
  BY <1>1, <1>2, <1>3, <1>4, <1>5, <1>6 DEF AnalysisInv

(* An upload that has the loop counts its events from the reset on, and describes them. *)
LEMMA AnalysisInvKept ==
  ASSUME ApiAssumption, ApiShape, AnalysisInv, [ApiNext]_apiVars
  PROVE  AnalysisInv'
<1> USE DEF ApiShape
<1>1. /\ \A u \in Uploads : u \in Calls /\ u # Free
      /\ \A t \in Ingests : t \in Calls /\ t \notin Uploads
      /\ Free \notin Uploads
      /\ \A t \in Calls : t \in Ingests \/ t \in Uploads
  BY DEF ApiAssumption, Calls
<1>2. /\ owner = <<>> \/ \E u \in Uploads : owner = <<u>>
      /\ \A u \in Uploads : pc[u] \in {"ready", "inside", "scored"} =>
           owner = <<u>> /\ Stats.accepted + left[u] = Len(Body[u]) /\ loop = u
      /\ owner # <<>> => loop = owner[1] \/ pc[owner[1]] \in {"returned", "failed"}
      /\ \A a \in Elements(analysis) : a.flows = a.packets
      /\ \A a \in Elements(analysis) :
           owner # <<>> /\ (owner = <<a.upload>> \/ loop = owner[1] \/ pc[owner[1]] = "failed")
  BY <1>1 DEF AnalysisInv, AnalysisOfOneCapture, Control
<1>3. SessionShape /\ Stats \in StatsType /\ Len(statsOf) \in Nat
  BY NewestSession
<1>4. CASE UNCHANGED <<loop, pc, left, sessionVars, analysis>>
  BY <1>4 DEF sessionVars, AnalysisInv, AnalysisOfOneCapture, Stats
<1>5. ASSUME NEW ws \in Sockets, Subscribe(ws) \/ ClientLeaves(ws) \/ HandlerEnds(ws)
      PROVE  UNCHANGED <<loop, pc, left, sessionVars, analysis>>
  BY <1>5 DEF Subscribe, ClientLeaves, HandlerEnds
<1>6. ASSUME NEW r \in Pollers, \/ Poll(r) \/ Read(r) \/ ListHosts(r) \/ NextHost(r)
                                \/ ListRaises(r) \/ ReadColumn(r)
                                \/ CountWindows(r) \/ Counted(r)
      PROVE  UNCHANGED <<loop, pc, left, sessionVars, analysis>>
  BY <1>6 DEF Poll, Read, ListHosts, NextHost, ListRaises, ReadColumn, CountWindows,
              Counted
<1>7. ASSUME NEW t \in Ingests, Receive(t) \/ Score(t) \/ Accept(t) \/ Reject(t)
      PROVE  AnalysisInv'
  <2>1. /\ loop = t /\ loop' = t /\ UNCHANGED <<owner, analysis>>
        /\ \A u \in Uploads : pc'[u] = pc[u]
    BY <1>1, <1>7 DEF Receive, Score, Accept, Reject, CallShape
  <2> QED
    BY <1>1, <2>1, AnalysisFrame
<1>8. ASSUME NEW t \in Ingests, \/ IngestRaises(t) \/ Publish(t) \/ EndOfAlert(t) \/ EndOfMetrics(t)
                                \/ \E ws \in Sockets : Send(t, ws)
      PROVE  AnalysisInv'
  <2>1. /\ loop = t /\ loop' \in {t, Free} /\ UNCHANGED <<owner, analysis>>
        /\ pc' = pc \/ \E p \in {"failed", "alert", "metrics", "returned"} : pc' = [pc EXCEPT ![t] = p]
    BY <1>8 DEF IngestRaises, Publish, EndOfAlert, EndOfMetrics, Send, SendsTo, StartsMetrics, sessionVars
  <2>2. \A u \in Uploads : pc'[u] = pc[u]
    BY <1>1, <2>1 DEF CallShape
  <2> QED
    BY <1>1, <2>1, <2>2, AnalysisFrame
<1>9. ASSUME NEW t \in Calls, Resume(t)
      PROVE  AnalysisInv'
  <2>1. /\ loop = Free /\ loop' = t /\ UNCHANGED <<owner, analysis, pc>>
        /\ pc[t] \in {"ready", "alert", "metrics"}
    BY <1>9 DEF Resume, sessionVars
  <2>2. t \in Ingests
    BY <1>1, <2>1 DEF Control, Broadcasting, ApiAssumption
  <2> QED
    BY <1>1, <2>1, <2>2, AnalysisFrame
<1>10. ASSUME NEW t \in Ingests, IngestCalled(t)
       PROVE  AnalysisInv'
  <2>1. /\ loop = Free /\ loop' = t /\ UNCHANGED <<owner, analysis>>
        /\ \A u \in Uploads : pc'[u] = pc[u]
    BY <1>1, <1>10 DEF IngestCalled, sessionVars, CallShape
  <2> QED
    BY <1>1, <2>1, AnalysisFrame
<1>11. ASSUME NEW t \in Uploads, UploadRefused(t)
       PROVE  AnalysisInv'
  <2>1. /\ loop = Free /\ loop' = Free /\ UNCHANGED <<owner, analysis>>
        /\ \A u \in Uploads : pc'[u] = pc[u] \/ (pc[u] = "new" /\ pc'[u] = "refused")
    BY <1>1, <1>11 DEF UploadRefused, sessionVars, CallShape
  <2> QED
    BY <1>1, <2>1, AnalysisFrame
<1>12. ASSUME NEW u \in Uploads, loop = u, loop' = u, owner = <<u>>, UNCHANGED <<owner, analysis>>,
              \A v \in Uploads : v # u => pc'[v] = pc[v],
              \/ pc'[u] = "raised"
              \/ pc'[u] \in {"ready", "inside", "scored"} /\ Stats'.accepted + left'[u] = Len(Body[u])
       PROVE  AnalysisInv'
  <2>1. \A v \in Uploads : pc'[v] \in {"ready", "inside", "scored"} =>
          v = u /\ Stats'.accepted + left'[v] = Len(Body[v])
    BY <1>2, <1>12
  <2>2. owner'[1] = loop'
    BY <1>12
  <2>3. AnalysisOfOneCapture'
    BY <1>2, <1>12 DEF AnalysisOfOneCapture
  <2>4. \A a \in Elements(analysis') : owner' # <<>>
    BY <1>12
  <2> QED
    BY <1>12, <2>1, <2>2, <2>3, <2>4 DEF AnalysisInv
<1>13. ASSUME NEW u \in Uploads, Receive(u) \/ Score(u) \/ Accept(u) \/ Reject(u) \/ ParseRaises(u)
       PROVE  AnalysisInv'
  <2>1. /\ loop = u /\ loop' = u /\ UNCHANGED <<owner, analysis>>
        /\ \A v \in Uploads : v # u => pc'[v] = pc[v]
    BY <1>1, <1>13 DEF Receive, Score, Accept, Reject, ParseRaises, CallShape, sessionVars
  <2>2. pc[u] \in {"ready", "inside", "scored"}
    BY <1>13 DEF Receive, Score, Accept, Reject, ParseRaises
  <2>3. owner = <<u>> /\ Stats.accepted + left[u] = Len(Body[u])
    BY <1>2, <2>2
  <2>4. CASE Reject(u) \/ ParseRaises(u)
    <3>1. pc'[u] = "raised"
      BY <1>1, <2>4 DEF Reject, ParseRaises, CallShape
    <3> QED
      BY <1>12, <2>1, <2>3, <3>1
  <2>5. CASE Score(u)
    <3>1. pc'[u] = "scored" /\ Stats' = Stats /\ left' = left
      BY <1>1, <2>5 DEF Score, CallShape, Stats
    <3> QED
      BY <1>12, <2>1, <2>3, <3>1
  <2>6. ASSUME NEW f \in {"received", "accepted", "failed"}, Count(f)
        PROVE  Stats' = [Stats EXCEPT ![f] = @ + 1]
    BY <2>6, CountEffect DEF Stats
  <2>7. CASE Receive(u)
    <3>1. pc'[u] = "inside" /\ left' = left /\ Stats' = [Stats EXCEPT !.received = @ + 1]
      BY <1>1, <2>6, <2>7 DEF Receive, CallShape
    <3>2. Stats'.accepted = Stats.accepted
      BY <1>3, <3>1 DEF StatsType
    <3> QED
      BY <1>12, <2>1, <2>3, <3>1, <3>2
  <2>8. CASE Accept(u)
    <3>1. pc'[u] = "ready" /\ left'[u] = left[u] - 1 /\ Stats' = [Stats EXCEPT !.accepted = @ + 1]
      BY <1>1, <2>6, <2>8 DEF Accept, CallShape
    <3>2. Stats'.accepted = Stats.accepted + 1 /\ Stats.accepted \in Nat /\ left[u] \in Nat
      BY <1>1, <1>3, <3>1 DEF StatsType, CallShape
    <3>3. Stats'.accepted + left'[u] = Len(Body[u])
      <4>1. PICK a, l : a = Stats.accepted /\ l = left[u]
        OBVIOUS
      <4>2. a \in Nat /\ l \in Nat /\ Stats'.accepted = a + 1 /\ left'[u] = l - 1
        BY <3>1, <3>2, <4>1
      <4>3. Stats'.accepted + left'[u] = a + l
        BY <4>2
      <4> QED
        BY <2>3, <4>1, <4>3
    <3> QED
      BY <1>12, <2>1, <2>3, <3>1, <3>3
  <2> QED
    BY <1>13, <2>4, <2>5, <2>7, <2>8
<1>14. ASSUME NEW u \in Uploads, UploadRead(u)
       PROVE  AnalysisInv'
  <2>1. /\ loop = Free /\ loop' = u /\ owner' = <<u>> /\ analysis' = analysis
        /\ left'[u] = left[u] /\ pc[u] = "new"
        /\ \A v \in Uploads : v # u => pc'[v] = pc[v]
    BY <1>1, <1>14 DEF UploadRead, ResetBy, CallShape
  <2>2. Stats' = NoStats
    BY <1>14, ResetEffect DEF UploadRead, Stats
  <2>3. left[u] = Len(Body[u]) /\ left[u] \in Nat
    BY <1>1, <2>1 DEF Control, CallShape
  <2>4. Stats'.accepted + left'[u] = Len(Body[u])
    BY <2>1, <2>2, <2>3 DEF NoStats
  <2>5. \A v \in Uploads : v # u => pc'[v] \notin {"ready", "inside", "scored"}
    BY <1>1, <1>2, <2>1
  <2>6. AnalysisOfOneCapture'
    BY <1>2, <2>1 DEF AnalysisOfOneCapture
  <2>7. owner' # <<>> /\ owner'[1] = loop'
    BY <2>1
  <2> QED
    BY <2>1, <2>4, <2>5, <2>6, <2>7 DEF AnalysisInv
<1>15. ASSUME NEW u \in Uploads, UploadReadRaises(u)
       PROVE  AnalysisInv'
  <2>1. /\ loop = Free /\ loop' = u /\ UNCHANGED <<owner, analysis>>
        /\ pc[u] = "new" /\ pc'[u] = "raised"
        /\ \A v \in Uploads : v # u => pc'[v] = pc[v]
    BY <1>1, <1>15 DEF UploadReadRaises, CallShape, sessionVars
  <2>2. owner # <<>> => pc[owner[1]] \in {"returned", "failed"} /\ owner[1] \in Uploads
    BY <1>1, <1>2, <2>1
  <2>3. owner # <<>> => pc'[owner[1]] = pc[owner[1]]
    BY <2>1, <2>2
  <2>4. \A v \in Uploads : pc'[v] \notin {"ready", "inside", "scored"}
    BY <1>1, <1>2, <2>1
  <2>5. AnalysisOfOneCapture'
    BY <1>2, <2>1 DEF AnalysisOfOneCapture
  <2>6. \A a \in Elements(analysis) : owner # <<>> /\ (owner = <<a.upload>> \/ pc[owner[1]] = "failed")
    BY <1>2, <2>1, <2>2, <1>1
  <2> QED
    BY <1>2, <2>1, <2>2, <2>3, <2>4, <2>5, <2>6 DEF AnalysisInv
<1>16. ASSUME NEW u \in Uploads, UploadRaises(u)
       PROVE  AnalysisInv'
  <2>1. /\ loop = u /\ owner' = <<u>> /\ analysis' = analysis /\ pc'[u] = "failed"
        /\ \A v \in Uploads : v # u => pc'[v] = pc[v]
    BY <1>1, <1>16 DEF UploadRaises, ResetBy, CallShape
  <2>2. \A v \in Uploads : pc'[v] \notin {"ready", "inside", "scored"}
    BY <1>1, <1>2, <2>1
  <2>3. AnalysisOfOneCapture'
    BY <1>2, <2>1 DEF AnalysisOfOneCapture
  <2>4. owner' # <<>> /\ owner'[1] = u
    BY <2>1
  <2> QED
    BY <2>1, <2>2, <2>3, <2>4 DEF AnalysisInv
<1>17. ASSUME NEW u \in Uploads, Analysed(u)
       PROVE  AnalysisInv'
  <2> DEFINE a == [upload |-> u, packets |-> Len(Body[u]), flows |-> Stats.accepted]
  <2>1. /\ loop = u /\ pc[u] = "ready" /\ left[u] = 0 /\ pc'[u] = "returned"
        /\ analysis' = <<a>> /\ owner' = owner
        /\ \A v \in Uploads : v # u => pc'[v] = pc[v]
    BY <1>1, <1>17 DEF Analysed, CallShape, sessionVars
  <2>2. owner = <<u>> /\ Stats.accepted + left[u] = Len(Body[u])
    BY <1>2, <2>1
  <2>3. Stats.accepted = Len(Body[u])
    BY <1>3, <2>1, <2>2 DEF StatsType
  <2>4. a.flows = a.packets /\ a.upload = u
    BY <2>3
  <2> HIDE DEF a
  <2>5. Elements(analysis') = {a}
    BY <2>1 DEF Elements
  <2>6. \A v \in Uploads : pc'[v] \notin {"ready", "inside", "scored"}
    BY <1>1, <1>2, <2>1
  <2>7. AnalysisOfOneCapture'
    BY <2>4, <2>5 DEF AnalysisOfOneCapture
  <2>8. owner' # <<>> /\ owner'[1] = u
    BY <2>1, <2>2
  <2> QED
    BY <2>1, <2>2, <2>4, <2>5, <2>6, <2>7, <2>8 DEF AnalysisInv
<1>18. CASE ApiNext
  <2>1. ASSUME NEW t \in Calls, Runs(t) \/ Resume(t)
        PROVE  AnalysisInv'
    <3>1. CASE t \in Ingests
      <4>1. ~(ParseRaises(t) \/ UploadRaises(t) \/ Analysed(t))
        BY <1>1, <3>1 DEF ParseRaises, UploadRaises, Analysed
      <4> QED
        BY <1>7, <1>8, <1>9, <2>1, <3>1, <4>1 DEF Runs
    <3>2. CASE t \in Uploads
      <4>1. t \notin Ingests
        BY <1>1, <3>2
      <4>2. ~(IngestRaises(t) \/ Publish(t) \/ EndOfAlert(t) \/ EndOfMetrics(t)
              \/ \E ws \in Sockets : Send(t, ws))
        BY <4>1 DEF IngestRaises, Publish, EndOfAlert, EndOfMetrics, Send, SendsTo, Control, Broadcasting
      <4> QED
        BY <1>9, <1>13, <1>16, <1>17, <2>1, <3>2, <4>2 DEF Runs
    <3> QED
      BY <1>1, <3>1, <3>2
  <2> QED
    BY <1>4, <1>5, <1>6, <1>10, <1>11, <1>14, <1>15, <1>18, <2>1 DEF ApiNext
<1>19. CASE UNCHANGED apiVars
  BY <1>4, <1>19 DEF apiVars
<1> QED
  BY <1>18, <1>19

-------------------------------------------------------------------------------
(* The hosts *)

\* How a dict of baselines may change: hosts are added at the end, and observe more.
HostsGrow(old, new) ==
  /\ Len(old) <= Len(new)
  /\ \A i \in 1..Len(old) : /\ new[i].host = old[i].host
                            /\ new[i].observations >= old[i].observations
  /\ \A i \in (Len(old) + 1)..Len(new) : \A j \in 1..Len(old) : old[j].host # new[i].host

(* A dict that does not change does not shrink. *)
LEMMA SameHostsGrow ==
  ASSUME NEW old \in Seq(HostType)
  PROVE  HostsGrow(old, old)
<1>1. Len(old) \in Nat /\ \A i \in 1..Len(old) : old[i] \in HostType
  BY LenProperties, ElementOfSeq
<1> QED
  BY <1>1 DEF HostsGrow, HostType

(* In every step every session's hosts grow. *)
LEMMA SessionHostsGrow ==
  ASSUME ApiAssumption, ApiShape, [ApiNext]_apiVars, NEW n \in DOMAIN baselines
  PROVE  /\ n \in DOMAIN baselines' /\ Len(baselines') >= Len(baselines)
         /\ baselines[n] \in Seq(HostType) /\ baselines'[n] \in Seq(HostType)
         /\ HostsGrow(baselines[n], baselines'[n])
<1> USE DEF ApiShape
<1>1. /\ baselines[n] \in Seq(HostType) /\ Len(baselines) \in Nat
      /\ DOMAIN baselines[n] = 1..Len(baselines[n]) /\ Len(baselines[n]) \in Nat
      /\ \A i \in 1..Len(baselines[n]) : baselines[n][i] \in HostType
  <2>1. baselines[n] \in Seq(HostType) /\ Len(baselines) \in Nat
    BY NewestSession, ElementOfSeq DEF SessionShape
  <2> QED
    BY <2>1, LenProperties, ElementOfSeq
<1>2. n \in DOMAIN baselines'
  <2>1. DOMAIN baselines = DOMAIN statsOf /\ DOMAIN baselines' = DOMAIN statsOf'
    BY SessionShapeKept, LenProperties DEF SessionShape
  <2> QED
    BY <2>1, SessionsStay
<1>3. baselines'[n] \in Seq(HostType)
  <2>1. \A b \in Seq(Seq(HostType)) : \A i \in DOMAIN b : b[i] \in Seq(HostType)
    BY LenProperties, ElementOfSeq
  <2>2. baselines' \in Seq(Seq(HostType))
    BY SessionShapeKept DEF SessionShape
  <2> QED
    BY <1>2, <2>1, <2>2
<1>4. CASE baselines'[n] = baselines[n] /\ Len(baselines') >= Len(baselines)
  BY <1>1, <1>2, <1>3, <1>4, SameHostsGrow
<1>5. CASE UNCHANGED sessionVars
  BY <1>1, <1>4, <1>5 DEF sessionVars
<1>6. ASSUME NEW t \in Calls, Receive(t) \/ Reject(t)
      PROVE  baselines' = baselines
  BY <1>6 DEF Receive, Reject
<1>7. ASSUME NEW t \in Calls, Score(t)
      PROVE  HostsGrow(baselines[n], baselines'[n]) /\ Len(baselines') >= Len(baselines)
  <2> DEFINE row == [host |-> Sender[Current(t)], observations |-> 0]
  <2>1. Len(baselines') = Len(baselines)
    BY <1>7, ScoreEffect
  <2>2. CASE baselines'[n] = baselines[n]
    BY <1>1, <2>1, <2>2, SameHostsGrow
  <2>3. CASE Known(n, row.host) = {} /\ baselines'[n] = Append(baselines[n], row)
    <3>1. row \in HostType
      BY <1>7, CurrentOfBody DEF Score, Control, HostType
    <3> HIDE DEF row
    <3>2. /\ Len(baselines'[n]) = Len(baselines[n]) + 1
          /\ \A i \in 1..Len(baselines[n]) : baselines'[n][i] = baselines[n][i]
          /\ baselines'[n][Len(baselines[n]) + 1] = row
      BY <1>1, <2>3, <3>1, AppendProperties
    <3>3. \A j \in 1..Len(baselines[n]) : baselines[n][j].host # row.host
      BY <1>1, <2>3 DEF Known
    <3>4. PICK b, c : b = baselines[n] /\ c = baselines'[n]
      OBVIOUS
    <3>5. DOMAIN b = 1..Len(b) /\ Len(b) \in Nat /\ \A i \in 1..Len(b) : b[i] \in HostType
      BY <1>1, <3>4
    <3>6. /\ Len(c) = Len(b) + 1 /\ \A i \in 1..Len(b) : c[i] = b[i]
          /\ c[Len(b) + 1] = row /\ \A j \in 1..Len(b) : b[j].host # row.host
      BY <3>2, <3>3, <3>4
    <3>7. HostsGrow(b, c)
      BY <3>1, <3>5, <3>6 DEF HostsGrow, HostType
    <3> QED
      BY <2>1, <3>4, <3>7
  <2> QED
    BY <1>7, <2>2, <2>3, ScoreEffect
<1>8. ASSUME NEW t \in Calls, Accept(t)
      PROVE  HostsGrow(baselines[n], baselines'[n]) /\ Len(baselines') >= Len(baselines)
  <2> DEFINE h == Sender[Current(t)]
  <2>1. Len(baselines') = Len(baselines)
    BY <1>8, LearnEffect DEF Accept
  <2>2. CASE baselines'[n] = baselines[n]
    BY <1>1, <2>1, <2>2, SameHostsGrow
  <2>3. CASE baselines'[n] = [i \in DOMAIN baselines[n] |->
                 IF i \in Known(n, h) THEN [baselines[n][i] EXCEPT !.observations = @ + 1]
                 ELSE baselines[n][i]]
    <3>1. DOMAIN baselines'[n] = 1..Len(baselines[n])
      BY <1>1, <2>3
    <3>2. Len(baselines'[n]) = Len(baselines[n])
      BY <1>1, <1>3, <3>1, LenProperties
    <3>3. \A i \in 1..Len(baselines[n]) :
            /\ baselines'[n][i].host = baselines[n][i].host
            /\ baselines'[n][i].observations >= baselines[n][i].observations
      BY <1>1, <2>3 DEF HostType
    <3> QED
      BY <1>1, <2>1, <3>2, <3>3 DEF HostsGrow
  <2>4. Learns(t)
    BY <1>8 DEF Accept
  <2>5. \/ baselines'[n] = baselines[n]
        \/ baselines'[n] = [i \in DOMAIN baselines[n] |->
                 IF i \in Known(n, h) THEN [baselines[n][i] EXCEPT !.observations = @ + 1]
                 ELSE baselines[n][i]]
    BY <2>4, LearnEffect, ZenonT(30)
  <2> QED
    BY <2>2, <2>3, <2>5
<1>9. ASSUME NEW u \in Uploads, UploadRead(u) \/ UploadRaises(u)
      PROVE  baselines'[n] = baselines[n] /\ Len(baselines') >= Len(baselines)
  BY <1>1, <1>9, ResetEffect DEF UploadRead, UploadRaises
<1> QED
  BY <1>1, <1>2, <1>3, <1>4, <1>5, <1>6, <1>7, <1>8, <1>9, SessionMoves

(* A host of a session never observes less than it did. *)
LEMMA ObservedGrows ==
  ASSUME ApiAssumption, ApiShape, [ApiNext]_apiVars, NEW n \in DOMAIN baselines, NEW h
  PROVE  Observed(n, h) \in Nat /\ Observed(n, h)' \in Nat /\ Observed(n, h)' >= Observed(n, h)
<1> USE DEF ApiShape
<1>1. /\ n \in DOMAIN baselines'
      /\ baselines[n] \in Seq(HostType) /\ baselines'[n] \in Seq(HostType)
      /\ HostsGrow(baselines[n], baselines'[n])
  BY SessionHostsGrow
<1>2. Observed(n, h) \in Nat
  BY ObservedIsNat
<1>3. Observed(n, h)' \in Nat
  <2>1. \A i \in DOMAIN baselines'[n] : baselines'[n][i] \in HostType
    BY <1>1, LenProperties, ElementOfSeq
  <2>2. \A i \in Known(n, h)' : baselines'[n][i].observations \in Nat
    BY <2>1 DEF Known, HostType
  <2> QED
    BY <2>2 DEF Observed
<1>4. /\ DOMAIN baselines[n] = 1..Len(baselines[n]) /\ DOMAIN baselines'[n] = 1..Len(baselines'[n])
      /\ Len(baselines[n]) \in Nat /\ Len(baselines'[n]) \in Nat
  BY <1>1, LenProperties
<1>5. CASE Known(n, h) = {}
  BY <1>2, <1>3, <1>5 DEF Observed
<1>6. CASE Known(n, h) # {}
  <2>1. Known(n, h)' = Known(n, h)
    <3>1. PICK j \in 1..Len(baselines[n]) : baselines[n][j].host = h
      BY <1>4, <1>6 DEF Known
    <3>2. \A i \in (Len(baselines[n]) + 1)..Len(baselines'[n]) : baselines'[n][i].host # h
      BY <1>1, <3>1 DEF HostsGrow
    <3>3. \A i \in 1..Len(baselines[n]) : i \in 1..Len(baselines'[n])
      BY <1>1, <1>4 DEF HostsGrow
    <3>4. \A i \in 1..Len(baselines'[n]) :
            i \in 1..Len(baselines[n]) \/ i \in (Len(baselines[n]) + 1)..Len(baselines'[n])
      BY <1>4
    <3> QED
      BY <1>1, <1>4, <3>2, <3>3, <3>4 DEF Known, HostsGrow
  <2> DEFINE i == CHOOSE i \in Known(n, h) : TRUE
  <2>2. i \in Known(n, h)
    BY <1>6
  <2>3. Observed(n, h) = baselines[n][i].observations
    BY <1>6 DEF Observed
  <2>4. Observed(n, h)' = baselines'[n][CHOOSE k \in Known(n, h)' : TRUE].observations
    BY <1>6, <2>1 DEF Observed
  <2>5. Observed(n, h)' = baselines'[n][i].observations
    BY <2>1, <2>4
  <2> HIDE DEF i
  <2>6. i \in 1..Len(baselines[n])
    BY <1>4, <2>2 DEF Known
  <2> QED
    BY <1>1, <1>2, <1>3, <2>3, <2>5, <2>6 DEF HostsGrow
<1> QED
  BY <1>2, <1>3, <1>5, <1>6

(* What a poller has listed stays true of its session while the hosts grow. *)
LEMMA RowsFrame ==
  ASSUME ApiAssumption, ApiShape, RowsInv, [ApiNext]_apiVars, NEW r \in Pollers,
         listing'[r] = listing[r],
         pollPc'[r] = pollPc[r] \/ "observations" \notin {pollPc[r], pollPc'[r]}
  PROVE  RowsFollow(r)' /\ \A i \in DOMAIN listing'[r].rows : RowFair(r, i)'
<1> DEFINE l == listing[r]
           n == l.session
<1>1. /\ l \in ListType /\ n \in DOMAIN baselines
      /\ DOMAIN l.rows = 1..Len(l.rows) /\ Len(l.rows) \in Nat
      /\ \A i \in DOMAIN l.rows : l.rows[i] \in RowType
  <2>1. l \in ListType /\ n \in DOMAIN statsOf
    BY DEF ApiShape, PollShape
  <2>2. l.rows \in Seq(RowType)
    BY <2>1 DEF ListType
  <2> QED
    BY <2>1, <2>2, NewestSession, LenProperties, ElementOfSeq DEF ApiShape
<1>2. RowsFollow(r) /\ \A i \in DOMAIN l.rows : RowFair(r, i)
  BY DEF RowsInv
<1>3. /\ Len(baselines') >= Len(baselines) /\ Len(baselines) \in Nat /\ Len(baselines') \in Nat
      /\ HostsGrow(baselines[n], baselines'[n])
      /\ Len(baselines[n]) \in Nat /\ Len(baselines'[n]) \in Nat
  <2>1. /\ Len(baselines') >= Len(baselines)
        /\ HostsGrow(baselines[n], baselines'[n])
        /\ baselines[n] \in Seq(HostType) /\ baselines'[n] \in Seq(HostType)
    BY <1>1, SessionHostsGrow
  <2>2. baselines \in Seq(Seq(HostType)) /\ baselines' \in Seq(Seq(HostType))
    BY SessionShapeKept DEF ApiShape, SessionShape
  <2> QED
    BY <2>1, <2>2, LenProperties
<1>4. \A h : Observed(n, h)' >= Observed(n, h) /\ Observed(n, h)' \in Nat /\ Observed(n, h) \in Nat
  BY <1>1, ObservedGrows
<1>5. listing'[r] = l
  OBVIOUS
<1>6. RowsFollow(r)'
  <2>1. l.size \in Nat /\ l.size <= Len(baselines[n]) /\ Len(l.rows) <= Len(baselines[n])
    BY <1>1, <1>2 DEF RowsFollow, ListType
  <2>2. l.size <= Len(baselines'[n]) /\ Len(l.rows) <= Len(baselines'[n])
    <3>1. /\ Len(baselines[n]) <= Len(baselines'[n])
          /\ Len(baselines[n]) \in Nat /\ Len(baselines'[n]) \in Nat
      BY <1>3 DEF HostsGrow
    <3>2. l.size \in Nat /\ Len(l.rows) \in Nat
      BY <1>1, <2>1
    <3> HIDE DEF l, n
    <3> QED
      BY <2>1, <3>1, <3>2
  <2>3. \A i \in DOMAIN l.rows : l.rows[i].host = baselines'[n][i].host
    <3>1. \A i \in DOMAIN l.rows : l.rows[i].host = baselines[n][i].host
      BY <1>2 DEF RowsFollow
    <3>2. \A i \in 1..Len(baselines[n]) : baselines'[n][i].host = baselines[n][i].host
      BY <1>3 DEF HostsGrow
    <3>3. \A i \in DOMAIN l.rows : i \in 1..Len(baselines[n])
      BY <1>1, <1>3, <2>1
    <3> QED
      BY <3>1, <3>2, <3>3
  <2> QED
    BY <1>5, <2>2, <2>3 DEF RowsFollow
<1>7. ASSUME NEW i \in DOMAIN l.rows
      PROVE  RowFair(r, i)'
  <2>1. CASE ~(i = Len(l.rows) /\ pollPc[r] = "observations")
    <3>1. n \in Nat /\ ~(i = Len(l.rows) /\ pollPc'[r] = "observations")
      BY <1>1, <2>1 DEF ListType
    <3>2. l.rows[i].observations >= Warmup /\ ~l.rows[i].baseline_ready => n < Len(baselines)
      BY <1>2, <2>1 DEF RowFair
    <3>3. l.rows[i].observations >= Warmup /\ ~l.rows[i].baseline_ready => n < Len(baselines')
      BY <1>3, <3>1, <3>2
    <3> QED
      BY <1>5, <3>1, <3>3 DEF RowFair
  <2>2. CASE i = Len(l.rows) /\ pollPc[r] = "observations"
    <3>1. /\ i = Len(l.rows) /\ pollPc'[r] = "observations"
          /\ l.rows[i].observations <= Observed(n, l.rows[i].host)
      BY <1>2, <2>2 DEF RowFair
    <3>2. l.rows[i].observations \in Nat
      BY <1>1 DEF RowType
    <3>3. PICK h : h = l.rows[i].host
      OBVIOUS
    <3>4. l.rows[i].observations <= Observed(n, h)'
      BY <1>4, <3>1, <3>2, <3>3
    <3> QED
      BY <1>5, <3>1, <3>3, <3>4, ZenonT(30) DEF RowFair, Observed, Known
  <2> QED
    BY <2>1, <2>2
<1> QED
  BY <1>5, <1>6, <1>7

(* A listing that begins has no rows yet. *)
LEMMA RowsBegin ==
  ASSUME NEW r \in Pollers, NEW l, listing' = [listing EXCEPT ![r] = l], PollShape,
         l.rows = <<>>, l.session \in DOMAIN baselines', l.size <= Len(baselines'[l.session]),
         baselines' \in Seq(Seq(HostType))
  PROVE  RowsFollow(r)' /\ \A i \in DOMAIN listing'[r].rows : RowFair(r, i)'
<1>1. listing'[r] = l
  BY DEF PollShape
<1>2. baselines'[l.session] \in Seq(HostType)
  <2>1. \A b \in Seq(Seq(HostType)) : \A i \in DOMAIN b : b[i] \in Seq(HostType)
    BY LenProperties, ElementOfSeq
  <2> QED
    BY <2>1
<1>3. Len(baselines'[l.session]) \in Nat
  BY <1>2, LenProperties
<1>4. Len(<<>>) = 0 /\ DOMAIN <<>> = {}
  OBVIOUS
<1> QED
  BY <1>1, <1>3, <1>4 DEF RowsFollow

(* Every row is of the next host, and fair as soon as it is complete. *)
LEMMA RowsInvKept ==
  ASSUME ApiAssumption, ApiShape, RowsInv, [ApiNext]_apiVars
  PROVE  RowsInv'
<1> SUFFICES ASSUME NEW r \in Pollers
             PROVE  RowsFollow(r)' /\ \A i \in DOMAIN listing'[r].rows : RowFair(r, i)'
  BY DEF RowsInv
<1> DEFINE l == listing[r]
           n == l.session
           hosts == baselines[n]
<1>1. /\ l \in ListType /\ n \in DOMAIN baselines /\ l.rows \in Seq(RowType)
      /\ DOMAIN l.rows = 1..Len(l.rows) /\ Len(l.rows) \in Nat
      /\ \A i \in DOMAIN l.rows : l.rows[i] \in RowType
      /\ hosts \in Seq(HostType) /\ DOMAIN hosts = 1..Len(hosts) /\ Len(hosts) \in Nat
      /\ pollPc \in [Pollers -> Phases] /\ listing \in [Pollers -> ListType]
  <2>1. l \in ListType /\ n \in DOMAIN statsOf /\ pollPc \in [Pollers -> Phases]
        /\ listing \in [Pollers -> ListType]
    BY DEF ApiShape, PollShape
  <2>2. l.rows \in Seq(RowType)
    BY <2>1 DEF ListType
  <2>3. n \in DOMAIN baselines /\ hosts \in Seq(HostType)
    BY <2>1, NewestSession, ElementOfSeq DEF ApiShape, SessionShape
  <2> QED
    BY <2>1, <2>2, <2>3, LenProperties, ElementOfSeq
<1>2. RowsFollow(r) /\ \A i \in DOMAIN l.rows : RowFair(r, i)
  BY DEF RowsInv
<1>3. /\ Len(baselines) \in Nat /\ Len(baselines) \in DOMAIN baselines /\ 1 \in DOMAIN baselines
      /\ baselines \in Seq(Seq(HostType))
  BY NewestSession DEF ApiShape, SessionShape
<1>4. CASE pollPc'[r] = pollPc[r] /\ listing'[r] = listing[r]
  BY <1>4, RowsFrame
<1>5. CASE Poll(r)
  <2>1. listing' = [listing EXCEPT ![r] = NoListing] /\ baselines' = baselines
    BY <1>5 DEF Poll, sessionVars
  <2>2. NoListing.rows = <<>> /\ NoListing.session = 1 /\ NoListing.size = 0
    BY DEF NoListing
  <2>3. Len(baselines[1]) \in Nat
    BY <1>3, LenProperties, ElementOfSeq
  <2>4. PollShape /\ NoListing.session \in DOMAIN baselines' /\ baselines' \in Seq(Seq(HostType))
        /\ NoListing.size <= Len(baselines'[NoListing.session])
    BY <1>3, <2>1, <2>2, <2>3 DEF ApiShape
  <2> QED
    BY <2>1, <2>2, <2>4, RowsBegin
<1>6. CASE ListHosts(r)
  <2> DEFINE new == [session |-> Len(baselines), size |-> Len(baselines[Len(baselines)]), rows |-> <<>>]
  <2>1. listing' = [listing EXCEPT ![r] = new] /\ baselines' = baselines
    BY <1>6 DEF ListHosts, sessionVars
  <2>2. /\ new.rows = <<>> /\ new.session = Len(baselines)
        /\ new.size = Len(baselines[Len(baselines)])
    OBVIOUS
  <2>3. Len(baselines[Len(baselines)]) \in Nat
    BY <1>3, LenProperties, ElementOfSeq
  <2> HIDE DEF new
  <2>4. PollShape /\ new.session \in DOMAIN baselines' /\ baselines' \in Seq(Seq(HostType))
        /\ new.size <= Len(baselines'[new.session])
    BY <1>3, <2>1, <2>2, <2>3 DEF ApiShape
  <2> QED
    BY <2>1, <2>2, <2>4, RowsBegin
<1>7. CASE Read(r) \/ ListRaises(r) \/ CountWindows(r) \/ Counted(r)
  <2>1. listing' = listing /\ "observations" \notin {pollPc[r], pollPc'[r]}
    BY <1>1, <1>7, FieldCases DEF Read, ListRaises, CountWindows, Counted
  <2> QED
    BY <2>1, RowsFrame
<1>8. CASE NextHost(r)
  <2> DEFINE i == Len(l.rows) + 1
             row == [host |-> hosts[i].host, observations |-> 0, baseline_ready |-> FALSE]
  <2>0. pollPc[r] = "hosts" /\ baselines' = baselines
    BY <1>8 DEF NextHost, sessionVars
  <2>1. CASE pollPc' = [pollPc EXCEPT ![r] = "listed"] /\ UNCHANGED listing
    BY <1>1, <2>0, <2>1, RowsFrame
  <2>2. CASE /\ i \in DOMAIN hosts /\ listing' = [listing EXCEPT ![r].rows = Append(@, row)]
             /\ pollPc' = [pollPc EXCEPT ![r] = "host"]
    <3>1. row \in RowType /\ row.host = hosts[i].host /\ row.observations = 0
      <4>1. hosts[i] \in HostType
        BY <1>1, <2>2, ElementOfSeq
      <4> QED
        BY <4>1 DEF HostType, RowType
    <3> HIDE DEF row
    <3> DEFINE rows == Append(l.rows, row)
    <3>2. /\ rows \in Seq(RowType) /\ Len(rows) = Len(l.rows) + 1
          /\ \A j \in 1..Len(l.rows) : rows[j] = l.rows[j]
          /\ rows[Len(l.rows) + 1] = row
      BY <1>1, <3>1, AppendElements
    <3>3. DOMAIN rows = 1..(Len(l.rows) + 1)
      BY <3>2, LenProperties
    <3> HIDE DEF rows
    <3>4. /\ listing'[r].rows = rows /\ listing'[r].session = n /\ listing'[r].size = l.size
      BY <1>1, <2>2 DEF rows, ListType
    <3>5. RowsFollow(r)'
      <4>1. l.size <= Len(hosts) /\ Len(rows) <= Len(hosts)
        BY <1>1, <1>2, <2>2, <3>2 DEF RowsFollow
      <4>2. \A j \in DOMAIN rows : rows[j].host = hosts[j].host
        <5>1. /\ DOMAIN l.rows = 1..Len(l.rows)
              /\ \A j \in DOMAIN l.rows : l.rows[j].host = hosts[j].host
          BY <1>1, <1>2 DEF RowsFollow
        <5>2. \A j \in 1..(Len(l.rows) + 1) : j \in 1..Len(l.rows) \/ j = Len(l.rows) + 1
          BY <1>1
        <5> QED
          BY <3>1, <3>2, <3>3, <5>1, <5>2
      <4> QED
        BY <2>0, <3>4, <4>1, <4>2 DEF RowsFollow
    <3>6. ASSUME NEW j \in DOMAIN rows
          PROVE  RowFair(r, j)'
      <4>1. rows[j].observations >= Warmup /\ ~rows[j].baseline_ready => n < Len(baselines)
        <5>1. CASE j \in 1..Len(l.rows)
          BY <1>1, <1>2, <2>0, <3>2, <5>1 DEF RowFair
        <5>2. CASE j = Len(l.rows) + 1
          BY <3>1, <3>2, <5>2 DEF ApiAssumption
        <5> QED
          BY <1>1, <3>3, <5>1, <5>2
      <4>2. pollPc'[r] = "host"
        BY <1>1, <2>2
      <4> QED
        BY <2>0, <3>4, <4>1, <4>2 DEF RowFair
    <3> QED
      BY <3>4, <3>5, <3>6
  <2> QED
    BY <1>8, <2>1, <2>2 DEF NextHost
<1>9. CASE ReadColumn(r)
  <2>0. baselines' = baselines
    BY <1>9 DEF ReadColumn, sessionVars
  <2>1. PICK i \in 1..Len(l.rows), row \in RowType :
           /\ i = Len(l.rows)
           /\ listing' = [listing EXCEPT ![r] = [l EXCEPT !.rows = [l.rows EXCEPT ![i] = row]]]
           /\ \/ /\ pollPc[r] = "host" /\ pollPc' = [pollPc EXCEPT ![r] = "observations"]
                 /\ row = [l.rows[i] EXCEPT !.observations = Observed(n, l.rows[i].host)]
              \/ /\ pollPc[r] = "observations" /\ pollPc' = [pollPc EXCEPT ![r] = "hosts"]
                 /\ row = [l.rows[i] EXCEPT !.baseline_ready =
                            (Observed(Len(baselines), l.rows[i].host) >= Warmup)]
    BY <1>9, ColumnEffect
  <2> DEFINE rows == [l.rows EXCEPT ![i] = row]
  <2>2. /\ rows \in Seq(RowType) /\ Len(rows) = Len(l.rows)
        /\ \A j \in 1..Len(l.rows) : rows[j] = IF j = i THEN row ELSE l.rows[j]
    BY <1>1, ExceptSeq
  <2>3. DOMAIN rows = 1..Len(l.rows)
    BY <2>2, LenProperties
  <2>4. listing'[r].rows = rows /\ listing'[r].session = n /\ listing'[r].size = l.size
    BY <1>1, <2>1 DEF ListType
  <2> HIDE DEF rows
  <2>5. l.rows[i] \in RowType
    BY <1>1
  <2>6. row.host = l.rows[i].host
    BY <2>1, <2>5 DEF RowType
  <2>7. RowsFollow(r)'
    <3>1. l.size <= Len(hosts) /\ Len(rows) <= Len(hosts)
      BY <1>1, <1>2, <2>2 DEF RowsFollow
    <3>2. \A j \in DOMAIN rows : rows[j].host = hosts[j].host
      BY <1>1, <1>2, <2>2, <2>3, <2>6 DEF RowsFollow
    <3> QED
      BY <2>0, <2>4, <3>1, <3>2 DEF RowsFollow
  <2>8. ASSUME NEW j \in DOMAIN rows
        PROVE  RowFair(r, j)'
    <3>1. CASE j # i
      <4>1. rows[j] = l.rows[j] /\ j \in DOMAIN l.rows
        BY <1>1, <2>2, <2>3, <3>1
      <4>2. l.rows[j].observations >= Warmup /\ ~l.rows[j].baseline_ready => n < Len(baselines)
        BY <1>2, <2>1, <3>1, <4>1 DEF RowFair
      <4>3. j # Len(rows)
        BY <2>1, <2>2, <3>1
      <4> QED
        BY <2>0, <2>4, <4>1, <4>2, <4>3 DEF RowFair
    <3>2. CASE j = i /\ pollPc[r] = "host"
      <4>1. /\ rows[j] = row /\ pollPc'[r] = "observations"
            /\ row = [l.rows[i] EXCEPT !.observations = Observed(n, l.rows[i].host)]
        BY <1>1, <2>1, <2>2, <3>2
      <4>2. row.observations = Observed(n, row.host) /\ Observed(n, row.host) \in Nat
        BY <1>1, <2>5, <2>6, <4>1, ObservedIsNat DEF RowType, ApiShape
      <4>4. PICK h, m : h = row.host /\ m = n
        OBVIOUS
      <4>5. Observed(m, h)' = Observed(m, h)
        BY <2>0 DEF Observed, Known
      <4>6. row.observations <= Observed(m, h)'
        BY <4>2, <4>4, <4>5
      <4>7. /\ listing'[r].session = m /\ listing'[r].rows[j] = row /\ row.host = h
            /\ j = Len(listing'[r].rows)
        BY <2>1, <2>2, <2>4, <3>2, <4>1, <4>4
      <4>8. Observed(listing[r].session, listing[r].rows[j].host)' = Observed(m, h)'
        BY <4>7 DEF Observed, Known
      <4> QED
        BY <4>1, <4>6, <4>7, <4>8 DEF RowFair
    <3>3. CASE j = i /\ pollPc[r] = "observations"
      <4>1. /\ rows[j] = row
            /\ row = [l.rows[i] EXCEPT !.baseline_ready =
                            (Observed(Len(baselines), l.rows[i].host) >= Warmup)]
        BY <1>1, <2>1, <2>2, <3>3
      <4>2. /\ row.observations = l.rows[i].observations
            /\ Observed(Len(baselines), l.rows[i].host) >= Warmup => row.baseline_ready
        <5> DEFINE enough == Observed(Len(baselines), l.rows[i].host) >= Warmup
        <5>1. enough \in BOOLEAN
          BY ComparisonIsBoolean, Zenon
        <5>2. row = [l.rows[i] EXCEPT !.baseline_ready = enough]
          BY <4>1, Zenon
        <5>3. Observed(Len(baselines), l.rows[i].host) >= Warmup => enough
          OBVIOUS
        <5> HIDE DEF enough
        <5>4. row.observations = l.rows[i].observations /\ row.baseline_ready = enough
          BY <2>5, <5>1, <5>2 DEF RowType
        <5> QED
          BY <5>3, <5>4, Zenon
      <4>3. /\ Observed(n, l.rows[i].host) \in Nat /\ Warmup \in Nat /\ n \in 1..Len(baselines)
            /\ l.rows[i].observations \in Nat
        BY <1>1, <1>3, <2>5, ObservedIsNat, LenProperties DEF ApiShape, ApiAssumption, RowType
      <4>4. l.rows[i].observations <= Observed(n, l.rows[i].host)
        BY <1>1, <1>2, <2>1, <3>3 DEF RowFair
      <4>5. l.rows[i].observations >= Warmup => n < Len(baselines) \/ row.baseline_ready
        <5>1. CASE n = Len(baselines)
          BY <4>2, <4>3, <4>4, <5>1
        <5>2. CASE n # Len(baselines)
          BY <1>3, <4>3, <5>2
        <5> QED
          BY <5>1, <5>2
      <4>6. pollPc'[r] = "hosts"
        BY <1>1, <2>1, <3>3
      <4> QED
        BY <2>0, <2>4, <4>1, <4>2, <4>5, <4>6 DEF RowFair
    <3> QED
      BY <2>1, <3>1, <3>2, <3>3
  <2> QED
    BY <2>4, <2>7, <2>8
<1> QED
  BY <1>4, <1>5, <1>6, <1>7, <1>8, <1>9, PollerMoves DEF ApiShape

-------------------------------------------------------------------------------
(* The theorems *)

(* At start-up nothing was counted, sent, read, raised or analysed. *)
LEMMA ApiInvAtStart ==
  ASSUME ApiAssumption, ApiInit
  PROVE  ApiInv
<1>1. ApiShape
  BY ApiShapeAtStart
<1>2. Balanced(NoStats)
  BY DEF Balanced, NoStats
<1>3. SessionsBalanced
  <2>1. DOMAIN statsOf = {1} /\ statsOf[1] = NoStats
    BY DEF ApiInit
  <2>2. ~InProcess
    BY DEF ApiInit, InProcess
  <2> QED
    BY <1>2, <2>1, <2>2 DEF SessionsBalanced
<1>4. SentBalanced
  BY <1>2 DEF ApiInit, SentBalanced
<1>5. PollersInv
  <2>1. ASSUME NEW r \in Pollers
        PROVE  /\ pollPc[r] = "none" /\ "none" \notin {"received", "accepted"}
               /\ seen[r].received = 0 /\ seen[r].accepted = 0 /\ seen[r].failed = 0
    BY DEF ApiInit, Blank
  <2> QED
    BY <2>1 DEF PollersInv
<1>6. SocketsInv
  BY DEF ApiInit, SocketsInv, SubscribersAreConnected
<1>7. AttachInv
  <2> SUFFICES ASSUME NEW t \in Ingests, UniqueId(t)
               PROVE  OwnAlert(t)
    BY DEF AttachInv
  <2>1. pc[t] = "new" /\ raised[t] = <<>>
    BY DEF ApiInit, Calls
  <2>2. \A a \in Elements(alerts) : a.flow # Body[t][1]
    BY DEF ApiInit, UniqueId
  <2> QED
    BY <2>1, <2>2 DEF OwnAlert, Broadcasting
<1>8. AnalysisInv
  BY DEF ApiInit, AnalysisInv, Calls, AnalysisOfOneCapture, Elements
<1>9. RowsInv
  <2>1. ASSUME NEW r \in Pollers
        PROVE  /\ listing[r].rows = <<>> /\ listing[r].size = 0
               /\ baselines[listing[r].session] = <<>> /\ Len(<<>>) = 0 /\ DOMAIN <<>> = {}
    BY DEF ApiInit, NoListing
  <2> QED
    BY <2>1 DEF RowsInv, RowsFollow
<1> QED
  BY <1>1, <1>3, <1>4, <1>5, <1>6, <1>7, <1>8, <1>9 DEF ApiInv

(* Every step keeps the whole invariant. *)
LEMMA ApiInvKept ==
  ASSUME ApiAssumption, ApiInv, [ApiNext]_apiVars
  PROVE  ApiInv'
<1> QED
  BY ApiShapeKept, SessionsBalancedKept, SentBalancedKept, PollersInvKept, SocketsInvKept,
     AttachInvKept, AnalysisInvKept, RowsInvKept DEF ApiInv

(* The invariant holds in every reachable state. *)
LEMMA ApiInvAlways == ApiSpec => []ApiInv
<1>1. ApiInit => ApiInv
  BY ApiAssumption, ApiInvAtStart
<1>2. ApiInv /\ [ApiNext]_apiVars => ApiInv'
  BY ApiAssumption, ApiInvKept
<1> QED
  BY <1>1, <1>2, PTL DEF ApiSpec

(* backend/api/main.py, metrics and _broadcast: process never awaits, so the metrics that *)
(* a broadcast or a new WebSocket handler sends are never taken in the middle of an event.*)
THEOREM FeedMetricsBalanced == ApiSpec => []LiveMetricsBalanced
<1>1. ApiInv => LiveMetricsBalanced
  BY DEF ApiInv, SentBalanced, LiveMetricsBalanced
<1> QED
  BY <1>1, ApiInvAlways, PTL

(* backend/api/main.py, metrics: the counters of one PipelineStats object, read one       *)
(* after the other by a thread of the pool while the loop goes on, miss at most one event.*)
THEOREM PollersLagByOne == ApiSpec => []PolledMetricsLag
<1>1. ApiInv => PolledMetricsLag
  BY DEF ApiInv, PollersInv, PolledMetricsLag
<1> QED
  BY <1>1, ApiInvAlways, PTL

(* backend/api/main.py, alerts_ws and _broadcast: discarding the sockets that a broadcast *)
(* found dead never unsubscribes a connected client, and none stays when its handler ends.*)
THEOREM ConnectedAreSubscribed == ApiSpec => []SubscribersAreConnected
<1>1. ApiInv => SubscribersAreConnected
  BY DEF ApiInv, SocketsInv
<1> QED
  BY <1>1, ApiInvAlways, PTL

(* backend/api/main.py, ingest: the alert that an answer carries is the one its own event *)
(* raised, whatever the deque went through before it, when the event id is used once.     *)
THEOREM OwnAlertAttached == ApiSpec => []AttachedIsOwn
<1>1. ApiInv => AttachedIsOwn
  BY DEF ApiInv, AttachInv, OwnAlert, AttachedIsOwn
<1> QED
  BY <1>1, ApiInvAlways, PTL

(* backend/api/main.py, upload_pcap: from the reset to latest_analysis nothing awaits, so *)
(* the flows of an analysis are those of its own capture, all of them and no others.      *)
THEOREM AnalysisOfWholeCapture == ApiSpec => []AnalysisOfOneCapture
<1>1. ApiInv => AnalysisOfOneCapture
  BY DEF ApiInv, AnalysisInv
<1> QED
  BY <1>1, ApiInvAlways, PTL

(* backend/api/main.py, upload_pcap: between two uploads latest_analysis is of the one    *)
(* that began the session, unless that one failed.                                        *)
THEOREM AnalysisOfItsSession == ApiSpec => []AnalysisStaleOnlyByFailure
<1>1. ASSUME ApiInv, loop = Free
      PROVE  /\ owner # <<>> => pc[owner[1]] \in {"returned", "failed"}
             /\ \A a \in Elements(analysis) : owner = <<a.upload>> \/ pc[owner[1]] = "failed"
  <2>1. owner # <<>> => owner[1] # Free
    BY <1>1, ApiAssumption DEF ApiInv, AnalysisInv, Calls
  <2> QED
    BY <1>1, <2>1 DEF ApiInv, AnalysisInv
<1>2. ApiInv => AnalysisStaleOnlyByFailure
  BY <1>1 DEF AnalysisStaleOnlyByFailure
<1> QED
  BY <1>2, ApiInvAlways, PTL

(* backend/api/main.py, hosts: a row that shows enough observations and a baseline        *)
(* that is not ready is of a session that was reset since the request began.              *)
THEOREM ReadyWhenEnough == ApiSpec => []EnoughMeansReady
<1>1. ASSUME ApiInv, NEW r \in Pollers, ~Serving(r), NEW row \in Elements(listing[r].rows),
             row.observations >= Warmup, ~row.baseline_ready
      PROVE  listing[r].session < Len(baselines)
  <2>1. PICK i \in DOMAIN listing[r].rows : row = listing[r].rows[i]
    BY <1>1 DEF Elements
  <2>2. RowFair(r, i) /\ pollPc[r] # "observations"
    BY <1>1 DEF ApiInv, RowsInv, Serving
  <2> QED
    BY <1>1, <2>1, <2>2 DEF RowFair
<1>2. ApiInv => EnoughMeansReady
  BY <1>1 DEF EnoughMeansReady
<1> QED
  BY <1>2, ApiInvAlways, PTL

(* backend/api/main.py, hosts: dict iteration notices every host that was added, so       *)
(* a list that is answered is of all the hosts of its session, each in its place.         *)
THEOREM ListingsComplete == ApiSpec => ListedHostsComplete
<1>1. ASSUME ApiInv, [ApiNext]_apiVars, NEW r \in Pollers,
             pollPc[r] = "hosts", pollPc'[r] = "listed"
      PROVE  LET hosts == baselines[listing[r].session]
             IN  [i \in DOMAIN hosts |-> hosts[i].host]
                 = [i \in DOMAIN listing[r].rows |-> listing[r].rows[i].host]
  <2> DEFINE l == listing[r]
             hosts == baselines[l.session]
  <2>1. /\ l \in ListType /\ l.rows \in Seq(RowType) /\ hosts \in Seq(HostType)
        /\ pollPc \in [Pollers -> Phases]
    <3>1. l \in ListType /\ l.session \in DOMAIN statsOf /\ pollPc \in [Pollers -> Phases]
      BY <1>1 DEF ApiInv, ApiShape, PollShape
    <3> QED
      BY <1>1, <3>1, NewestSession, ElementOfSeq DEF ApiInv, ApiShape, SessionShape, ListType
  <2>2. /\ DOMAIN hosts = 1..Len(hosts) /\ DOMAIN l.rows = 1..Len(l.rows)
        /\ Len(hosts) \in Nat /\ Len(l.rows) \in Nat /\ l.size \in Nat
    BY <2>1, LenProperties DEF ListType
  <2>3. /\ Len(l.rows) <= Len(hosts)
        /\ \A i \in DOMAIN l.rows : l.rows[i].host = hosts[i].host
    BY <1>1 DEF ApiInv, RowsInv, RowsFollow
  <2>4. NextHost(r)
    <3>1. ~Poll(r) /\ ~Read(r) /\ ~ListHosts(r) /\ ~ReadColumn(r)
      BY <1>1, FieldCases DEF Poll, Read, ListHosts, ReadColumn, Serving
    <3>2. ~ListRaises(r) /\ ~CountWindows(r) /\ ~Counted(r)
      BY <1>1, <2>1 DEF ListRaises, CountWindows, Counted
    <3> QED
      BY <1>1, <3>1, <3>2, PollerMoves DEF ApiInv, ApiShape
  <2>5. Len(hosts) = l.size /\ Len(l.rows) + 1 > l.size
    BY <1>1, <2>1, <2>4 DEF NextHost, Resized
  <2>6. Len(l.rows) = Len(hosts)
    BY <2>2, <2>3, <2>5
  <2> QED
    BY <2>2, <2>3, <2>6
<1>2. ApiInv /\ [ApiNext]_apiVars =>
        [\A r \in Pollers : pollPc[r] = "hosts" /\ pollPc'[r] = "listed" =>
           LET hosts == baselines[listing[r].session]
           IN  [i \in DOMAIN hosts |-> hosts[i].host]
               = [i \in DOMAIN listing[r].rows |-> listing[r].rows[i].host]]_apiVars
  BY <1>1
<1> QED
  BY <1>2, ApiInvAlways, PTL DEF ApiSpec, ListedHostsComplete
===============================================================================
