------------------------------- MODULE Pipeline -------------------------------
(***************************************************************************)
(* backend/processing/pipeline.py: one call of process() sends an event    *)
(* through the window store, the feature extractors, the behavioural       *)
(* baseline, the detection engine and the alert store.  The call runs on   *)
(* the event loop without an await, so it is one step; but an exception in *)
(* any stage leaves the effects of the stages before it, and each outcome  *)
(* is an action of its own.                                                *)
(*                                                                         *)
(* The data of an event is reduced to what decides the control: whether    *)
(* its timestamp is aware, and whether a feature extractor raises on its   *)
(* metadata (bad).  What the detectors find is left open: an alert of any  *)
(* threat class, or none.  A process begins with the alerts an earlier one *)
(* has left in the database, the newest MaxItems of them.                  *)
(***************************************************************************)
EXTENDS WindowStore

CONSTANTS FeatureCap,   \* the extractors look at w[-256:]
          Threats,      \* threat classes an alert can have
          MaxItems,     \* capacity of the alert store's deque
          Persisted,    \* alerts an earlier process may have left in the database
          EngineFails,  \* whether the detection engine may raise
          StoreFails    \* whether SQLite may raise in AlertStore

ASSUME PipelineAssumption ==
  /\ FeatureCap \in Nat \ {0}
  /\ MaxItems \in Nat \ {0}
  /\ EngineFails \in BOOLEAN /\ StoreFails \in BOOLEAN
  /\ \A f \in Flow : f.bad \in BOOLEAN

VARIABLES stats,         \* PipelineStats
          observations,  \* behavior.hosts: a host's baseline.observations
          alerts,        \* alerts.items, oldest first: flow id and threat class
          loaded,        \* history: the alerts the session began with
          lastOf,        \* the event ids last_features, last_behavior_deviation
                         \* and last_detector_results were computed for
          outcomes       \* history: what became of every event of the session

ownVars == <<stats, observations, alerts, loaded, lastOf, outcomes>>
pipelineVars == <<windowVars, ownVars>>

Nothing == <<>>   \* no event yet
NoLast == [features |-> Nothing, deviation |-> Nothing, results |-> Nothing]
NoStats == [received |-> 0, accepted |-> 0, failed |-> 0]
NoBaselines == [h \in {} |-> 0]

\* Pipeline.__init__: AlertStore reads the alerts of the database, oldest first.
PipelineInit ==
  /\ WindowInit
  /\ stats = NoStats
  /\ observations = NoBaselines
  /\ alerts \in UNION {[1..n -> Persisted] : n \in 0..MaxItems}
  /\ \A i, j \in DOMAIN alerts : alerts[i] = alerts[j] => i = j
  /\ loaded = Elements(alerts)
  /\ lastOf = NoLast
  /\ outcomes = <<>>

-------------------------------------------------------------------------------
(* The stages of process() *)

\* Variants for the mutation runs: the extractors see the whole window; the
\* deviation is not stored; the whole window is learned; the deque repeats an id.
WholeWindow(f) == events'[f.src]
DescribedByFeatures(f) == [lastOf EXCEPT !.features = <<f.id>>]
LearnedWindow(h, deviation) ==
  [x \in DOMAIN observations \cup {h} |->
     (IF x \in DOMAIN observations THEN observations[x] ELSE 0)
     + (IF x = h THEN Len(Recent(events'[h], FeatureCap)) ELSE 0)]
WithAlertAgain(a) == Recent(Append(alerts, a), MaxItems)

\* The window of the event's host after the add, cut to the newest FeatureCap.
FeatureWindow(f) == Recent(events'[f.src], FeatureCap)

\* An extractor raises: on metadata it cannot convert, of ANY event in the
\* window, and when the temporal features sort naive with aware timestamps.
ExtractorsRaise(w) ==
  \/ \E g \in Elements(w) : g.bad
  \/ \E g1, g2 \in Elements(w) : g1.aware # g2.aware

\* behavior.score: setdefault creates the baseline before it is needed.
Touched(h) ==
  [x \in DOMAIN observations \cup {h} |->
     IF x \in DOMAIN observations THEN observations[x] ELSE 0]

\* HostBaseline.deviation: zero before two observations, and also later when no
\* feature has varied; otherwise below or above the 0.8 that stops learning.
Deviations(h) ==
  IF Touched(h)[h] < 2 THEN {"zero"} ELSE {"zero", "low", "high"}

\* behavior.learn: a strongly deviating event is not learned.
Learned(h, deviation) ==
  IF deviation = "high" THEN Touched(h) ELSE [Touched(h) EXCEPT ![h] = @ + 1]

\* fuse: the alert's id is made of the flow id and the threat class.
AlertsOf(f) == {[flow |-> f.id, threat |-> t] : t \in Threats}

\* alerts.add: nothing for an id that is in the deque.
WithAlert(a) ==
  IF a \in Elements(alerts) THEN alerts ELSE Recent(Append(alerts, a), MaxItems)

\* last_features and last_behavior_deviation now describe f.
Described(f) == [lastOf EXCEPT !.features = <<f.id>>, !.deviation = <<f.id>>]

\* The call ends: with the event counted, or with a re-raised exception; alert is
\* the set of the alerts it has raised, of one or of none.
Ends(f, how, alert, learned) ==
  /\ stats' = [received |-> stats.received + 1,
               accepted |-> stats.accepted + (IF how = "accepted" THEN 1 ELSE 0),
               failed |-> stats.failed + (IF how = "accepted" THEN 0 ELSE 1)]
  /\ outcomes' = Append(outcomes, [flow |-> f, how |-> how,
                                   alert |-> alert, learned |-> learned])
  /\ UNCHANGED loaded

-------------------------------------------------------------------------------
(* process(f), by outcome *)

\* windows.add raises.
RejectedByWindow(f) ==
  /\ AddRaises(f)
  /\ Ends(f, "window", {}, FALSE)
  /\ UNCHANGED <<observations, alerts, lastOf>>

\* A feature extractor raises; last_features keeps the previous event's.
RejectedByFeatures(f) ==
  /\ AddReturns(f)
  /\ ExtractorsRaise(FeatureWindow(f))
  /\ Ends(f, "features", {}, FALSE)
  /\ UNCHANGED <<observations, alerts, lastOf>>

\* engine.analyze raises, after the features and the deviation were stored.
RejectedByEngine(f) ==
  /\ EngineFails
  /\ AddReturns(f)
  /\ ~ExtractorsRaise(FeatureWindow(f))
  /\ observations' = Touched(f.src)
  /\ lastOf' = Described(f)
  /\ Ends(f, "engine", {}, FALSE)
  /\ UNCHANGED alerts

\* alerts.add raises after it appended: the alert stays, the event has failed,
\* and it is not learned.
RejectedByStore(f) ==
  /\ StoreFails
  /\ AddReturns(f)
  /\ ~ExtractorsRaise(FeatureWindow(f))
  /\ \E a \in AlertsOf(f) \ Elements(alerts) :
       alerts' = WithAlert(a) /\ Ends(f, "store", {a}, FALSE)
  /\ observations' = Touched(f.src)
  /\ lastOf' = [Described(f) EXCEPT !.results = <<f.id>>]

\* Every stage returns, with or without an alert.
Accepted(f) ==
  /\ AddReturns(f)
  /\ ~ExtractorsRaise(FeatureWindow(f))
  /\ \E deviation \in Deviations(f.src) :
       /\ observations' = Learned(f.src, deviation)
       /\ \/ UNCHANGED alerts /\ Ends(f, "accepted", {}, deviation # "high")
          \/ \E a \in AlertsOf(f) :
               alerts' = WithAlert(a) /\ Ends(f, "accepted", {a}, deviation # "high")
  /\ lastOf' = [Described(f) EXCEPT !.results = <<f.id>>]

Process(f) ==
  \/ RejectedByWindow(f) \/ RejectedByFeatures(f) \/ RejectedByEngine(f)
  \/ RejectedByStore(f) \/ Accepted(f)

-------------------------------------------------------------------------------
(* reset_session() *)

NewSession ==
  /\ NewWindow
  /\ observations' = NoBaselines
  /\ stats' = NoStats
  /\ alerts' = <<>>
  /\ loaded' = {}
  /\ outcomes' = <<>>

ResetReturns == NewSession /\ lastOf' = NoLast

\* alerts.clear raises after it emptied the deque: the last_* fields are not reset.
ResetRaises == StoreFails /\ NewSession /\ UNCHANGED lastOf

PipelineNext ==
  \/ Len(outcomes) < MaxAdds /\ \E f \in Flow : Process(f)
  \/ ResetReturns
  \/ ResetRaises

PipelineSpec == PipelineInit /\ [][PipelineNext]_pipelineVars

-------------------------------------------------------------------------------
(* Properties *)

\* How many events of host h ended in one of the given ways.
Count(h, hows) ==
  Cardinality({i \in DOMAIN outcomes : outcomes[i].flow.src = h /\ outcomes[i].how \in hows})

\* Every event of the session is counted exactly once, as accepted or as failed,
\* whichever stage raised.
EveryEventCounted ==
  /\ stats.received = Len(outcomes)
  /\ stats.accepted = Cardinality({i \in DOMAIN outcomes : outcomes[i].how = "accepted"})
  /\ stats.failed = stats.received - stats.accepted

\* A baseline learns no event that failed, whatever the stages before the failure
\* did; and it never starves: the first two accepted events are always learned.
BaselineCountsAccepted ==
  \A h \in DOMAIN observations :
    /\ observations[h] <= Count(h, {"accepted"})
    /\ observations[h] >= 2 \/ observations[h] = Count(h, {"accepted"})

\* The counters and the baselines agree with how each call of the session ended,
\* whichever stage raised (process).
CountsMatchOutcomes == EveryEventCounted /\ BaselineCountsAccepted

\* The alerts that calls of this session have raised.
Raised == UNION {outcomes[i].alert : i \in DOMAIN outcomes}

\* Every alert shown was raised by a call of this session, accepted or not, or was in
\* the database when the process began; no id is shown twice, also when an event is
\* sent again after a restart; an alert is forgotten only while the deque is full;
\* and what this session raised comes after what it began with.
AlertsExplained ==
  /\ Elements(alerts) \subseteq loaded \cup Raised
  /\ \A i, j \in DOMAIN alerts : alerts[i] = alerts[j] => i = j
  /\ loaded \cup Raised \subseteq Elements(alerts) \/ Len(alerts) = MaxItems
  /\ \A i, j \in DOMAIN alerts :
       i < j /\ alerts[i] \notin loaded => alerts[j] \in Raised

\* The calls from the j-th to the i-th that were for an event of host h.
CallsOf(h, j, i) == {k \in j..i : outcomes[k].flow.src = h}

\* The last FeatureCap events of the i-th call's host, up to and with the i-th.
RecentOfHost(i) ==
  LET h == outcomes[i].flow.src
  IN  {outcomes[j].flow : j \in
         {j \in CallsOf(h, 1, i) : Cardinality(CallsOf(h, j + 1, i)) < FeatureCap}}

\* A malformed event cannot block its host for ever: when the extractors reject
\* an event, an event they cannot convert, or a mix of naive and aware ones, is
\* among the last FeatureCap arrivals of the host.
RejectionHasRecentCause ==
  \A i \in DOMAIN outcomes : outcomes[i].how = "features" =>
    \/ \E g \in RecentOfHost(i) : g.bad
    \/ \E g1, g2 \in RecentOfHost(i) : g1.aware # g2.aware

\* The last outcome that got past the extractors.
LastThrough == {i \in DOMAIN outcomes :
  /\ outcomes[i].how \in {"accepted", "engine", "store"}
  /\ \A j \in DOMAIN outcomes : j > i => outcomes[j].how \in {"window", "features"}}

\* The three last_* fields, which the API reads one by one after a call, describe
\* one and the same event, except that results are older when the engine raised.
LastDescribesOneEvent ==
  \A i \in LastThrough :
    /\ lastOf.features = <<outcomes[i].flow.id>>
    /\ lastOf.deviation = lastOf.features
    /\ outcomes[i].how # "engine" => lastOf.results = lastOf.features
===============================================================================
