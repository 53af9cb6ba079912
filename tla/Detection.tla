------------------------------- MODULE Detection -------------------------------
(***************************************************************************)
(* DetectionEngine.analyze as Pipeline.process calls it: the window of the *)
(* event's source goes through the rules and the trained models, and what  *)
(* they find is fused into an alert or none.                               *)
(*                                                                         *)
(* Each source has a window of its own (pipeline.py:34).  The events of a  *)
(* session that are still in a window are counted by kind; expiry begins a *)
(* window anew.                                                            *)
(***************************************************************************)
EXTENDS Rules, Fusion

CONSTANTS Hosts,       \* the sources
          Kinds,       \* the kinds of events they send
          Anomalies,   \* scores of the isolation forest, 0 while it is not fitted
          Deviations,  \* scores of the baseline
          Findings,    \* sets of results of the metadata rules and the random forest
          MaxEvents,   \* bound: events in the window of each source
          Mixtures     \* bound: sets of kinds that may be in the windows at once

\* The classes of the metadata rules, which no other rule reports.
MetadataClass == [dga |-> "dga_domain", dns_tunnel |-> "dns_tunneling",
                  encrypted_metadata |-> "encrypted_malware"]

ASSUME DetectionAssumption ==
  /\ Kinds \subseteq KindShape(Hosts) /\ IsFiniteSet(Kinds)
  /\ Anomalies \subseteq 0..1000 /\ Deviations \subseteq 0..1000
  /\ \A found \in Findings : \A r \in found :
       /\ r.detector \in {"random_forest"} \cup DOMAIN MetadataClass
       /\ r.detector \in DOMAIN MetadataClass => r.threat = MetadataClass[r.detector]
       /\ r.score \in 0..1000
  /\ \A found \in Findings :
       IsFiniteSet(found) /\ \A r, s \in found : r.detector = s.detector => r = s
  /\ MaxEvents \in [Hosts -> Nat]
  /\ Mixtures \subseteq SUBSET Kinds

VARIABLES windows,  \* the window of each source
          call      \* the call of analyze that runs: its window, what it has found

detectionVars == <<windows, call>>

NoWindow == [of |-> [k \in Kinds |-> 0], lead |-> 0]
NoCall ==
  [phase |-> "none", window |-> NoWindow, results |-> {}, deviation |-> 0,
   anomaly |-> 0, alert |-> {}]

DetectionInit ==
  /\ windows = [h \in Hosts |-> NoWindow]
  /\ call = NoCall

With(w, k) == [of |-> [w.of EXCEPT ![k] = @ + 1],
               lead |-> IF Size(w) = 0 THEN k.gap ELSE w.lead]

\* Variant for the mutation runs: the windows of all sources are taken for one.
WindowOfAll(h) ==
  [of |-> [k \in Kinds |-> windows[k.src].of[k]], lead |-> windows[h].lead]

\* get: the window of the source.
WindowOf(h) == windows[h]

\* The bounds of the windows: what an event of kind k may join.
MayJoin(k) ==
  /\ Size(windows[k.src]) < MaxEvents[k.src]
  /\ \E mixture \in Mixtures :
       {k} \cup UNION {Present(windows[h]) : h \in Hosts} \subseteq mixture

\* The event enters its source's window, and the rules look at that.
Detected(k) ==
  /\ call = NoCall
  /\ MayJoin(k)
  /\ windows' = [windows EXCEPT ![k.src] = With(@, k)]
  /\ call' = [NoCall EXCEPT !.phase = "detected", !.window = WindowOf(k.src)',
                            !.results = Counting(Detect(WindowOf(k.src)'))]

\* The results of the metadata rules and of the forest come to it, and are fused.
Fused(found, deviation, anomaly) ==
  /\ call.phase = "detected"
  /\ LET results == call.results \cup found
         alerts == Fuse(results, deviation, anomaly)
     IN  \E alert \in {{a} : a \in alerts} \cup (IF alerts = {} THEN {{}} ELSE {}) :
           call' = [phase |-> "fused", window |-> call.window,
                    results |-> Counting(results), deviation |-> deviation,
                    anomaly |-> anomaly, alert |-> alert]
  /\ UNCHANGED windows

Returned == call.phase = "fused" /\ call' = NoCall /\ UNCHANGED windows

\* A minute of silence: the window of a source has expired before its next event.
Expired(h) ==
  /\ call = NoCall /\ windows[h] # NoWindow
  /\ windows' = [windows EXCEPT ![h] = NoWindow]
  /\ UNCHANGED call

DetectionNext ==
  \/ \E k \in Kinds : Detected(k)
  \/ \E found \in Findings, deviation \in Deviations, anomaly \in Anomalies :
       Fused(found, deviation, anomaly)
  \/ Returned
  \/ \E h \in Hosts : Expired(h)

DetectionSpec == DetectionInit /\ [][DetectionNext]_detectionVars

-------------------------------------------------------------------------------
(* Properties *)

\* The events that count for the rules of either flood.
SynAndUdp(w) == Many(w, LAMBDA k : k.syn /\ k.udp /\ ~k.dns)

\* README.md names spoofed sources and reflection among the threats detected.  The
\* rules for them count sources, and are given the window of one source: whatever
\* the sources send, neither rule ever counts (detect, Pipeline.process).
OneSourceSilent ==
  \A r \in call.results : r.detector \notin {"spoof_entropy", "udp_reflection"}

\* Two detectors of one class count together without the random forest, and earn the
\* bonus for corroboration, only on a window in which at least 525 of 1000 events are
\* SYNs and at once UDP that is no DNS query, flows whose flags contradict their
\* protocol: nothing relates the two in an accepted event, but no mixture of SYNs and
\* of UDP flows without flags corroborates itself (detect, fuse).
RulesCorroborateOnBoth ==
  \A r, s \in call.results :
    r # s /\ r.threat = s.threat /\ "random_forest" \notin {r.detector, s.detector} =>
      1000 * SynAndUdp(call.window) >= 525 * Size(call.window)

\* An anomaly that would raise an alert on its own, were there no class, is silenced
\* by a class only if it is no more than 0.8 and every class scores below 0.634:
\* then the weighted confidence of the class is below 0.5 (fuse).
AnomalyHeard ==
  /\ call.anomaly >= 500
  /\ UnknownConfidence(call.deviation, call.anomaly) >= 500000
  /\ call.alert = {}
  => /\ call.anomaly <= 800
     /\ call.results # {} /\ \A r \in call.results : r.score < 634

===============================================================================
