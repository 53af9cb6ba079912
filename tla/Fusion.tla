-------------------------------- MODULE Fusion ---------------------------------
(***************************************************************************)
(* fuse of backend/fusion/risk.py.  Scores are in thousandths, and         *)
(* confidences in millionths, in which the weighted sums are exact.        *)
(***************************************************************************)
EXTENDS Integers, FiniteSetsExt

Million == 1000000
Capped(c) == IF c > Million THEN Million ELSE c

\* The results that count, and the classes they report.
Counting(results) == {r \in results : r.score >= 500}
ClassesOf(results) == {r.threat : r \in Counting(results)}
Group(results, threat) == {r \in Counting(results) : r.threat = threat}
Strongest(group) == Max({r.score : r \in group})

\* The class a group stands for: the one with the strongest detector, and of those
\* with equally strong ones one with the most detectors.
IsChosen(results, threat) ==
  /\ threat \in ClassesOf(results)
  /\ \A t \in ClassesOf(results) :
       LET mine == Group(results, threat)
           other == Group(results, t)
       IN  \/ Strongest(mine) > Strongest(other)
           \/ /\ Strongest(mine) = Strongest(other)
              /\ Cardinality(mine) >= Cardinality(other)

Corroboration(group) == Min({150000, 50000 * (Cardinality(group) - 1)})

\* Variant for the mutation runs: a strong anomaly earns no bonus.
BonusForgotten(anomaly) == 0

Bonus(anomaly) == IF anomaly > 800 THEN 80000 ELSE 0

ConfidenceOf(group, deviation, anomaly) ==
  Capped(Capped(650 * Strongest(group) + 200 * deviation + 150 * anomaly
                + Corroboration(group)) + Bonus(anomaly))

UnknownConfidence(deviation, anomaly) == 850 * anomaly + 150 * deviation

Severity(confidence) ==
  IF confidence >= 900000 THEN "CRITICAL"
  ELSE IF confidence >= 750000 THEN "HIGH"
  ELSE IF confidence >= 500000 THEN "MEDIUM" ELSE "LOW"

AlertOf(threat, confidence) ==
  [threat |-> threat, confidence |-> confidence, severity |-> Severity(confidence)]

\* The alerts fuse can return, {} for None.  There are two of them at most when two
\* classes tie, between which the order of the results decides.
Fuse(results, deviation, anomaly) ==
  LET unknown == UnknownConfidence(deviation, anomaly)
      candidates ==
        IF ClassesOf(results) = {}
        THEN IF anomaly < 500 THEN {} ELSE {AlertOf("unknown_anomaly", unknown)}
        ELSE {AlertOf(t, ConfidenceOf(Group(results, t), deviation, anomaly)) :
                t \in {t \in ClassesOf(results) : IsChosen(results, t)}}
  IN  {a \in candidates : a.confidence >= 500000}

===============================================================================
