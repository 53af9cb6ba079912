----------------------------- MODULE EngineProofs -----------------------------
(***************************************************************************)
(* Proofs about backend/detection/engine.py: the detection and the         *)
(* lifecycle of its trained models, which share no variable.               *)
(*                                                                         *)
(* About Detection: which rules a window of one source silences whatever   *)
(* it holds, and when the fusion drops an anomaly.                         *)
(*                                                                         *)
(* About ModelLifecycle, for any number of detectors, trainings and        *)
(* schemas.  The inductive invariant says, for a detector that was trained *)
(* once, that every place its names and model pass through (the fields, a  *)
(* training's rows, a record that is being written, the file, an event     *)
(* that is being scored) has both from that training; and, while the last  *)
(* training is calm, how far its save_models has brought the files.        *)
(***************************************************************************)
EXTENDS Detection, ModelLifecycle, BoundedSeqProofs, FiniteSetTheorems

-------------------------------------------------------------------------------
(* The rules that count sources *)

(* A window whose events have one source has at most one source. *)
LEMMA OneSource ==
  ASSUME NEW w, NEW h, \A k \in DOMAIN w.of : w.of[k] > 0 => k.src = h
  PROVE  Cardinality(Sources(w)) \in {0, 1}
<1>1. Sources(w) \in SUBSET {h}
  BY DEF Sources, Present
<1>2. CASE Sources(w) = {}
  BY <1>2, FS_EmptySet
<1>3. CASE Sources(w) = {h}
  BY <1>3, FS_Singleton
<1> QED
  BY <1>1, <1>2, <1>3

(* In such a window the rules for spoofed sources and reflection score 0, and *)
(* do not count.                                                              *)
LEMMA OneSourceScoresZero ==
  ASSUME NEW w, NEW h, \A k \in DOMAIN w.of : w.of[k] > 0 => k.src = h,
         NEW r \in Counting(Detect(w))
  PROVE  r.detector \notin {"spoof_entropy", "udp_reflection"}
<1>0. ~(Cardinality(Sources(w)) >= 5) /\ ~(Cardinality(Sources(w)) >= 6)
  <2>1. Cardinality(Sources(w)) \in {0, 1}
    BY OneSource, Zenon
  <2> QED
    BY <2>1
<1>1. SpoofedFlood(w) = 0
  BY <1>0, Zenon DEF SpoofedFlood
<1>2. Reflection(w) = 0
  <2>1. ~IsFanIn(w)
    BY <1>0 DEF IsFanIn
  <2> QED
    BY <2>1 DEF Reflection
<1>3. r \in Detect(w) /\ r.score >= 500
  BY DEF Counting
<1>4. CASE r = Result("spoof_entropy", "spoofed_source_flood", SpoofedFlood(w))
  BY <1>1, <1>3, <1>4 DEF Result
<1>5. CASE r = Result("udp_reflection", "udp_reflection_amplification", Reflection(w))
  BY <1>2, <1>3, <1>5 DEF Result
<1>6. ASSUME NEW d \in {"syn_flood", "udp_flood", "recon_port_scan", "exfil_asymmetry",
                        "c2_beacon"},
             NEW t, NEW s, r = Result(d, t, s)
      PROVE  r.detector \notin {"spoof_entropy", "udp_reflection"}
  BY <1>6 DEF Result
<1> QED
  BY <1>3, <1>4, <1>5, <1>6 DEF Detect

(* Every event in the window of a source is of that source. *)
OwnEvents ==
  /\ windows \in [Hosts -> [of : [Kinds -> Nat], lead : Nat]]
  /\ \A h \in Hosts : \A k \in Kinds : windows[h].of[k] > 0 => k.src = h

(* An event enters the window of its own source only, and no other action fills one. *)
LEMMA OwnEventsInductive ==
  ASSUME OwnEvents, [DetectionNext]_detectionVars
  PROVE  OwnEvents'
<1>1. CASE UNCHANGED windows
  BY <1>1 DEF OwnEvents
<1>2. ASSUME NEW k \in Kinds, Detected(k)
      PROVE  OwnEvents'
  <2>1. k.src \in Hosts /\ k.gap \in Nat
    BY DetectionAssumption DEF KindShape
  <2> DEFINE own == windows[k.src]
             new == With(own, k)
  <2>2. own.of \in [Kinds -> Nat] /\ own.lead \in Nat
    BY <2>1 DEF OwnEvents
  <2>3. new = [of |-> new.of, lead |-> new.lead] /\ new.lead \in Nat
    BY <2>1, <2>2 DEF With
  <2>4. new.of \in [Kinds -> Nat]
    BY <2>2 DEF With
  <2>5. \A x \in Kinds : x # k => new.of[x] = own.of[x]
    BY <2>2 DEF With
  <2>6. new \in [of : [Kinds -> Nat], lead : Nat]
    BY <2>3, <2>4
  <2>7. windows' = [windows EXCEPT ![k.src] = new]
    BY <1>2 DEF Detected
  <2>8. \A x \in Kinds : new.of[x] > 0 => x.src = k.src
    BY <2>1, <2>5 DEF OwnEvents
  <2> HIDE DEF new
  <2> QED
    BY <2>1, <2>6, <2>7, <2>8 DEF OwnEvents
<1>3. ASSUME NEW h \in Hosts, Expired(h)
      PROVE  OwnEvents'
  BY <1>3 DEF Expired, OwnEvents, NoWindow
<1> QED
  BY <1>1, <1>2, <1>3 DEF DetectionNext, detectionVars, Fused, Returned

(* Whatever the sources send, in any number and mixture, and whatever the other   *)
(* detectors find, the rules for spoofed sources and for reflection are silent.   *)
THEOREM SpoofingUnheard == DetectionSpec => []OneSourceSilent
<1>1. DetectionInit => OwnEvents /\ OneSourceSilent
  BY DEF DetectionInit, OwnEvents, OneSourceSilent, NoWindow, NoCall
<1>2. OwnEvents /\ OneSourceSilent /\ [DetectionNext]_detectionVars
        => OwnEvents' /\ OneSourceSilent'
  <2> SUFFICES ASSUME OwnEvents, OneSourceSilent, [DetectionNext]_detectionVars
               PROVE  OwnEvents' /\ OneSourceSilent'
    OBVIOUS
  <2>1. OwnEvents'
    BY OwnEventsInductive
  <2>2. CASE UNCHANGED call
    BY <2>1, <2>2 DEF OneSourceSilent
  <2>3. ASSUME NEW k \in Kinds, Detected(k)
        PROVE  OneSourceSilent'
    <3>1. k.src \in Hosts
      BY DetectionAssumption DEF KindShape
    <3> DEFINE w == windows'[k.src]
    <3>2. call'.results = Counting(Detect(w))
      BY <2>3 DEF Detected, NoCall, WindowOf
    <3>3. \A x \in DOMAIN w.of : w.of[x] > 0 => x.src = k.src
      BY <2>1, <3>1 DEF OwnEvents
    <3> HIDE DEF w
    <3> QED
      BY <3>2, <3>3, OneSourceScoresZero DEF OneSourceSilent
  <2>4. ASSUME NEW found \in Findings, NEW deviation, NEW anomaly,
               Fused(found, deviation, anomaly)
        PROVE  OneSourceSilent'
    <3>1. call'.results = Counting(call.results \cup found)
      BY <2>4 DEF Fused
    <3>2. \A r \in found : r.detector \notin {"spoof_entropy", "udp_reflection"}
      BY DetectionAssumption DEF MetadataClass
    <3> QED
      BY <3>1, <3>2 DEF OneSourceSilent, Counting
  <2>5. CASE Returned
    BY <2>1, <2>5 DEF Returned, NoCall, OneSourceSilent
  <2> QED
    BY <2>1, <2>2, <2>3, <2>4, <2>5 DEF DetectionNext, detectionVars, Expired
<1> QED
  BY <1>1, <1>2, PTL DEF DetectionSpec

-------------------------------------------------------------------------------
(* The fusion of an anomaly with classes *)

(* A non-empty set of scores has a greatest one. *)
LEMMA MaxOfScores ==
  ASSUME NEW T \in SUBSET (0..1000), T # {}
  PROVE  Max(T) \in T /\ \A y \in T : Max(T) >= y
<1> DEFINE U == {1000 - t : t \in T}
<1>0. \A t \in T : t \in Nat /\ t <= 1000 /\ 1000 - t \in Nat
  OBVIOUS
<1>1. U \in SUBSET Nat /\ U # {}
  <2>1. \A u \in U : u \in Nat
    BY <1>0
  <2>2. PICK t \in T : TRUE
    BY ZenonT(30)
  <2>3. 1000 - t \in U
    OBVIOUS
  <2> HIDE DEF U
  <2> QED
    BY <2>1, <2>3
<1>2. /\ \A y \in T : 1000 - y \in U
      /\ \A u \in U : \E t \in T : u = 1000 - t
  OBVIOUS
<1> HIDE DEF U
<1>3. PICK u \in U : \A v \in U : u <= v
  BY <1>1, LeastNat
<1>4. PICK t \in T : u = 1000 - t
  BY <1>2
<1>5. \A y \in T : t >= y
  <2> TAKE y \in T
  <2>1. u <= 1000 - y
    BY <1>2, <1>3
  <2> QED
    BY <1>0, <1>4, <2>1
<1>6. \E x \in T : \A y \in T : x >= y
  BY <1>5
<1> QED
  BY <1>6, ZenonT(30) DEF Max

Scored(results) == IsFiniteSet(results) /\ \A r \in results : r.score \in 0..1000

(* The strongest detector of a class has the greatest score of the class. *)
LEMMA StrongestProperties ==
  ASSUME NEW results, Scored(results), NEW t \in ClassesOf(results)
  PROVE  /\ Strongest(Group(results, t)) \in 500..1000
         /\ \A r \in Group(results, t) : r.score <= Strongest(Group(results, t))
         /\ Cardinality(Group(results, t)) \in 1..Cardinality(results)
<1> DEFINE G == Group(results, t)
           T == {r.score : r \in G}
<1>1. G \in SUBSET results /\ G # {}
  BY DEF Group, ClassesOf, Counting
<1>2. \A r \in G : r.score \in 500..1000
  BY DEF Group, Counting, Scored
<1>3. T \in SUBSET (0..1000) /\ T # {}
  BY <1>1, <1>2
<1>4. Max(T) \in T /\ \A y \in T : Max(T) >= y
  <2> HIDE DEF T
  <2> QED
    BY <1>3, MaxOfScores
<1>5. Strongest(G) = Max(T)
  BY DEF Strongest
<1>6. IsFiniteSet(G) /\ Cardinality(G) <= Cardinality(results)
  BY <1>1, FS_Subset DEF Scored
<1>7. Cardinality(G) \in Nat /\ Cardinality(results) \in Nat /\ Cardinality(G) # 0
  BY <1>1, <1>6, FS_CardinalityType, FS_EmptySet DEF Scored
<1>8. \A r \in G : r.score <= Max(T)
  BY <1>2, <1>3, <1>4
<1>9. Max(T) \in 500..1000
  BY <1>2, <1>4
<1> HIDE DEF G, T
<1> QED
  BY <1>5, <1>6, <1>7, <1>8, <1>9 DEF G

(* Where some class counts, one is chosen. *)
LEMMA SomeClassIsChosen ==
  ASSUME NEW results, Scored(results), ClassesOf(results) # {}
  PROVE  \E t \in ClassesOf(results) : IsChosen(results, t)
<1> DEFINE C == ClassesOf(results)
           S(t) == Strongest(Group(results, t))
           N(t) == Cardinality(Group(results, t))
<1>1. \A t \in C : S(t) \in 500..1000 /\ N(t) \in 1..Cardinality(results)
  BY StrongestProperties
<1>2. Cardinality(results) \in Nat
  BY FS_CardinalityType DEF Scored
<1> SUFFICES \E t \in C : \A x \in C :
               S(t) > S(x) \/ (S(t) = S(x) /\ N(t) >= N(x))
  BY DEF IsChosen
<1> HIDE DEF C, S, N
<1>3. PICK u \in C : \A x \in C : S(u) >= S(x)
  <2> DEFINE U == {1000 - S(x) : x \in C}
  <2>1. U \in SUBSET Nat /\ U # {}
    BY <1>1 DEF C
  <2>2. PICK n \in U : \A m \in U : n <= m
    BY <2>1, LeastNat
  <2>3. PICK u \in C : n = 1000 - S(u)
    BY <2>2
  <2> SUFFICES ASSUME NEW x \in C PROVE S(u) >= S(x)
    OBVIOUS
  <2>4. n <= 1000 - S(x)
    BY <2>2
  <2>5. S(u) \in Nat /\ S(x) \in Nat
    BY <1>1
  <2> QED
    BY <2>3, <2>4, <2>5
<1> DEFINE Top == {x \in C : S(x) = S(u)}
<1>4. PICK t \in Top : \A x \in Top : N(t) >= N(x)
  <2> DEFINE U == {Cardinality(results) - N(x) : x \in Top}
  <2>1. U \in SUBSET Nat /\ U # {}
    BY <1>1, <1>2, <1>3
  <2>2. PICK n \in U : \A m \in U : n <= m
    BY <2>1, LeastNat
  <2>3. PICK t \in Top : n = Cardinality(results) - N(t)
    BY <2>2
  <2> SUFFICES ASSUME NEW x \in Top PROVE N(t) >= N(x)
    OBVIOUS
  <2>4. n <= Cardinality(results) - N(x)
    BY <2>2
  <2>5. N(t) \in Int /\ N(x) \in Int
    BY <1>1, <1>2
  <2> QED
    BY <1>2, <2>3, <2>4, <2>5
<1>5. ASSUME NEW x \in C
      PROVE  S(t) > S(x) \/ (S(t) = S(x) /\ N(t) >= N(x))
  <2>1. S(t) \in Int /\ S(x) \in Int
    BY <1>1
  <2>2. S(t) = S(u) /\ S(t) >= S(x)
    BY <1>3, <1>4
  <2>3. CASE S(t) > S(x)
    BY <2>3
  <2>4. CASE S(t) = S(x)
    BY <1>4, <2>2, <2>4
  <2> QED
    BY <2>1, <2>2, <2>3, <2>4
<1> QED
  BY <1>5

(* No result that counts is stronger than the chosen class. *)
LEMMA ChosenIsStrongest ==
  ASSUME NEW results, Scored(results), NEW t \in ClassesOf(results),
         IsChosen(results, t), NEW r \in Counting(results)
  PROVE  r.score \in 0..1000 /\ r.score <= Strongest(Group(results, t))
<1>1. r.threat \in ClassesOf(results) /\ r \in Group(results, r.threat)
  BY DEF ClassesOf, Group
<1> DEFINE n == r.score
           mine == Strongest(Group(results, t))
           other == Strongest(Group(results, r.threat))
<1>2. n \in 0..1000
  BY DEF Counting, Scored
<1>3. mine > other \/ mine = other
  BY <1>1 DEF IsChosen
<1>4. n <= other /\ other \in 500..1000 /\ mine \in 500..1000
  BY <1>1, StrongestProperties
<1> HIDE DEF n, mine, other
<1>5. n <= mine
  BY <1>2, <1>3, <1>4
<1> QED
  BY <1>2, <1>5 DEF n, mine

\* An anomaly that would raise an alert on its own.
Loud(deviation, anomaly) ==
  /\ deviation \in 0..1000 /\ anomaly \in 0..1000
  /\ anomaly >= 500 /\ UnknownConfidence(deviation, anomaly) >= 500000

\* How a class may silence it.
WeaklySilenced(results, anomaly) ==
  /\ anomaly <= 800
  /\ Counting(results) # {} /\ \A r \in Counting(results) : r.score < 634

(* What a class must reach for the fusion to report it beside an anomaly that would *)
(* be reported on its own; for all scores and any number of results.                *)
LEMMA AnomalySilencedOnlyByWeakClasses ==
  ASSUME NEW results, Scored(results), NEW deviation, NEW anomaly,
         Loud(deviation, anomaly),
         Fuse(results, deviation, anomaly) = {}
  PROVE  WeaklySilenced(results, anomaly)
<1>0. deviation \in 0..1000 /\ anomaly \in 0..1000
  BY DEF Loud
<1>1. ClassesOf(results) # {}
  <2> SUFFICES ASSUME ClassesOf(results) = {} PROVE FALSE
    OBVIOUS
  <2> DEFINE a == AlertOf("unknown_anomaly", UnknownConfidence(deviation, anomaly))
  <2>1. a.confidence >= 500000
    BY <1>0 DEF AlertOf, Loud
  <2>2. ~(anomaly < 500)
    BY DEF Loud
  <2> HIDE DEF a
  <2>3. a \in Fuse(results, deviation, anomaly)
    BY <2>1, <2>2 DEF Fuse, a
  <2> QED
    BY <2>3
<1>2. PICK t \in ClassesOf(results) : IsChosen(results, t)
  BY <1>1, SomeClassIsChosen
<1> DEFINE G == Group(results, t)
           c == ConfidenceOf(G, deviation, anomaly)
           S == Strongest(G)
<1>3. ~(c >= 500000)
  <2> DEFINE a == AlertOf(t, c)
  <2>1. a.confidence = c
    BY DEF AlertOf
  <2> HIDE DEF a, c
  <2>2. c >= 500000 => a \in Fuse(results, deviation, anomaly)
    BY <1>1, <1>2, <2>1 DEF Fuse, a, c
  <2> QED
    BY <2>2
<1>4. S \in 500..1000 /\ Cardinality(G) \in Nat /\ Cardinality(G) >= 1
  <2>1. Cardinality(results) \in Nat
    BY FS_CardinalityType DEF Scored
  <2> QED
    BY <2>1, StrongestProperties
<1>5. Corroboration(G) \in Nat
  <2> DEFINE n == 50000 * (Cardinality(G) - 1)
  <2>1. n \in Nat
    BY <1>4
  <2> HIDE DEF n
  <2>2. \E x \in {150000, n} : \A y \in {150000, n} : x <= y
    BY <2>1
  <2>3. Min({150000, n}) \in {150000, n}
    BY <2>2 DEF Min
  <2> QED
    BY <2>1, <2>3 DEF Corroboration, n
<1> HIDE DEF G, S
<1>6. c = Capped(Capped(650 * S + 200 * deviation + 150 * anomaly + Corroboration(G))
                 + Bonus(anomaly))
  BY DEF ConfidenceOf, S
<1>7. anomaly <= 800 /\ S < 634
  <2> DEFINE k == Corroboration(G)
             x == 650 * S + 200 * deviation + 150 * anomaly + k
             b == Bonus(anomaly)
  <2>1. k \in Nat /\ x \in Nat
    BY <1>0, <1>4, <1>5
  <2>2. 650 * S + 200 * deviation + 150 * anomaly <= x
    BY <1>0, <1>4, <1>5
  <2>3. b = IF anomaly > 800 THEN 80000 ELSE 0
    BY DEF Bonus
  <2>4. c = Capped(Capped(x) + b)
    BY <1>6
  <2> HIDE DEF k, c, x, b
  <2>5. Capped(x) \in Nat /\ (Capped(x) = x \/ Capped(x) = 1000000)
    BY <2>1 DEF Capped, Million
  <2> DEFINE y == Capped(x)
  <2>6. y \in Nat /\ (y = x \/ y = 1000000)
    BY <2>5
  <2>7. c = Capped(y + b)
    BY <2>4
  <2> HIDE DEF y
  <2>8. c = y + b \/ c = 1000000
    BY <2>7 DEF Capped, Million
  <2>9. x + b < 500000
    BY <1>0, <1>3, <2>1, <2>3, <2>6, <2>8
  <2>10. 850 * anomaly + 150 * deviation >= 500000
    BY <1>0 DEF UnknownConfidence, Loud
  <2> QED
    BY <1>0, <1>4, <2>1, <2>2, <2>3, <2>9, <2>10
<1>8. ASSUME NEW r \in Counting(results)
      PROVE  r.score < 634
  <2> DEFINE n == r.score
  <2>1. n \in 0..1000 /\ n <= S
    BY <1>2, ChosenIsStrongest DEF S, G
  <2>2. S \in 500..1000 /\ S < 634
    BY <1>4, <1>7
  <2> HIDE DEF n
  <2>3. n < 634
    BY <2>1, <2>2
  <2> QED
    BY <2>3 DEF n
<1>9. Counting(results) # {}
  BY <1>1 DEF ClassesOf
<1> QED
  BY <1>7, <1>8, <1>9 DEF WeaklySilenced

-------------------------------------------------------------------------------
(* The scores of the rules *)

(* A score is between 0 and 1, as _result makes it (rules.py). *)
LEMMA ClampRange == \A x : Clamp(x) \in 0..1000
  BY DEF Clamp

(* So is a quantity scaled to the range of its rule. *)
LEMMA ScaledRange == \A x, low, width : Scaled(x, low, width) \in 0..1000
  BY ClampRange DEF Scaled

(* Every rule scores between 0 and 1, whatever the window. *)
LEMMA ScoresInRange ==
  ASSUME NEW w
  PROVE  /\ SynFlood(w) \in 0..1000 /\ UdpFlood(w) \in 0..1000
         /\ Reflection(w) \in 0..1000 /\ Scan(w) \in 0..1000
         /\ SpoofedFlood(w) \in 0..1000 /\ Exfiltration(w) \in 0..1000
         /\ Beacon(w) \in 0..1000
<1>0. 0 \in 0..1000
  OBVIOUS
<1>1. SynFlood(w) \in 0..1000
  BY <1>0, ScaledRange DEF SynFlood
<1>2. UdpFlood(w) \in 0..1000
  <2> DEFINE a == Scaled(Share(NonDnsUdp(w), Size(w)), 700, 300)
             b == Scaled(PacketRate(w), 20, 180)
  <2>1. a \in 0..1000 /\ b \in 0..1000
    BY ScaledRange
  <2>2. UdpFlood(w) = (a * b) \div 1000 \/ UdpFlood(w) = 0
    BY DEF UdpFlood
  <2> HIDE DEF a, b
  <2> DEFINE c == a * b
             d == c \div 1000
  <2>3. c \in Int /\ 0 <= c /\ c <= 1000 * a
    BY <2>1, SMT
  <2> HIDE DEF c
  <2>4. d \in Int /\ 1000 * d <= c /\ c < 1000 * d + 1000
    BY <2>3, SMT
  <2> HIDE DEF d
  <2>5. d \in 0..1000
    BY <2>1, <2>3, <2>4, SMT
  <2> QED
    BY <1>0, <2>2, <2>5 DEF c, d
<1>3. Reflection(w) \in 0..1000
  <2> DEFINE x == (450 * Scaled(Cardinality(Sources(w)), 5, 15)
                   + 350 * Scaled(Share(FanIn(w), Size(w)), 500, 400)
                   + 200 * Scaled(MeanBytes(w), 600, 1400)) \div 1000
  <2>1. Reflection(w) = IF IsFanIn(w) THEN Clamp(x) ELSE 0
    BY DEF Reflection
  <2> HIDE DEF x
  <2> QED
    BY <1>0, <2>1, ClampRange
<1>4. Scan(w) \in 0..1000
  BY <1>0, ClampRange DEF Scan
<1>5. SpoofedFlood(w) \in 0..1000
  BY <1>0, ClampRange DEF SpoofedFlood
<1>6. Exfiltration(w) \in 0..1000
  BY <1>0, ScaledRange DEF Exfiltration
<1>7. Beacon(w) \in 0..1000
  <2> DEFINE a == Clamp(1000 - 10 * GapVariation(w))
  <2>1. a \in 0..1000
    BY ClampRange
  <2>2. Beacon(w) = Min({820, a}) \/ Beacon(w) = 0
    BY DEF Beacon
  <2> HIDE DEF a
  <2>3. \E x \in {820, a} : \A y \in {820, a} : x <= y
    BY <2>1
  <2>4. Min({820, a}) \in {820, a}
    BY <2>3 DEF Min
  <2>5. 820 \in 0..1000
    OBVIOUS
  <2> QED
    BY <1>0, <2>1, <2>2, <2>4, <2>5
<1> QED
  BY <1>1, <1>2, <1>3, <1>4, <1>5, <1>6, <1>7

(* detect reports seven results. *)
LEMMA SevenAreFinite ==
  ASSUME NEW a, NEW b, NEW c, NEW d, NEW e, NEW f, NEW g
  PROVE  IsFiniteSet({a, b, c, d, e, f, g})
<1>1. IsFiniteSet({a})
  BY FS_Singleton
<1>2. IsFiniteSet({a} \cup {b} \cup {c})
  BY <1>1, FS_AddElement
<1>3. IsFiniteSet({a} \cup {b} \cup {c} \cup {d} \cup {e})
  BY <1>2, FS_AddElement
<1>4. IsFiniteSet({a} \cup {b} \cup {c} \cup {d} \cup {e} \cup {f} \cup {g})
  BY <1>3, FS_AddElement
<1>5. {a, b, c, d, e, f, g}
        = {a} \cup {b} \cup {c} \cup {d} \cup {e} \cup {f} \cup {g}
  OBVIOUS
<1> QED
  BY <1>4, <1>5

(* The results of the rules are finitely many scores between 0 and 1 (detect). *)
LEMMA RulesScored ==
  ASSUME NEW w
  PROVE  Scored(Detect(w))
<1>1. IsFiniteSet(Detect(w))
  BY SevenAreFinite DEF Detect
<1>2. ASSUME NEW r \in Detect(w)
      PROVE  r.score \in 0..1000
  <2>1. r.score \in {SynFlood(w), UdpFlood(w), Reflection(w), Scan(w), SpoofedFlood(w),
                      Exfiltration(w), Beacon(w)}
    BY DEF Detect, Result
  <2> QED
    BY <2>1, ScoresInRange
<1> QED
  BY <1>1, <1>2 DEF Scored

(* So are those of them that count (fuse). *)
LEMMA CountingScored ==
  ASSUME NEW results, Scored(results)
  PROVE  Scored(Counting(results))
<1>1. Counting(results) \in SUBSET results
  BY DEF Counting
<1> QED
  BY <1>1, FS_Subset DEF Scored

(* Whatever the window, the baseline and the detectors find: an anomaly that would *)
(* raise an alert on its own is silenced by a class only if it is at most 0.8 and  *)
(* every class scores below 0.634.                                                 *)
THEOREM AnomalyNeedsNoClass == DetectionSpec => []AnomalyHeard
<1>1. DetectionInit => Scored(call.results) /\ AnomalyHeard
  BY FS_EmptySet DEF DetectionInit, NoCall, Scored, AnomalyHeard
<1>2. Scored(call.results) /\ AnomalyHeard /\ [DetectionNext]_detectionVars
        => Scored(call.results)' /\ AnomalyHeard'
  <2> SUFFICES ASSUME Scored(call.results), AnomalyHeard, [DetectionNext]_detectionVars
               PROVE  Scored(call'.results) /\ AnomalyHeard'
    BY DEF Scored
  <2>1. CASE UNCHANGED call
    BY <2>1 DEF AnomalyHeard
  <2>2. ASSUME NEW k \in Kinds, Detected(k)
        PROVE  Scored(call'.results) /\ AnomalyHeard'
    <3> DEFINE w == windows'[k.src]
    <3>1. call'.results = Counting(Detect(w)) /\ call'.anomaly = 0
      BY <2>2 DEF Detected, NoCall, WindowOf
    <3> HIDE DEF w
    <3>2. Scored(call'.results)
      BY <3>1, RulesScored, CountingScored
    <3> QED
      BY <3>1, <3>2 DEF AnomalyHeard
  <2>3. ASSUME NEW found \in Findings, NEW deviation \in Deviations,
               NEW anomaly \in Anomalies, Fused(found, deviation, anomaly)
        PROVE  Scored(call'.results) /\ AnomalyHeard'
    <3> DEFINE results == call.results \cup found
               alerts == Fuse(results, deviation, anomaly)
    <3>1. /\ call'.results = Counting(results)
          /\ call'.deviation = deviation /\ call'.anomaly = anomaly
          /\ call'.alert = {} => alerts = {}
      <4>1. \E alert \in {{a} : a \in alerts} \cup (IF alerts = {} THEN {{}} ELSE {}) :
              call' = [phase |-> "fused", window |-> call.window,
                       results |-> Counting(results), deviation |-> deviation,
                       anomaly |-> anomaly, alert |-> alert]
        BY <2>3 DEF Fused
      <4> HIDE DEF alerts, results
      <4> QED
        BY <4>1
    <3>2. Scored(results)
      <4>1. IsFiniteSet(found) /\ \A r \in found : r.score \in 0..1000
        BY DetectionAssumption
      <4>2. IsFiniteSet(call.results) /\ \A r \in call.results : r.score \in 0..1000
        BY DEF Scored
      <4>3. IsFiniteSet(results)
        BY <4>1, <4>2, FS_Union, ZenonT(30)
      <4>4. \A r \in results : r.score \in 0..1000
        BY <4>1, <4>2
      <4> HIDE DEF results
      <4> QED
        BY <4>3, <4>4 DEF Scored
    <3>3. deviation \in 0..1000 /\ anomaly \in 0..1000
      BY DetectionAssumption
    <3> HIDE DEF results
    <3>4. Scored(call'.results)
      BY <3>1, <3>2, CountingScored
    <3>5. Loud(deviation, anomaly) /\ alerts = {} => WeaklySilenced(results, anomaly)
      BY <3>2, AnomalySilencedOnlyByWeakClasses DEF alerts
    <3> QED
      BY <3>1, <3>3, <3>4, <3>5 DEF AnomalyHeard, Loud, WeaklySilenced
  <2>4. CASE Returned
    BY <2>4, FS_EmptySet DEF Returned, NoCall, Scored, AnomalyHeard
  <2> QED
    BY <2>1, <2>2, <2>3, <2>4 DEF DetectionNext, detectionVars, Expired
<1> QED
  BY <1>1, <1>2, PTL DEF DetectionSpec

-------------------------------------------------------------------------------
(* Sums over a bag *)

(* Sums of naturals are naturals, and two sums are no more than two others where that *)
(* holds of what is added.                                                            *)
LEMMA SumsOfParts ==
  ASSUME NEW S, IsFiniteSet(S),
         NEW u \in [S -> Nat], NEW v \in [S -> Nat],
         NEW w \in [S -> Nat], NEW z \in [S -> Nat],
         \A x \in S : u[x] + v[x] <= w[x] + z[x],
         NEW f, NEW g, NEW h, NEW e,
         \A s \in SUBSET S : Adds(f, u, s) /\ Adds(g, v, s) /\ Adds(h, w, s) /\ Adds(e, z, s)
  PROVE  /\ f[S] \in Nat /\ g[S] \in Nat /\ h[S] \in Nat /\ e[S] \in Nat
         /\ f[S] + g[S] <= h[S] + e[S]
<1> DEFINE Good(s) == /\ f[s] \in Nat /\ g[s] \in Nat /\ h[s] \in Nat /\ e[s] \in Nat
                      /\ f[s] + g[s] <= h[s] + e[s]
           Bad == {s \in SUBSET S : ~Good(s)}
<1>1. ASSUME NEW s \in Bad
      PROVE  \E y \in s : s \ {y} \in Bad
  <2>1. s # {}
    <3>1. /\ s \in SUBSET S /\ ~Good(s)
          /\ Adds(f, u, s) /\ Adds(g, v, s) /\ Adds(h, w, s) /\ Adds(e, z, s)
      BY <1>1
    <3>2. s = {} => f[s] = 0 /\ g[s] = 0 /\ h[s] = 0 /\ e[s] = 0
      BY <3>1 DEF Adds
    <3> QED
      BY <3>1, <3>2
  <2>2. Pick(s) \in S /\ s \ {Pick(s)} \in SUBSET S
    BY <1>1, <2>1 DEF Pick
  <2>3. PICK r, x : r = s \ {Pick(s)} /\ x = Pick(s)
    OBVIOUS
  <2>4. /\ f[s] = u[x] + f[r] /\ g[s] = v[x] + g[r]
        /\ h[s] = w[x] + h[r] /\ e[s] = z[x] + e[r]
    BY <1>1, <2>1, <2>3 DEF Adds
  <2>5. /\ u[x] \in Nat /\ v[x] \in Nat /\ w[x] \in Nat /\ z[x] \in Nat
        /\ u[x] + v[x] <= w[x] + z[x]
    BY <2>2, <2>3
  <2>6. Good(r) => Good(s)
    BY <2>4, <2>5
  <2>7. Pick(s) \in s
    BY <2>1 DEF Pick
  <2> QED
    BY <1>1, <2>2, <2>3, <2>6, <2>7
<1>2. Bad = {}
  <2>1. Bad \in SUBSET (SUBSET S)
    OBVIOUS
  <2> HIDE DEF Bad
  <2> QED
    BY <1>1, <2>1, NoDescent
<1> QED
  BY <1>2

(* A window's SYNs, and its UDP packets that are no DNS queries, are together no more *)
(* than its events, if those that are both count twice.                               *)
LEMMA SynsAndUdpInWindow ==
  ASSUME IsFiniteSet(Kinds), NEW w, w.of \in [Kinds -> Nat]
  PROVE  /\ Syn(w) \in Nat /\ NonDnsUdp(w) \in Nat /\ Size(w) \in Nat
         /\ SynAndUdp(w) \in Nat
         /\ Syn(w) + NonDnsUdp(w) <= Size(w) + SynAndUdp(w)
<1> DEFINE syn == [k \in Kinds |-> w.of[k] * (IF k.syn THEN 1 ELSE 0)]
           udp == [k \in Kinds |-> w.of[k] * (IF k.udp /\ ~k.dns THEN 1 ELSE 0)]
           all == [k \in Kinds |-> w.of[k] * 1]
           both == [k \in Kinds |-> w.of[k] * (IF k.syn /\ k.udp /\ ~k.dns THEN 1 ELSE 0)]
<1>1. /\ syn \in [Kinds -> Nat] /\ udp \in [Kinds -> Nat] /\ all \in [Kinds -> Nat]
      /\ both \in [Kinds -> Nat]
      /\ \A k \in Kinds : syn[k] + udp[k] <= all[k] + both[k]
  OBVIOUS
<1>2. PICK f : Syn(w) = f[Kinds] /\ \A s \in SUBSET Kinds : Adds(f, syn, s)
  <2> DEFINE Rec(r) == [s \in SUBSET Kinds |->
                          IF s = {} THEN 0
                          ELSE LET x == CHOOSE x \in s : TRUE
                               IN  w.of[x] * (IF x.syn THEN 1 ELSE 0) + r[s \ {x}]]
             fold == CHOOSE r : r = Rec(r)
  <2>1. Syn(w) = fold[Kinds]
    BY DEF Syn, Many, Total, MapThenSumSet, MapThenFoldSet
  <2>2. PICK sum \in [SUBSET Kinds -> Nat] : \A s \in SUBSET Kinds : Adds(sum, syn, s)
    BY <1>1, SumExists
  <2>3. \A s \in SUBSET Kinds : s # {} => Pick(s) \in Kinds
    BY DEF Pick
  <2>4. sum = Rec(sum)
    BY <2>2, <2>3 DEF Adds, Pick
  <2>5. fold = Rec(fold)
    BY <2>4
  <2> HIDE DEF fold
  <2>6. \A s \in SUBSET Kinds : Adds(fold, syn, s)
    BY <2>3, <2>5 DEF Adds, Pick
  <2> QED
    BY <2>1, <2>6
<1>3. PICK g : NonDnsUdp(w) = g[Kinds] /\ \A s \in SUBSET Kinds : Adds(g, udp, s)
  <2> DEFINE Rec(r) == [s \in SUBSET Kinds |->
                          IF s = {} THEN 0
                          ELSE LET x == CHOOSE x \in s : TRUE
                               IN  w.of[x] * (IF x.udp /\ ~x.dns THEN 1 ELSE 0) + r[s \ {x}]]
             fold == CHOOSE r : r = Rec(r)
  <2>1. NonDnsUdp(w) = fold[Kinds]
    BY DEF NonDnsUdp, Many, Total, MapThenSumSet, MapThenFoldSet
  <2>2. PICK sum \in [SUBSET Kinds -> Nat] : \A s \in SUBSET Kinds : Adds(sum, udp, s)
    BY <1>1, SumExists
  <2>3. \A s \in SUBSET Kinds : s # {} => Pick(s) \in Kinds
    BY DEF Pick
  <2>4. sum = Rec(sum)
    BY <2>2, <2>3 DEF Adds, Pick
  <2>5. fold = Rec(fold)
    BY <2>4
  <2> HIDE DEF fold
  <2>6. \A s \in SUBSET Kinds : Adds(fold, udp, s)
    BY <2>3, <2>5 DEF Adds, Pick
  <2> QED
    BY <2>1, <2>6
<1>4. PICK h : Size(w) = h[Kinds] /\ \A s \in SUBSET Kinds : Adds(h, all, s)
  <2> DEFINE Rec(r) == [s \in SUBSET Kinds |->
                          IF s = {} THEN 0
                          ELSE LET x == CHOOSE x \in s : TRUE
                               IN  w.of[x] * 1 + r[s \ {x}]]
             fold == CHOOSE r : r = Rec(r)
  <2>1. Size(w) = fold[Kinds]
    BY DEF Size, Total, MapThenSumSet, MapThenFoldSet
  <2>2. PICK sum \in [SUBSET Kinds -> Nat] : \A s \in SUBSET Kinds : Adds(sum, all, s)
    BY <1>1, SumExists
  <2>3. \A s \in SUBSET Kinds : s # {} => Pick(s) \in Kinds
    BY DEF Pick
  <2>4. sum = Rec(sum)
    BY <2>2, <2>3 DEF Adds, Pick
  <2>5. fold = Rec(fold)
    BY <2>4
  <2> HIDE DEF fold
  <2>6. \A s \in SUBSET Kinds : Adds(fold, all, s)
    BY <2>3, <2>5 DEF Adds, Pick
  <2> QED
    BY <2>1, <2>6
<1>5. PICK e : SynAndUdp(w) = e[Kinds] /\ \A s \in SUBSET Kinds : Adds(e, both, s)
  <2> DEFINE Rec(r) == [s \in SUBSET Kinds |->
                          IF s = {} THEN 0
                          ELSE LET x == CHOOSE x \in s : TRUE
                               IN  w.of[x] * (IF x.syn /\ x.udp /\ ~x.dns THEN 1 ELSE 0) + r[s \ {x}]]
             fold == CHOOSE r : r = Rec(r)
  <2>1. SynAndUdp(w) = fold[Kinds]
    BY DEF SynAndUdp, Many, Total, MapThenSumSet, MapThenFoldSet
  <2>2. PICK sum \in [SUBSET Kinds -> Nat] : \A s \in SUBSET Kinds : Adds(sum, both, s)
    BY <1>1, SumExists
  <2>3. \A s \in SUBSET Kinds : s # {} => Pick(s) \in Kinds
    BY DEF Pick
  <2>4. sum = Rec(sum)
    BY <2>2, <2>3 DEF Adds, Pick
  <2>5. fold = Rec(fold)
    BY <2>4
  <2> HIDE DEF fold
  <2>6. \A s \in SUBSET Kinds : Adds(fold, both, s)
    BY <2>3, <2>5 DEF Adds, Pick
  <2> QED
    BY <2>1, <2>6
<1> HIDE DEF syn, udp, all, both
<1>6. /\ f[Kinds] \in Nat /\ g[Kinds] \in Nat /\ h[Kinds] \in Nat /\ e[Kinds] \in Nat
      /\ f[Kinds] + g[Kinds] <= h[Kinds] + e[Kinds]
  BY <1>1, <1>2, <1>3, <1>4, <1>5, SumsOfParts, Zenon
<1> QED
  BY <1>2, <1>3, <1>4, <1>5, <1>6

-------------------------------------------------------------------------------
(* Corroboration *)

(* A share that is at least x thousandths. *)
LEMMA ShareBound ==
  ASSUME NEW part \in Nat, NEW whole \in Nat \ {0}, NEW x \in Nat, Share(part, whole) >= x
  PROVE  1000 * part >= x * whole
<1>1. PICK q : q = (1000 * part) \div whole
  OBVIOUS
<1>2. q \in Int /\ 1000 * part >= q * whole
  BY <1>1
<1>3. q * whole >= x * whole
  BY <1>1, <1>2 DEF Share
<1> QED
  BY <1>2, <1>3

(* A scaled quantity that counts is at least half of its width above the low end. *)
LEMMA HalfScaled ==
  ASSUME NEW x \in Int, NEW low \in Nat, NEW width \in Nat \ {0}, Scaled(x, low, width) >= 500
  PROVE  1000 * (x - low) >= 500 * width
<1>1. PICK p, q : p = 1000 * (x - low) /\ q = p \div width
  OBVIOUS
<1>2. p \in Int /\ q \in Int /\ p >= q * width
  BY <1>1
<1>3. q >= 500
  BY <1>1, <1>2 DEF Scaled, Clamp
<1>4. q * width >= 500 * width
  BY <1>2, <1>3
<1>5. 500 * width \in Int /\ q * width \in Int
  BY <1>2
<1> QED
  BY <1>1, <1>2, <1>4, <1>5

(* A rule for a flood counts from 0.5 on, which takes more than two thirds of SYNs ... *)
LEMMA SynFloodNeedsSyns ==
  ASSUME NEW w, Syn(w) \in Nat, Size(w) \in Nat, SynFlood(w) >= 500
  PROVE  Size(w) >= 8 /\ 1000 * Syn(w) >= 675 * Size(w)
<1>1. Size(w) >= 8 /\ Scaled(Share(Syn(w), Size(w)), 450, 450) >= 500
  BY DEF SynFlood
<1>2. PICK x : x = Share(Syn(w), Size(w))
  OBVIOUS
<1>3. x \in Int
  BY <1>1, <1>2 DEF Share
<1>4. x >= 675
  <2>1. 1000 * (x - 450) >= 500 * 450
    BY <1>1, <1>2, <1>3, HalfScaled
  <2> QED
    BY <1>3, <2>1
<1> QED
  BY <1>1, <1>2, <1>4, ShareBound

(* ... or more than five sixths of UDP packets that are no DNS queries. *)
LEMMA UdpFloodNeedsUdp ==
  ASSUME NEW w, NonDnsUdp(w) \in Nat, Size(w) \in Nat, UdpFlood(w) >= 500
  PROVE  Size(w) >= 8 /\ 1000 * NonDnsUdp(w) >= 850 * Size(w)
<1>1. /\ Size(w) >= 8
      /\ (Scaled(Share(NonDnsUdp(w), Size(w)), 700, 300)
          * Scaled(PacketRate(w), 20, 180)) \div 1000 >= 500
  BY DEF UdpFlood
<1>2. PICK x, y, z : /\ x = Share(NonDnsUdp(w), Size(w))
                     /\ y = Scaled(x, 700, 300) /\ z = Scaled(PacketRate(w), 20, 180)
  OBVIOUS
<1>3. x \in Int /\ y \in 0..1000 /\ z \in 0..1000
  <2>1. x \in Int
    BY <1>1, <1>2 DEF Share
  <2>2. y \in 0..1000 /\ z \in 0..1000
    <3>1. Scaled(x, 700, 300) \in 0..1000 /\ Scaled(PacketRate(w), 20, 180) \in 0..1000
      BY ScaledRange
    <3> QED
      BY <1>2, <3>1, Zenon
  <2> QED
    BY <2>1, <2>2
<1>4. y >= 500
  <2>1. PICK p : p = y * z
    OBVIOUS
  <2>2. p \div 1000 >= 500
    BY <1>1, <1>2, <2>1
  <2>3. p \in Int /\ p <= y * 1000
    BY <1>3, <2>1
  <2> QED
    BY <1>3, <2>2, <2>3
<1>5. x >= 850
  <2>1. 1000 * (x - 700) >= 500 * 300
    BY <1>2, <1>3, <1>4, HalfScaled
  <2> QED
    BY <1>3, <2>1
<1> QED
  BY <1>1, <1>2, <1>5, ShareBound

\* Most of the window are SYNs and at once UDP that is no DNS query.
Contradicts(w) == 1000 * SynAndUdp(w) >= 525 * Size(w)

(* Two rules over one window that count report one class only where most events are   *)
(* both SYN and UDP.                                                                   *)
LEMMA FloodsNeedBoth ==
  ASSUME IsFiniteSet(Kinds), NEW w, w.of \in [Kinds -> Nat],
         NEW r \in Counting(Detect(w)), NEW s \in Counting(Detect(w)),
         r # s, r.threat = s.threat
  PROVE  Contradicts(w)
<1>1. r \in Detect(w) /\ r.score >= 500 /\ s \in Detect(w) /\ s.score >= 500
  BY DEF Counting
<1> DEFINE A == Result("syn_flood", "volumetric_ddos", SynFlood(w))
           B == Result("udp_flood", "volumetric_ddos", UdpFlood(w))
<1>2. ASSUME A.score >= 500, B.score >= 500
      PROVE  Contradicts(w)
  <2>1. SynFlood(w) >= 500 /\ UdpFlood(w) >= 500
    BY <1>2 DEF Result
  <2>2. /\ Syn(w) \in Nat /\ NonDnsUdp(w) \in Nat /\ Size(w) \in Nat
        /\ SynAndUdp(w) \in Nat
        /\ Syn(w) + NonDnsUdp(w) <= Size(w) + SynAndUdp(w)
    BY SynsAndUdpInWindow
  <2>3. 1000 * Syn(w) >= 675 * Size(w) /\ 1000 * NonDnsUdp(w) >= 850 * Size(w)
    BY <2>1, <2>2, SynFloodNeedsSyns, UdpFloodNeedsUdp
  <2> QED
    BY <2>2, <2>3 DEF Contradicts
<1> HIDE DEF A, B
<1>3. {r, s} = {A, B}
  BY <1>1 DEF Detect, Result, A, B
<1>4. A.score >= 500 /\ B.score >= 500
  BY <1>1, <1>3
<1> QED
  BY <1>2, <1>4

\* Of two results of one class one is the random forest's, or the window contradicts
\* itself; while the call has only the results of the rules over the window, none is of
\* a class of the metadata rules.
MetadataClasses == {MetadataClass[d] : d \in DOMAIN MetadataClass}
CorroborationInv ==
  /\ OwnEvents
  /\ RulesCorroborateOnBoth
  /\ call.phase = "detected" => \A r \in call.results : r.threat \notin MetadataClasses

(* fuse: whatever a window holds, two results of one class earn the bonus without the   *)
(* random forest only where at least 525 of 1000 events are SYNs and at once UDP.       *)
THEOREM CorroborationNeedsBoth == DetectionSpec => []RulesCorroborateOnBoth
<1>1. DetectionInit => CorroborationInv
  BY DEF DetectionInit, CorroborationInv, OwnEvents, RulesCorroborateOnBoth, NoWindow, NoCall
<1>2. CorroborationInv /\ [DetectionNext]_detectionVars => CorroborationInv'
  <2> SUFFICES ASSUME CorroborationInv, [DetectionNext]_detectionVars
               PROVE  CorroborationInv'
    OBVIOUS
  <2>1. OwnEvents'
    BY OwnEventsInductive DEF CorroborationInv
  <2>2. CASE UNCHANGED call
    BY <2>1, <2>2 DEF CorroborationInv, RulesCorroborateOnBoth
  <2>3. ASSUME NEW k \in Kinds, Detected(k)
        PROVE  CorroborationInv'
    <3>1. k.src \in Hosts
      BY DetectionAssumption DEF KindShape
    <3>2. PICK w : w = windows'[k.src]
      OBVIOUS
    <3>3. call'.results = Counting(Detect(w)) /\ call'.window = w
      BY <2>3, <3>2 DEF Detected, NoCall, WindowOf
    <3>4. w.of \in [Kinds -> Nat] /\ IsFiniteSet(Kinds)
      BY <2>1, <3>1, <3>2, DetectionAssumption DEF OwnEvents
    <3>5. RulesCorroborateOnBoth'
      <4>1. ASSUME NEW r \in call'.results, NEW s \in call'.results,
                   r # s, r.threat = s.threat
            PROVE  Contradicts(w)
        BY <3>3, <3>4, <4>1, FloodsNeedBoth
      <4>2. ASSUME NEW r \in call'.results, NEW s \in call'.results,
                   r # s, r.threat = s.threat
            PROVE  1000 * SynAndUdp(call'.window) >= 525 * Size(call'.window)
        BY <3>3, <4>1, <4>2 DEF Contradicts
      <4> QED
        BY <4>2 DEF RulesCorroborateOnBoth
    <3>6. \A r \in call'.results : r.threat \notin MetadataClasses
      <4>1. \A r \in Detect(w) : r.threat \in
              {"volumetric_ddos", "udp_reflection_amplification", "recon_port_scan",
               "spoofed_source_flood", "data_exfiltration", "botnet_c2_beaconing"}
        BY DEF Detect, Result
      <4>2. MetadataClasses = {"dga_domain", "dns_tunneling", "encrypted_malware"}
        BY DEF MetadataClasses, MetadataClass
      <4> QED
        BY <3>3, <4>1, <4>2 DEF Counting
    <3> QED
      BY <2>1, <3>5, <3>6 DEF CorroborationInv
  <2>4. ASSUME NEW found \in Findings, NEW deviation, NEW anomaly,
               Fused(found, deviation, anomaly)
        PROVE  CorroborationInv'
    <3>1. /\ call'.results = Counting(call.results \cup found)
          /\ call'.phase = "fused" /\ call.phase = "detected"
          /\ call'.window = call.window
      <4>1. PICK results, d, a, alert :
              /\ call' = [phase |-> "fused", window |-> call.window, results |-> results,
                          deviation |-> d, anomaly |-> a, alert |-> alert]
              /\ results = Counting(call.results \cup found)
              /\ call.phase = "detected"
        BY <2>4 DEF Fused
      <4> QED
        BY <4>1
    <3>2. \A r \in found : r.detector # "random_forest" =>
            /\ r.threat \in MetadataClasses
            /\ \A s \in found :
                 s.detector # "random_forest" /\ r.threat = s.threat => r = s
      <4>1. \A r \in found : r.detector # "random_forest" =>
              r.detector \in DOMAIN MetadataClass /\ r.threat = MetadataClass[r.detector]
        BY DetectionAssumption
      <4>2. \A d, e \in DOMAIN MetadataClass : MetadataClass[d] = MetadataClass[e] => d = e
        BY DEF MetadataClass
      <4>3. \A r, s \in found : r.detector = s.detector => r = s
        BY DetectionAssumption
      <4> QED
        BY <4>1, <4>2, <4>3 DEF MetadataClasses
    <3>3. \A r \in call.results : r.threat \notin MetadataClasses
      BY <3>1 DEF CorroborationInv
    <3>4. ASSUME NEW r \in call'.results, NEW s \in call'.results,
                 r # s, r.threat = s.threat,
                 "random_forest" \notin {r.detector, s.detector}
          PROVE  r \in call.results /\ s \in call.results
      <4>1. r \in call.results \cup found /\ s \in call.results \cup found
        BY <3>1 DEF Counting
      <4> QED
        BY <3>2, <3>3, <3>4, <4>1
    <3>5. RulesCorroborateOnBoth'
      <4>1. PICK w : w = call.window /\ w = call'.window
        BY <3>1
      <4>2. \A r, s \in call.results :
              r # s /\ r.threat = s.threat /\ "random_forest" \notin {r.detector, s.detector}
                => 1000 * SynAndUdp(w) >= 525 * Size(w)
        BY <4>1 DEF CorroborationInv, RulesCorroborateOnBoth
      <4>3. \A r, s \in call'.results :
              r # s /\ r.threat = s.threat /\ "random_forest" \notin {r.detector, s.detector}
                => 1000 * SynAndUdp(w) >= 525 * Size(w)
        BY <3>4, <4>2
      <4> QED
        BY <4>1, <4>3 DEF RulesCorroborateOnBoth
    <3> QED
      BY <2>1, <3>1, <3>5 DEF CorroborationInv
  <2>5. CASE Returned
    BY <2>1, <2>5 DEF Returned, NoCall, CorroborationInv, RulesCorroborateOnBoth
  <2> QED
    BY <2>1, <2>2, <2>3, <2>4, <2>5 DEF DetectionNext, detectionVars, Expired
<1>3. CorroborationInv => RulesCorroborateOnBoth
  BY DEF CorroborationInv
<1> QED
  BY <1>1, <1>2, <1>3, PTL DEF DetectionSpec

-------------------------------------------------------------------------------
(* The trained models *)

Records == [names : Schemas, model : Schemas \cup {Partial}]

\* What the types leave open: where a training is in its fit, the names of its
\* detector and its rows are there; only a running process trains or scores; and a
\* running process has every detector whose file it left half written.
ModelsShape ==
  /\ ModelsTypeOK
  /\ \A t \in Trainings :
       /\ pc[t] \in {"named", "fitting"} => names[Trains[t]] \in Schemas
       /\ pc[t] = "fitting" => held[t] \in Schemas \cup {Partial}
       /\ pc[t] = "writing" => held[t] \in Schemas
       /\ pc[t] \in {"new", "named", "fitting"} => at[t] = 1
       /\ status # "up" => ~Running(t)
  /\ status # "up" => scoring = <<>>
  /\ scoring \in {<<>>} \cup {<<s>> : s \in [det : Names, names : Schemas]}
  /\ \A d \in Names : status = "up" /\ file[d] = Partial => fitted[d]

\* A training that works on names or model of d.
Fits(t, d) == pc[t] \in {"named", "fitting"} /\ Trains[t] = d

\* Detector d was trained once: its names and model belong together everywhere.
Together(d) ==
  /\ fitted[d] => model[d] = names[d]
  /\ \A t \in Trainings : Fits(t, d) =>
       /\ ~fitted[d] /\ names[d] = SchemaOf[t]
       /\ pc[t] = "fitting" => held[t] = SchemaOf[t] /\ t \notin clash
       /\ \A u \in Trainings : Fits(u, d) => u = t
  /\ file[d] \in Records => file[d].model = file[d].names
  /\ \A t \in Trainings : pc[t] = "writing" /\ Saved(t) = d => held[t] = names[d]
  /\ \A i \in DOMAIN scoring : scoring[i].det = d =>
       fitted[d] /\ scoring[i].names = names[d]

TogetherInv == \A d \in Names \ refitted : d \notin spoiled /\ Together(d)

\* The file of d holds what the process has in memory.
Kept(d) == fitted[d] => file[d] = [names |-> names[d], model |-> model[d]]

\* While the last training is calm it is the only one that runs, nothing of it has
\* met another's work, and its save_models has kept the detectors before at[t].
CalmInv ==
  calm =>
    /\ status # "failed"
    /\ clash = {}
    /\ \A t, u \in Trainings : Running(t) /\ Running(u) => t = u
    /\ \A t \in Trainings : pc[t] \in {"saving", "writing"} =>
         \A i \in 1..(at[t] - 1) : Kept(Detectors[i])
    /\ \A t \in Trainings : pc[t] = "writing" => held[t] = names[Saved(t)]
    /\ (\A t \in Trainings : ~Running(t)) =>
         \A d \in Names : IF status = "up" THEN Kept(d) ELSE file[d] # Partial

-------------------------------------------------------------------------------
(* The steps *)

(* Every step keeps the types and what they leave open. *)
LEMMA StepKeepsShape ==
  ASSUME ModelsShape, ModelNext
  PROVE  ModelsShape'
<1>1. ASSUME NEW t \in Trainings, FitNames(t)
      PROVE  ModelsShape'
  <2>1. /\ Trains[t] \in Names /\ SchemaOf[t] \in Schemas
        /\ names' \in [Names -> Schemas \cup {None}]
        /\ \A d \in Names : names'[d] = names[d] \/ names'[d] = SchemaOf[t]
        /\ names'[Trains[t]] = SchemaOf[t]
    BY <1>1, ModelAssumption DEF FitNames, ModelsShape, ModelsTypeOK
  <2>2. ModelsTypeOK'
    BY <1>1, <2>1, ModelAssumption DEF FitNames, ModelsShape, ModelsTypeOK, saves,
                                       Saved, Fitters, Records
  <2>3. \A u \in Trainings :
          /\ pc'[u] \in {"named", "fitting"} => names'[Trains[u]] \in Schemas
          /\ pc'[u] = "fitting" => held'[u] \in Schemas \cup {Partial}
          /\ pc'[u] = "writing" => held'[u] \in Schemas
          /\ pc'[u] \in {"new", "named", "fitting"} => at'[u] = 1
          /\ status' # "up" => ~Running(u)'
    BY <1>1, <2>1, ModelAssumption DEF FitNames, ModelsShape, ModelsTypeOK, saves,
                                       Running, Saved
  <2>4. /\ scoring' \in {<<>>} \cup {<<e>> : e \in [det : Names, names : Schemas]}
        /\ status' # "up" => scoring' = <<>>
        /\ \A d \in Names : status' = "up" /\ file'[d] = Partial => fitted'[d]
    BY <1>1, <2>1, ModelAssumption DEF FitNames, ModelsShape, ModelsTypeOK, saves
  <2> QED
    BY <2>2, <2>3, <2>4 DEF ModelsShape
<1>2. ASSUME NEW t \in Trainings, FitModel(t)
      PROVE  ModelsShape'
  <2>1. /\ Trains[t] \in Names
        /\ \E x \in Schemas \cup {Partial} : held' = [held EXCEPT ![t] = x]
    <3>1. Trains[t] \in Names /\ names[Trains[t]] \in Schemas
      BY <1>2, ModelAssumption DEF FitModel, ModelsShape, ModelsTypeOK
    <3>2. Matrices(t) \subseteq Schemas \cup {Partial}
      BY <3>1 DEF Matrices
    <3> QED
      BY <1>2, <3>1, <3>2 DEF FitModel
  <2>2. ModelsTypeOK'
    BY <1>2, <2>1, ModelAssumption DEF FitModel, memory, ModelsShape, ModelsTypeOK,
                                       saves, Saved, Fitters, Records
  <2>3. \A u \in Trainings :
          /\ pc'[u] \in {"named", "fitting"} => names'[Trains[u]] \in Schemas
          /\ pc'[u] = "fitting" => held'[u] \in Schemas \cup {Partial}
          /\ pc'[u] = "writing" => held'[u] \in Schemas
          /\ pc'[u] \in {"new", "named", "fitting"} => at'[u] = 1
          /\ status' # "up" => ~Running(u)'
    BY <1>2, <2>1, ModelAssumption DEF FitModel, memory, ModelsShape, ModelsTypeOK,
                                       saves, Running, Saved
  <2>4. /\ scoring' \in {<<>>} \cup {<<e>> : e \in [det : Names, names : Schemas]}
        /\ status' # "up" => scoring' = <<>>
        /\ \A d \in Names : status' = "up" /\ file'[d] = Partial => fitted'[d]
    BY <1>2, <2>1, ModelAssumption DEF FitModel, memory, ModelsShape, ModelsTypeOK,
                                       saves
  <2> QED
    BY <2>2, <2>3, <2>4 DEF ModelsShape
<1>3. ASSUME NEW t \in Trainings, FitReturns(t)
      PROVE  ModelsShape'
  <2>1. /\ Trains[t] \in Names
        /\ \E m \in Schemas \cup {Partial} : model' = [model EXCEPT ![Trains[t]] = m]
    BY <1>3, ModelAssumption, ZenonT(30) DEF FitReturns, ModelsShape, ModelsTypeOK
  <2>2. ModelsTypeOK'
    BY <1>3, <2>1, ModelAssumption DEF FitReturns, ModelsShape, ModelsTypeOK, saves,
                                       Saved, Fitters, Records
  <2>3. \A u \in Trainings :
          /\ pc'[u] \in {"named", "fitting"} => names'[Trains[u]] \in Schemas
          /\ pc'[u] = "fitting" => held'[u] \in Schemas \cup {Partial}
          /\ pc'[u] = "writing" => held'[u] \in Schemas
          /\ pc'[u] \in {"new", "named", "fitting"} => at'[u] = 1
          /\ status' # "up" => ~Running(u)'
    BY <1>3, <2>1, ModelAssumption DEF FitReturns, ModelsShape, ModelsTypeOK, saves,
                                       Running, Saved
  <2>4. /\ scoring' \in {<<>>} \cup {<<e>> : e \in [det : Names, names : Schemas]}
        /\ status' # "up" => scoring' = <<>>
        /\ \A d \in Names : status' = "up" /\ file'[d] = Partial => fitted'[d]
    BY <1>3, <2>1, ModelAssumption DEF FitReturns, ModelsShape, ModelsTypeOK, saves
  <2> QED
    BY <2>2, <2>3, <2>4 DEF ModelsShape
<1>4. ASSUME NEW t \in Trainings, FitRaises(t)
      PROVE  ModelsShape'
  BY <1>4, ModelAssumption DEF FitRaises, ModelsShape, ModelsTypeOK, memory, saves,
                               Running, Saved, Matrices, Fitters, Records
<1>5. ASSUME NEW t \in Trainings, SaveSkips(t)
      PROVE  ModelsShape'
  BY <1>5, ModelAssumption DEF SaveSkips, ModelsShape, ModelsTypeOK, memory, saves,
                               Running, Saved, Matrices, Fitters, Records
<1>6. ASSUME NEW t \in Trainings, SaveOpens(t)
      PROVE  ModelsShape'
  BY <1>6, ModelAssumption DEF SaveOpens, ModelsShape, ModelsTypeOK, memory, saves,
                               Running, Saved, Matrices, Fitters, Records
<1>7. ASSUME NEW t \in Trainings, SaveWrites(t)
      PROVE  ModelsShape'
  BY <1>7, ModelAssumption DEF SaveWrites, ModelsShape, ModelsTypeOK, memory, saves,
                               Running, Saved, Matrices, Fitters, Records
<1>8. ASSUME NEW t \in Trainings, SaveRaises(t)
      PROVE  ModelsShape'
  BY <1>8, ModelAssumption DEF SaveRaises, ModelsShape, ModelsTypeOK, memory, saves,
                               Running, Saved, Matrices, Fitters, Records
<1>9. ASSUME NEW t \in Trainings, SaveReturns(t)
      PROVE  ModelsShape'
  BY <1>9, ModelAssumption DEF SaveReturns, ModelsShape, ModelsTypeOK, memory, saves,
                               Running, Saved, Matrices, Fitters, Records
<1>10. ASSUME NEW d \in Names, ScoreReads(d)
      PROVE  ModelsShape'
  BY <1>10, ModelAssumption DEF ScoreReads, ModelsShape, ModelsTypeOK, memory, saves,
                                Running, Saved, Records
<1>11. CASE ScoreUses
  BY <1>11, ModelAssumption DEF ScoreUses, ModelsShape, ModelsTypeOK, memory, saves,
                                Running, Saved, Records
<1>12. CASE Crash
  BY <1>12, ModelAssumption DEF Crash, ModelsShape, ModelsTypeOK, memory, saves,
                                Running, Saved, Records
<1>13. CASE Load
  <2>1. \A d \in Names : file[d] # None => file[d] \in Records
    BY <1>13 DEF Load, ModelsShape, ModelsTypeOK, Records
  <2>2. \A d \in Names : file[d] # None =>
          file[d].names \in Schemas /\ file[d].model \in Schemas \cup {Partial}
    BY <2>1 DEF Records
  <2>3. ModelsTypeOK'
    <3>1. /\ names' \in [Names -> Schemas \cup {None}]
          /\ model' \in [Names -> Schemas \cup {None, Partial}]
          /\ fitted' \in [Names -> BOOLEAN]
          /\ \A d \in Names : fitted'[d] => names'[d] # None /\ model'[d] # None
      BY <1>13, <2>2, ModelAssumption DEF Load
    <3>2. \A t \in Trainings : pc[t] # "writing"
      BY <1>13 DEF Load, ModelsShape, Running
    <3> QED
      BY <1>13, <3>1, <3>2 DEF Load, ModelsShape, ModelsTypeOK, saves, Records
  <2>4. \A u \in Trainings :
          /\ pc'[u] \in {"named", "fitting"} => names'[Trains[u]] \in Schemas
          /\ pc'[u] = "fitting" => held'[u] \in Schemas \cup {Partial}
          /\ pc'[u] = "writing" => held'[u] \in Schemas
          /\ pc'[u] \in {"new", "named", "fitting"} => at'[u] = 1
          /\ status' # "up" => ~Running(u)'
    BY <1>13, <2>2, ModelAssumption DEF Load, ModelsShape, ModelsTypeOK, saves,
                                        Running, Saved
  <2>5. /\ scoring' \in {<<>>} \cup {<<e>> : e \in [det : Names, names : Schemas]}
        /\ status' # "up" => scoring' = <<>>
        /\ \A d \in Names : status' = "up" /\ file'[d] = Partial => fitted'[d]
    BY <1>13, <2>2, ModelAssumption DEF Load, ModelsShape, ModelsTypeOK, saves
  <2> QED
    BY <2>3, <2>4, <2>5 DEF ModelsShape
<1>14. CASE LoadRaises
  BY <1>14, ModelAssumption DEF LoadRaises, ModelsShape, ModelsTypeOK, memory, saves,
                                Running, Saved, Records
<1> QED
  BY <1>1, <1>2, <1>3, <1>4, <1>5, <1>6, <1>7, <1>8, <1>9, <1>10, <1>11, <1>12, <1>13, <1>14
     DEF ModelNext

(* For a detector that is not trained again, every step moves names and model of *)
(* its one training, never of another.                                           *)
LEMMA StepKeepsTogether ==
  ASSUME ModelsShape, TogetherInv, ModelNext
  PROVE  TogetherInv'
<1> SUFFICES ASSUME NEW d \in Names, d \notin refitted'
             PROVE  (d \notin spoiled /\ Together(d))'
  BY DEF TogetherInv
<1>0. d \in Names /\ d \notin refitted /\ d \notin spoiled /\ Together(d)
  BY DEF ModelNext, TogetherInv, FitNames, FitModel, FitReturns, FitRaises,
         SaveSkips, SaveOpens, SaveWrites, SaveRaises, SaveReturns, ScoreReads,
         ScoreUses, Crash, Load, LoadRaises
<1>1. ASSUME NEW t \in Trainings, FitNames(t)
      PROVE  (d \notin spoiled /\ Together(d))'
  BY <1>1, <1>0, ModelAssumption DEF FitNames, memory, saves, ModelsShape,
                                     ModelsTypeOK, Together, Fits, Running, Saved,
                                     Fitters, Records
<1>2. ASSUME NEW t \in Trainings, FitModel(t)
      PROVE  (d \notin spoiled /\ Together(d))'
  <2>1. /\ Trains[t] \in Names
        /\ held \in [Trainings -> Schemas \cup {None, Partial}]
        /\ model \in [Names -> Schemas \cup {None, Partial}]
        /\ pc \in [Trainings -> {"new", "named", "fitting", "saving", "writing", "ended"}]
        /\ clash \subseteq {u \in Trainings : pc[u] \in {"fitting", "writing"}}
        /\ \A u \in Trainings : pc[u] = "writing" => fitted[Saved(u)]
    BY ModelAssumption DEF ModelsShape, ModelsTypeOK
  <2>2. CASE Trains[t] = d
    <3>1. Fits(t, d)
      BY <1>2, <2>2 DEF FitModel, Fits
    <3>2. ~fitted[d] /\ names[d] = SchemaOf[t]
      BY <1>0, <3>1 DEF Together
    <3>3. \A x \in Matrices(t) : x = SchemaOf[t]
      BY <2>2, <3>2 DEF Matrices
    <3>4. Fitters(t) = {}
      BY <1>0, <2>2, <3>1 DEF Together, Fitters, Fits
    <3>5. clash' = clash /\ held' = [held EXCEPT ![t] = SchemaOf[t]]
      BY <1>2, <3>3, <3>4 DEF FitModel
    <3> QED
      BY <1>0, <1>2, <2>1, <2>2, <3>1, <3>2, <3>5 DEF FitModel, Together, Fits,
                                                      Saved, Records
  <2>3. CASE Trains[t] # d
    <3>1. \A u \in Trainings : Fits(u, d) => u \notin Fitters(t) \cup {t}
      BY <2>3 DEF Fitters, Fits
    <3>2. \A u \in Trainings : u # t => held'[u] = held[u] /\ pc'[u] = pc[u]
      BY <1>2, <2>1 DEF FitModel
    <3>3. model'[d] = model[d] /\ clash' \subseteq clash \cup Fitters(t) \cup {t}
      BY <1>2, <2>1, <2>3 DEF FitModel
    <3>4. /\ names' = names /\ fitted' = fitted /\ file' = file /\ at' = at
          /\ scoring' = scoring /\ spoiled' = spoiled /\ pc'[t] = "fitting"
      BY <1>2, <2>1 DEF FitModel
    <3> QED
      BY <1>0, <2>3, <3>1, <3>2, <3>3, <3>4 DEF Together, Fits, Saved, Records
  <2> QED
    BY <2>2, <2>3
<1>3. ASSUME NEW t \in Trainings, FitReturns(t)
      PROVE  (d \notin spoiled /\ Together(d))'
  BY <1>3, <1>0, ModelAssumption DEF FitReturns, memory, saves, ModelsShape,
                                     ModelsTypeOK, Together, Fits, Running, Saved,
                                     Fitters, Records
<1>4. ASSUME NEW t \in Trainings, FitRaises(t)
      PROVE  (d \notin spoiled /\ Together(d))'
  BY <1>4, <1>0, ModelAssumption DEF FitRaises, memory, saves, ModelsShape,
                                     ModelsTypeOK, Together, Fits, Running, Saved,
                                     Fitters, Records
<1>5. ASSUME NEW t \in Trainings, SaveSkips(t)
      PROVE  (d \notin spoiled /\ Together(d))'
  BY <1>5, <1>0, ModelAssumption DEF SaveSkips, memory, saves, ModelsShape,
                                     ModelsTypeOK, Together, Fits, Running, Saved,
                                     Fitters, Records
<1>6. ASSUME NEW t \in Trainings, SaveOpens(t)
      PROVE  (d \notin spoiled /\ Together(d))'
  BY <1>6, <1>0, ModelAssumption DEF SaveOpens, memory, saves, ModelsShape,
                                     ModelsTypeOK, Together, Fits, Running, Saved,
                                     Fitters, Records
<1>7. ASSUME NEW t \in Trainings, SaveWrites(t)
      PROVE  (d \notin spoiled /\ Together(d))'
  BY <1>7, <1>0, ModelAssumption DEF SaveWrites, memory, saves, ModelsShape,
                                     ModelsTypeOK, Together, Fits, Running, Saved,
                                     Fitters, Records
<1>8. ASSUME NEW t \in Trainings, SaveRaises(t)
      PROVE  (d \notin spoiled /\ Together(d))'
  BY <1>8, <1>0, ModelAssumption DEF SaveRaises, memory, saves, ModelsShape,
                                     ModelsTypeOK, Together, Fits, Running, Saved,
                                     Fitters, Records
<1>9. ASSUME NEW t \in Trainings, SaveReturns(t)
      PROVE  (d \notin spoiled /\ Together(d))'
  BY <1>9, <1>0, ModelAssumption DEF SaveReturns, memory, saves, ModelsShape,
                                     ModelsTypeOK, Together, Fits, Running, Saved,
                                     Fitters, Records
<1>10. ASSUME NEW e \in Names, ScoreReads(e)
      PROVE  (d \notin spoiled /\ Together(d))'
  BY <1>10, <1>0, ModelAssumption DEF ScoreReads, memory, saves, ModelsShape,
                                      ModelsTypeOK, Together, Fits, Running, Saved,
                                      Fitters, Records
<1>11. CASE ScoreUses
  BY <1>11, <1>0, ModelAssumption DEF ScoreUses, memory, saves, ModelsShape,
                                      ModelsTypeOK, Together, Fits, Running, Saved,
                                      Fitters, Records
<1>12. CASE Crash
  BY <1>12, <1>0, ModelAssumption DEF Crash, memory, saves, ModelsShape,
                                      ModelsTypeOK, Together, Fits, Running, Saved,
                                      Fitters, Records
<1>13. CASE Load
  BY <1>13, <1>0, ModelAssumption DEF Load, memory, saves, ModelsShape, ModelsTypeOK,
                                      Together, Fits, Running, Saved, Fitters,
                                      Records
<1>14. CASE LoadRaises
  BY <1>14, <1>0, ModelAssumption DEF LoadRaises, memory, saves, ModelsShape,
                                      ModelsTypeOK, Together, Fits, Running, Saved,
                                      Fitters, Records
<1> QED
  BY <1>1, <1>2, <1>3, <1>4, <1>5, <1>6, <1>7, <1>8, <1>9, <1>10, <1>11, <1>12, <1>13, <1>14
     DEF ModelNext

(* While the last training runs alone only its own steps touch memory and files, *)
(* and a crash or a load after it finds every file whole.                        *)
LEMMA StepKeepsCalm ==
  ASSUME ModelsShape, CalmInv, ModelNext
  PROVE  CalmInv'
<1>1. ASSUME NEW t \in Trainings, FitNames(t)
      PROVE  CalmInv'
  BY <1>1, ModelAssumption, ZenonT(60) DEF FitNames, memory, saves, ModelsShape, ModelsTypeOK,
                               CalmInv, Kept, Running, OthersRunning, Saved, Fitters,
                               Records
<1>2. ASSUME NEW t \in Trainings, FitModel(t)
      PROVE  CalmInv'
  BY <1>2, ModelAssumption DEF FitModel, memory, saves, ModelsShape, ModelsTypeOK,
                               CalmInv, Kept, Running, OthersRunning, Saved, Fitters,
                               Records
<1>3. ASSUME NEW t \in Trainings, FitReturns(t)
      PROVE  CalmInv'
  BY <1>3, ModelAssumption DEF FitReturns, memory, saves, ModelsShape, ModelsTypeOK,
                               CalmInv, Kept, Running, OthersRunning, Saved, Fitters,
                               Records
<1>4. ASSUME NEW t \in Trainings, FitRaises(t)
      PROVE  CalmInv'
  BY <1>4, ModelAssumption DEF FitRaises, memory, saves, ModelsShape, ModelsTypeOK,
                               CalmInv, Kept, Running, OthersRunning, Saved, Fitters,
                               Records
<1>5. ASSUME NEW t \in Trainings, SaveSkips(t)
      PROVE  CalmInv'
  BY <1>5, ModelAssumption DEF SaveSkips, memory, saves, ModelsShape, ModelsTypeOK,
                               CalmInv, Kept, Running, OthersRunning, Saved, Fitters,
                               Records
<1>6. ASSUME NEW t \in Trainings, SaveOpens(t)
      PROVE  CalmInv'
  BY <1>6, ModelAssumption DEF SaveOpens, memory, saves, ModelsShape, ModelsTypeOK,
                               CalmInv, Kept, Running, OthersRunning, Saved, Fitters,
                               Records
<1>7. ASSUME NEW t \in Trainings, SaveWrites(t)
      PROVE  CalmInv'
  BY <1>7, ModelAssumption DEF SaveWrites, memory, saves, ModelsShape, ModelsTypeOK,
                               CalmInv, Kept, Running, OthersRunning, Saved, Fitters,
                               Records
<1>8. ASSUME NEW t \in Trainings, SaveRaises(t)
      PROVE  CalmInv'
  BY <1>8, ModelAssumption DEF SaveRaises, memory, saves, ModelsShape, ModelsTypeOK,
                               CalmInv, Kept, Running, OthersRunning, Saved, Fitters,
                               Records
<1>9. ASSUME NEW t \in Trainings, SaveReturns(t)
      PROVE  CalmInv'
  <2>0. SUFFICES ASSUME calm'
                 PROVE  CalmInv'
    BY DEF CalmInv
  <2>1. /\ status = "up" /\ status' = "up" /\ calm /\ clash = {}
        /\ \A u \in Trainings : u # t => ~Running(u)
        /\ \A i \in 1..(at[t] - 1) : Kept(Detectors[i])
    BY <1>9, <2>0 DEF SaveReturns, CalmInv, Running
  <2>2. /\ at[t] = Len(Detectors) + 1
        /\ \A d \in Names : \E i \in 1..(at[t] - 1) : d = Detectors[i]
    <3>1. Len(Detectors) \in Nat /\ DOMAIN Detectors = 1..Len(Detectors)
      BY ModelAssumption
    <3>2. at[t] \in 1..(Len(Detectors) + 1) /\ at[t] \notin 1..Len(Detectors)
      BY <1>9, <3>1 DEF SaveReturns, ModelsShape, ModelsTypeOK
    <3>3. at[t] = Len(Detectors) + 1
      BY <3>1, <3>2
    <3> QED
      BY <3>1, <3>3 DEF Names
  <2>3. \A d \in Names : Kept(d)'
    BY <1>9, <2>1, <2>2 DEF SaveReturns, Kept, memory
  <2>4. \A u \in Trainings : ~Running(u)'
    BY <1>9, <2>1 DEF SaveReturns, Running, ModelsShape, ModelsTypeOK
  <2>5. \A u \in Trainings : pc'[u] \notin {"saving", "writing"}
    BY <2>4 DEF Running
  <2> QED
    BY <1>9, <2>1, <2>3, <2>4, <2>5 DEF CalmInv, SaveReturns, saves
<1>10. ASSUME NEW e \in Names, ScoreReads(e)
      PROVE  CalmInv'
  BY <1>10, ModelAssumption DEF ScoreReads, memory, saves, ModelsShape, ModelsTypeOK,
                                CalmInv, Kept, Running, OthersRunning, Saved,
                                Fitters, Records
<1>11. CASE ScoreUses
  BY <1>11, ModelAssumption DEF ScoreUses, memory, saves, ModelsShape, ModelsTypeOK,
                                CalmInv, Kept, Running, OthersRunning, Saved,
                                Fitters, Records
<1>12. CASE Crash
  <2>0. SUFFICES ASSUME calm'
                 PROVE  CalmInv'
    BY DEF CalmInv
  <2>1. /\ calm /\ status = "up" /\ status' = "down" /\ clash' = {} /\ file' = file
        /\ \A t \in Trainings : ~Running(t)
    BY <1>12, <2>0 DEF Crash
  <2>2. \A t \in Trainings : pc'[t] = pc[t]
    BY <1>12, <2>1 DEF Crash
  <2>3. \A t \in Trainings : ~Running(t)'
    BY <2>1, <2>2 DEF Running
  <2>4. ASSUME NEW d \in Names
        PROVE  file[d] # Partial
    <3>1. Kept(d)
      BY <2>1 DEF CalmInv
    <3>2. CASE fitted[d]
      <4>1. [names |-> names[d], model |-> model[d]] \in Records
        BY <3>2, ModelAssumption DEF ModelsShape, ModelsTypeOK, Records
      <4> QED
        BY <3>1, <3>2, <4>1, ModelAssumption DEF Kept, Records
    <3>3. CASE ~fitted[d]
      BY <2>1, <3>3 DEF ModelsShape
    <3> QED
      BY <3>2, <3>3
  <2>5. \A t \in Trainings : pc'[t] \notin {"saving", "writing"}
    BY <2>3 DEF Running
  <2> QED
    BY <2>1, <2>3, <2>4, <2>5 DEF CalmInv
<1>13. CASE Load
  <2>0. SUFFICES ASSUME calm'
                 PROVE  CalmInv'
    BY DEF CalmInv
  <2>1. /\ calm /\ status' = "up" /\ clash' = clash /\ clash = {} /\ pc' = pc /\ file' = file
    BY <1>13, <2>0 DEF Load, CalmInv, saves
  <2>2. \A t \in Trainings : ~Running(t) /\ ~Running(t)'
    BY <1>13, <2>1 DEF Load, ModelsShape, Running
  <2>3. ASSUME NEW d \in Names
        PROVE  Kept(d)'
    <3>1. SUFFICES ASSUME file[d] # None
                   PROVE  file[d] = [names |-> names'[d], model |-> model'[d]]
      BY <1>13 DEF Load, Kept
    <3>2. file[d] \in Records
      BY <1>13, <3>1 DEF Load, ModelsShape, ModelsTypeOK, Records
    <3>3. names'[d] = file[d].names /\ model'[d] = file[d].model
      BY <1>13, <3>1 DEF Load
    <3> QED
      BY <3>2, <3>3 DEF Records
  <2>4. \A t \in Trainings : pc'[t] \notin {"saving", "writing"}
    BY <2>2 DEF Running
  <2> QED
    BY <2>1, <2>2, <2>3, <2>4 DEF CalmInv
<1>14. CASE LoadRaises
  BY <1>14, ModelAssumption DEF LoadRaises, memory, saves, ModelsShape, ModelsTypeOK,
                                CalmInv, Kept, Running, OthersRunning, Saved,
                                Fitters, Records
<1> QED
  BY <1>1, <1>2, <1>3, <1>4, <1>5, <1>6, <1>7, <1>8, <1>9, <1>10, <1>11, <1>12, <1>13, <1>14
     DEF ModelNext

-------------------------------------------------------------------------------
(* The invariants *)

ModelsInv == ModelsShape /\ TogetherInv /\ CalmInv

(* Every step of every training, of the scoring and of the process keeps it. *)
LEMMA ModelsInvCorrect == ModelSpec => []ModelsInv
<1>1. ModelInit => ModelsInv
  <2> SUFFICES ASSUME ModelInit
               PROVE  ModelsInv
    OBVIOUS
  <2>1. ModelsShape
    <3>1. Len(Detectors) \in Nat /\ Len(<<>>) = 0
      BY ModelAssumption
    <3>2. /\ 1 \in 1..(Len(Detectors) + 1)
          /\ Len(scoring) <= 1
      BY <3>1 DEF ModelInit
    <3>3. ModelsTypeOK
      BY <3>2, ModelAssumption DEF ModelInit, ModelsTypeOK
    <3>4. \A d \in Names : file[d] # Partial
      BY ModelAssumption DEF ModelInit
    <3> QED
      BY <3>3, <3>4 DEF ModelInit, ModelsShape, Running
  <2>2. TogetherInv
    BY ModelAssumption DEF ModelInit, TogetherInv, Together, Fits, Records
  <2>3. CalmInv
    BY DEF ModelInit, CalmInv
  <2> QED
    BY <2>1, <2>2, <2>3 DEF ModelsInv
<1>2. ModelsInv /\ [ModelNext]_modelVars => ModelsInv'
  <2> SUFFICES ASSUME ModelsInv, [ModelNext]_modelVars
               PROVE  ModelsInv'
    OBVIOUS
  <2>1. CASE ModelNext
    BY <2>1, StepKeepsShape, StepKeepsTogether, StepKeepsCalm DEF ModelsInv
  <2>2. CASE UNCHANGED modelVars
    <3>1. ModelsShape'
      BY <2>2 DEF modelVars, memory, saves, ModelsInv, ModelsShape, ModelsTypeOK,
                  Running, Saved
    <3>2. TogetherInv'
      BY <2>2 DEF modelVars, memory, saves, ModelsInv, TogetherInv, Together, Fits,
                  Saved
    <3>3. CalmInv'
      BY <2>2 DEF modelVars, memory, saves, ModelsInv, CalmInv, Kept, Running, Saved
    <3> QED
      BY <3>1, <3>2, <3>3 DEF ModelsInv
  <2> QED
    BY <2>1, <2>2
<1> QED
  BY <1>1, <1>2, PTL DEF ModelSpec

(* A flagged detector, one that is being written and a file that is there have   *)
(* names and a model, whatever trainings, saves, crashes and loads do.           *)
THEOREM ModelsTypeCorrect == ModelSpec => []ModelsTypeOK
<1>1. ModelsInv => ModelsTypeOK
  BY DEF ModelsInv, ModelsShape
<1> QED
  BY <1>1, ModelsInvCorrect, PTL

(* No event is scored with names and a model of two trainings, unless its        *)
(* detector was trained again or twice at once.                                  *)
THEOREM FirstTrainingUnseen == ModelSpec => []SpoiledNeedsRefit
<1>1. ModelsInv => SpoiledNeedsRefit
  BY DEF ModelsInv, ModelsShape, ModelsTypeOK, TogetherInv, SpoiledNeedsRefit
<1> QED
  BY <1>1, ModelsInvCorrect, PTL

(* A training that ran alone and was answered leaves files that load, and that   *)
(* are what the process has in memory.                                           *)
THEOREM CalmTrainingSaved == ModelSpec => []SavedWhenCalm
<1>1. ModelsInv => SavedWhenCalm
  BY DEF ModelsInv, CalmInv, Kept, SavedWhenCalm
<1> QED
  BY <1>1, ModelsInvCorrect, PTL
===============================================================================
