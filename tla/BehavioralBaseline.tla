-------------------------- MODULE BehavioralBaseline ---------------------------
(***************************************************************************)
(* The baseline of one host, backend/features/behavioral.py, as            *)
(* Pipeline.process uses it: an event enters the host's window, the window *)
(* is scored against the statistics learned so far, and the event is       *)
(* learned unless the window deviates strongly.                            *)
(*                                                                         *)
(* Of the features that HostBaseline.deviation compares (packets, bytes,   *)
(* dst_port) one varies; those that never vary have no deviation and drop  *)
(* out of the mean of the z-scores.  The arithmetic is that of the code on *)
(* exact fractions; rounding is left out.                                  *)
(***************************************************************************)
EXTENDS BoundedSeq, FiniteSetsExt

CONSTANTS Values,          \* values of the feature that varies, a field of finite width
          FeatureCap,      \* process scores w[-256:]
          MaxObservations  \* bound: events a baseline learns

ASSUME BaselineAssumption ==
  /\ Values \subseteq Nat /\ IsFiniteSet(Values)
  /\ FeatureCap \in Nat \ {0} /\ MaxObservations \in Nat

VARIABLES window,   \* the host's last FeatureCap events, as many as are not outdated
          stat,     \* its RunningStat: count, mean, m2
          learned,  \* history: how often each value was learned
          outcome   \* history: what became of the last event

baselineVars == <<window, stat, learned, outcome>>

-------------------------------------------------------------------------------
(* Fractions <<n, d>>, in lowest terms, with d > 0 *)

gcd[p \in Nat \X Nat] == IF p[2] = 0 THEN p[1] ELSE gcd[<<p[2], p[1] % p[2]>>]

AbsInt(n) == IF n < 0 THEN -n ELSE n
Frac(n, d) == LET g == gcd[<<AbsInt(n), d>>] IN <<n \div g, d \div g>>
Whole(n) == <<n, 1>>
Plus(p, q) == Frac(p[1] * q[2] + q[1] * p[2], p[2] * q[2])
Minus(p, q) == Plus(p, <<-q[1], q[2]>>)
Times(p, q) == Frac(p[1] * q[1], p[2] * q[2])
Over(p, n) == Frac(p[1], p[2] * n)
LessEq(p, q) == p[1] * q[2] <= q[1] * p[2]

-------------------------------------------------------------------------------
(* RunningStat *)

NoStat == [count |-> 0, mean |-> Whole(0), m2 |-> Whole(0)]

\* Variant for the mutation runs: both differences are taken from the old mean.
UpdatedByOldMean(s, x) ==
  LET delta == Minus(Whole(x), s.mean) IN
  [count |-> s.count + 1, mean |-> Plus(s.mean, Over(delta, s.count + 1)),
   m2 |-> Plus(s.m2, Times(delta, delta))]

\* update: the mean moves first, and m2 grows by a difference from either mean.
Updated(s, x) ==
  LET delta == Minus(Whole(x), s.mean)
      mean == Plus(s.mean, Over(delta, s.count + 1))
  IN  [count |-> s.count + 1, mean |-> mean,
       m2 |-> Plus(s.m2, Times(delta, Minus(Whole(x), mean)))]

\* Variant for the mutation runs: the deviation of a population, not of a sample.
VariancePopulation(s) == Over(s.m2, s.count)

\* The square of std, for a count above 1.
Variance(s) == Over(s.m2, s.count - 1)

-------------------------------------------------------------------------------
(* deviation, learn *)

WindowMean(w) == Frac(MapThenSumSet(LAMBDA i : w[i], DOMAIN w), Len(w))

\* The feature has varied: below two observations, and when it has not, the
\* deviation is zero.
HasVaried(s) == s.count > 1 /\ s.m2 # Whole(0)

\* Variant for the mutation runs: the event alone is scored and not its window.
FarMeanOfNewest(w, s) ==
  LET off == Minus(Whole(w[Len(w)]), s.mean)
  IN  LessEq(Times(Whole(16), Variance(s)), Times(off, off))

\* The window's mean is four standard deviations off: z / (1 + z) >= 0.8.
FarMean(w, s) ==
  LET off == Minus(WindowMean(w), s.mean)
  IN  LessEq(Times(Whole(16), Variance(s)), Times(off, off))

StronglyDeviates(w, s) == w # <<>> /\ HasVaried(s) /\ FarMean(w, s)

BaselineInit ==
  /\ window = <<>>
  /\ stat = NoStat
  /\ learned = [v \in Values |-> 0]
  /\ outcome = "none"

\* learn: nothing when the score is 0.8 or more.
IsLearned(w) == ~StronglyDeviates(w, stat)

\* update with the event alone.
Learn(v) ==
  /\ stat' = Updated(stat, v)
  /\ learned' = [learned EXCEPT ![v] = @ + 1]

\* The event enters the window, whose newest events are scored: FeatureCap of them, or
\* fewer when the others are outdated, which its time and that of the events of other
\* hosts decide.
Enters(v) ==
  /\ stat.count < MaxObservations
  /\ window' \in {Recent(Append(window, v), n) : n \in 1..FeatureCap}

Process(v) ==
  /\ Enters(v)
  /\ \/ IsLearned(window') /\ Learn(v) /\ outcome' = "learned"
     \/ ~IsLearned(window') /\ outcome' = "refused" /\ UNCHANGED <<stat, learned>>

\* process raises after the event entered the window: it is never learned.
ProcessRaises(v) ==
  /\ Enters(v)
  /\ outcome' = "raised"
  /\ UNCHANGED <<stat, learned>>

\* reset_session: new windows and new baselines.
NewSession ==
  /\ window' = <<>>
  /\ stat' = NoStat
  /\ learned' = [v \in Values |-> 0]
  /\ outcome' = "none"

BaselineNext ==
  \/ \E v \in Values : Process(v) \/ ProcessRaises(v)
  \/ NewSession

BaselineSpec == BaselineInit /\ [][BaselineNext]_baselineVars

-------------------------------------------------------------------------------
(* Properties *)

Count == MapThenSumSet(LAMBDA v : learned[v], Values)
Sum == MapThenSumSet(LAMBDA v : learned[v] * v, Values)
SumOfSquares == MapThenSumSet(LAMBDA v : learned[v] * v * v, Values)

\* The statistics, kept by one update per event and never recomputed, are those of
\* the events learned, in whatever order they came: the count, the mean, and the
\* sum of squares less the squared sum over the count (RunningStat.update).
StatsOfLearned ==
  /\ window \in Seq(Values) /\ Len(window) <= FeatureCap
  /\ stat.count = Count
  /\ Count > 0 =>
       /\ stat.mean = Frac(Sum, Count)
       /\ stat.m2 = Minus(Whole(SumOfSquares), Frac(Sum * Sum, Count))

\* A window whose mean is between the least and the greatest value learned.
WithinLearned(w) ==
  \E lo, hi \in {v \in Values : learned[v] > 0} :
    LessEq(Whole(lo), WindowMean(w)) /\ LessEq(WindowMean(w), Whole(hi))

\* What a host did before and does again is not held against it while its baseline
\* is young: a window within the range of the values learned deviates strongly only
\* from 18 observations on (deviation).  From then on it may: a value learned once
\* among 17 equal ones is four deviations off.
LearnedRangeAccepted ==
  window # <<>> /\ WithinLearned(window) /\ stat.count < 18 =>
    ~StronglyDeviates(window, stat)

\* The window is the events learned so far, each as often as it was learned.
WindowIsLearned ==
  \A v \in Values : Cardinality({i \in DOMAIN window : window[i] = v}) = learned[v]

\* The guard weakens as the window grows: while the window holds just the events
\* learned, one more is refused only if it is itself at least 4 (n + 1) deviations
\* off their mean, n their number, because the window it is scored in contains them
\* as well; and such an event is always refused (score, learn).
GuardWeakensWithWindow ==
  [][\A v \in Values :
       /\ window' = Append(window, v) /\ outcome' # "raised"
       /\ HasVaried(stat) /\ WindowIsLearned
       => LET off == Minus(Whole(v), Frac(Sum, Count))
              n == stat.count
              spread == Minus(Whole(SumOfSquares), Frac(Sum * Sum, Count))
              beyond == LessEq(Times(Whole(16 * (n + 1) * (n + 1)), spread),
                               Times(Whole(n - 1), Times(off, off)))
          IN  outcome' = "refused" <=> beyond
    ]_baselineVars

===============================================================================
