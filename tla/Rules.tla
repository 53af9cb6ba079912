--------------------------------- MODULE Rules ---------------------------------
(***************************************************************************)
(* The rules of backend/detection/rules.py that look at the shape of the   *)
(* traffic, over a window of events.                                       *)
(*                                                                         *)
(* But for the time that passed before its first event, the rules do not   *)
(* depend on the order of a window, so it is a bag: how many events it has *)
(* of each kind.  Scores and ratios are in thousandths, rounded down.  The *)
(* rules that read DNS, TLS and QUIC metadata are not here: what they find *)
(* is an input of Detection.                                               *)
(***************************************************************************)
EXTENDS Integers, FiniteSetsExt

\* A kind of event: its source; whether it is a SYN without an ACK, UDP, a DNS
\* query; the destination and the port of all such events, or "each" where every event
\* has one of its own; packets and bytes; what of the bytes goes out or comes in; and
\* the seconds since the event before it.
KindShape(sources) ==
  [src : sources, syn : BOOLEAN, udp : BOOLEAN, dns : BOOLEAN, dst : STRING,
   port : STRING, packets : Nat, bytes : Nat, direction : {"out", "in", "unknown"},
   gap : Nat]

Clamp(x) == IF x \in 0..1000 THEN x ELSE IF x < 0 THEN 0 ELSE 1000

\* Python's // and the \div of TLA+ both round towards minus infinity.
Share(part, whole) == (1000 * part) \div whole
Scaled(x, low, width) == Clamp((1000 * (x - low)) \div width)

-------------------------------------------------------------------------------
(* What the rules take from a window: [of |-> the bag, lead |-> the first gap] *)

Total(w, f(_)) == MapThenSumSet(LAMBDA k : w.of[k] * f(k), DOMAIN w.of)
Many(w, Is(_)) == Total(w, LAMBDA k : IF Is(k) THEN 1 ELSE 0)
Size(w) == Total(w, LAMBDA k : 1)
Present(w) == {k \in DOMAIN w.of : w.of[k] > 0}

Syn(w) == Many(w, LAMBDA k : k.syn)
Udp(w) == Many(w, LAMBDA k : k.udp)

\* Variant for the mutation runs: the events that are not DNS queries.
NotDns(w) == Many(w, LAMBDA k : ~k.dns)

NonDnsUdp(w) == Many(w, LAMBDA k : k.udp /\ ~k.dns)

Sources(w) == {k.src : k \in Present(w)}

\* How many different destinations or ports the events have.
Distinct(w, of(_)) ==
  Many(w, LAMBDA k : of(k) = "each") + Cardinality({of(k) : k \in Present(w)} \ {"each"})
Destinations(w) == Distinct(w, LAMBDA k : k.dst)
Ports(w) == Distinct(w, LAMBDA k : k.port)

\* The events of the destination that gets the most.
FanIn(w) ==
  Max({IF d = "each" THEN 1 ELSE Many(w, LAMBDA k : k.dst = d) :
         d \in {k.dst : k \in Present(w)}})

\* temporal.py: at least one second, and the seconds between the events.
GapSum(w) == Total(w, LAMBDA k : k.gap) - w.lead
Elapsed(w) == IF GapSum(w) > 1 THEN GapSum(w) ELSE 1

GapCount(w, g) ==
  Many(w, LAMBDA k : k.gap = g) - (IF w.lead = g THEN 1 ELSE 0)
Gaps(w) == {g \in {k.gap : k \in Present(w)} : GapCount(w, g) > 0}
GapsUpTo(w, g) == MapThenSumSet(LAMBDA x : GapCount(w, x), {x \in Gaps(w) : x <= g})

\* The i-th least gap, and twice the median.
NthGap(w, i) == Min({g \in Gaps(w) : GapsUpTo(w, g) >= i})
TwiceMedian(w) ==
  LET n == Size(w) - 1 IN NthGap(w, (n + 1) \div 2) + NthGap(w, n \div 2 + 1)

\* _cv: the standard deviation of the gaps over their mean, in hundredths.
Root(x) == CHOOSE r \in 0..1000 : r * r <= x /\ (r = 1000 \/ x < (r + 1) * (r + 1))
GapVariation(w) ==
  LET n == Size(w) - 1
      squares == MapThenSumSet(LAMBDA g : GapCount(w, g) * g * g, Gaps(w))
  IN  IF n < 2 \/ GapSum(w) = 0 THEN 0
      ELSE Root((10000 * (n * squares - GapSum(w) * GapSum(w)))
                \div (GapSum(w) * GapSum(w)))

\* log2, rounded down.
Log2(x) == CHOOSE e \in 0..30 : 2^e <= x /\ x < 2^(e + 1)

\* _entropy of the sources: of equally busy ones the logarithm of their number,
\* which is the most it can be; rounded down to half a bit, in thousandths of one.
SourceEntropy(w) ==
  LET n == Cardinality(Sources(w)) IN IF n = 0 THEN 0 ELSE 500 * Log2(n * n)

-------------------------------------------------------------------------------
(* detect: a score per rule *)

SynFlood(w) == IF Size(w) >= 8 THEN Scaled(Share(Syn(w), Size(w)), 450, 450) ELSE 0

PacketRate(w) == Total(w, LAMBDA k : k.packets) \div Elapsed(w)

UdpFlood(w) ==
  IF Size(w) >= 8
  THEN (Scaled(Share(NonDnsUdp(w), Size(w)), 700, 300)
        * Scaled(PacketRate(w), 20, 180)) \div 1000
  ELSE 0

Scan(w) ==
  IF Size(w) >= 10
  THEN Clamp((650 * Scaled(Ports(w), 8, 16)
              + 350 * Scaled(Destinations(w), 4, 20)) \div 1000)
  ELSE 0

SpoofedFlood(w) ==
  IF Size(w) >= 20 /\ Cardinality(Sources(w)) >= 5
  THEN Clamp(SourceEntropy(w) \div 5) ELSE 0

\* Many sources send to one destination.
IsFanIn(w) ==
  /\ Size(w) >= 20 /\ Udp(w) > 0 /\ Cardinality(Sources(w)) >= 6
  /\ Share(FanIn(w), Size(w)) >= 500

MeanBytes(w) == Total(w, LAMBDA k : k.bytes) \div Size(w)

Reflection(w) ==
  IF IsFanIn(w)
  THEN Clamp((450 * Scaled(Cardinality(Sources(w)), 5, 15)
              + 350 * Scaled(Share(FanIn(w), Size(w)), 500, 400)
              + 200 * Scaled(MeanBytes(w), 600, 1400))
             \div 1000)
  ELSE 0

Outbound(w) == Total(w, LAMBDA k : IF k.direction = "out" THEN k.bytes ELSE 0)
Inbound(w) == Total(w, LAMBDA k : IF k.direction = "in" THEN k.bytes ELSE 0)

Exfiltration(w) ==
  IF Outbound(w) > 0 /\ Inbound(w) > 0 /\ Outbound(w) >= Inbound(w)
  THEN Scaled(Log2(Outbound(w) \div Inbound(w)), 2, 8) ELSE 0

\* Regular gaps of 2 to 300 seconds, capped at 0.82.
Beacon(w) ==
  IF Size(w) >= 12 /\ TwiceMedian(w) >= 4 /\ TwiceMedian(w) <= 600
  THEN Min({820, Clamp(1000 - 10 * GapVariation(w))}) ELSE 0

Result(detector, threat, score) ==
  [detector |-> detector, threat |-> threat, score |-> score]

\* Every rule reports, also with a score of 0.
Detect(w) ==
  {Result("syn_flood", "volumetric_ddos", SynFlood(w)),
   Result("udp_flood", "volumetric_ddos", UdpFlood(w)),
   Result("udp_reflection", "udp_reflection_amplification", Reflection(w)),
   Result("recon_port_scan", "recon_port_scan", Scan(w)),
   Result("spoof_entropy", "spoofed_source_flood", SpoofedFlood(w)),
   Result("exfil_asymmetry", "data_exfiltration", Exfiltration(w)),
   Result("c2_beacon", "botnet_c2_beaconing", Beacon(w))}

===============================================================================
