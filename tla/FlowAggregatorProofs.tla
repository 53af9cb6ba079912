------------------------- MODULE FlowAggregatorProofs --------------------------
(***************************************************************************)
(* Proofs about FlowAggregator for every set of 5-tuples and timestamps,   *)
(* every timeout and capacity and a capture of any length.  An add is two  *)
(* moves: the packet is placed in its flow, after that flow was emitted if *)
(* it was idle, and then at most one flow is moved from the dict to what   *)
(* is emitted.  Each packet stays in exactly one place through both.  The  *)
(* last section is about the stamps of a flow and about which packets it   *)
(* has: those of one burst.                                                *)
(***************************************************************************)
EXTENDS FlowAggregator, BoundedSeqProofs

-------------------------------------------------------------------------------
(* The dict *)

(* A key that is open has its place. *)
LEMMA AtIsThePlace ==
  ASSUME NEW k, IsOpen(k)
  PROVE  At(k) \in DOMAIN open /\ open[At(k)].key = k
BY DEF IsOpen, At

(* The flow that is emitted for room exists. *)
LEMMA OldestExists ==
  ASSUME NEW flows \in Seq(Flows), Len(flows) > 0
  PROVE  /\ Oldest(flows) \in 1..Len(flows)
         /\ \A j \in 1..Len(flows) : flows[Oldest(flows)].last <= flows[j].last
<1> DEFINE Lasts == {flows[i].last : i \in 1..Len(flows)}
<1>0. Len(flows) \in Nat /\ DOMAIN flows = 1..Len(flows)
  BY LenProperties
<1>1. \A i \in 1..Len(flows) : flows[i].last \in Nat
  <2>1. \A i \in 1..Len(flows) : flows[i] \in Flows
    BY ElementOfSeq
  <2> QED
    BY <2>1, AggregatorAssumption DEF Flows
<1>2. PICK l \in Lasts : \A m \in Lasts : l <= m
  <2>1. Lasts \in SUBSET Nat /\ Lasts # {}
    BY <1>0, <1>1
  <2> HIDE DEF Lasts
  <2> QED
    BY <2>1, LeastNat
<1> DEFINE Firsts == {i \in 1..Len(flows) : flows[i].last = l}
<1>3. PICK i \in Firsts : \A j \in Firsts : i <= j
  <2>1. Firsts \in SUBSET Nat /\ Firsts # {}
    BY <1>0, <1>2
  <2> HIDE DEF Firsts
  <2> QED
    BY <2>1, LeastNat
<1> DEFINE Wins(x) == \A j \in DOMAIN flows :
             \/ flows[x].last < flows[j].last
             \/ flows[x].last = flows[j].last /\ x <= j
<1>4. i \in DOMAIN flows /\ Wins(i)
  <2>1. i \in DOMAIN flows /\ flows[i].last = l /\ l \in Nat
    BY <1>0, <1>1, <1>3
  <2>2. ASSUME NEW j \in DOMAIN flows
        PROVE  \/ flows[i].last < flows[j].last
               \/ flows[i].last = flows[j].last /\ i <= j
    <3>1. l <= flows[j].last /\ flows[j].last \in Nat
      BY <1>0, <1>1, <1>2
    <3>2. flows[j].last = l => i <= j
      BY <1>0, <1>3
    <3> QED
      BY <2>1, <3>1, <3>2
  <2> QED
    BY <2>1, <2>2
<1>5. Oldest(flows) \in DOMAIN flows /\ Wins(Oldest(flows))
  <2>1. Oldest(flows) = CHOOSE x \in DOMAIN flows : Wins(x)
    BY DEF Oldest
  <2> HIDE DEF Wins
  <2> QED
    BY <1>4, <2>1
<1>6. flows[Oldest(flows)].last \in Nat
  BY <1>0, <1>1, <1>5
<1> QED
  BY <1>0, <1>1, <1>5, <1>6

(* Removing a flow keeps the others, in their order. *)
LEMMA WithoutProperties ==
  ASSUME NEW flows \in Seq(Flows), NEW i \in 1..Len(flows)
  PROVE  /\ Without(flows, i) \in Seq(Flows)
         /\ Len(Without(flows, i)) = Len(flows) - 1
         /\ DOMAIN Without(flows, i) = 1..Len(flows) - 1
         /\ \A j \in 1..Len(flows) - 1 :
              Without(flows, i)[j] = IF j < i THEN flows[j] ELSE flows[j + 1]
<1>0. Len(flows) \in Nat /\ Len(flows) - 1 \in Nat
  BY LenProperties
<1>1. \A j \in 1..Len(flows) - 1 : j \in 1..Len(flows) /\ j + 1 \in 1..Len(flows)
  BY <1>0
<1>2. \A j \in 1..Len(flows) - 1 :
        (IF j < i THEN flows[j] ELSE flows[j + 1]) \in Flows
  BY <1>1, ElementOfSeq
<1>3. Without(flows, i) \in [1..Len(flows) - 1 -> Flows]
  BY <1>2 DEF Without
<1>4. Without(flows, i) \in Seq(Flows)
  BY <1>0, <1>3
<1> QED
  BY <1>0, <1>3, <1>4, LenProperties DEF Without

-------------------------------------------------------------------------------
(* A packet that is added *)

(* The flow that takes a packet is one of the packet's key. *)
LEMMA UpdatedProperties ==
  ASSUME AggregatorTypeOK, Len(added) < MaxPackets, NEW p \in Packets
  PROVE  /\ Updated(p) \in Flows
         /\ Updated(p).key = p.key
         /\ Updated(p).packets = State(p).packets \cup {Len(added) + 1}
<1>1. Len(added) + 1 \in 1..MaxPackets
  BY LenProperties, AggregatorAssumption DEF AggregatorTypeOK
<1>2. State(p) \in Flows /\ State(p).key = p.key
  <2>1. CASE IsOpen(p.key) /\ ~IsIdle(p)
    <3>1. At(p.key) \in 1..Len(open) /\ open[At(p.key)].key = p.key
      BY <2>1, AtIsThePlace, LenProperties DEF AggregatorTypeOK
    <3>2. open[At(p.key)] \in Flows
      BY <3>1, ElementOfSeq DEF AggregatorTypeOK
    <3> QED
      BY <2>1, <3>1, <3>2 DEF State
  <2>2. CASE ~(IsOpen(p.key) /\ ~IsIdle(p))
    BY <2>2 DEF State, Flows, Packets
  <2> QED
    BY <2>1, <2>2
<1>3. p.time \in Times
  BY DEF Packets
<1> QED
  BY <1>1, <1>2, <1>3 DEF Updated, Flows

(* The packet's flow is the only one of its key, at an old place or at the end. *)
LEMMA PlacedProperties ==
  ASSUME AggregatorTypeOK, Len(added) < MaxPackets, NEW p \in Packets
  PROVE  /\ Placed(p) \in Seq(Flows)
         /\ Len(Placed(p)) > 0 /\ Len(Placed(p)) <= MaxFlows + 1
         /\ \A i, j \in 1..Len(Placed(p)) : Placed(p)[i].key = Placed(p)[j].key => i = j
         /\ \A i \in 1..Len(Placed(p)) : Placed(p)[i].packets # {}
<1>0. open \in Seq(Flows) /\ Len(open) \in Nat /\ DOMAIN open = 1..Len(open)
  BY LenProperties DEF AggregatorTypeOK
<1>1. Updated(p) \in Flows /\ Updated(p).key = p.key /\ Updated(p).packets # {}
  BY UpdatedProperties
<1>2. CASE IsOpen(p.key)
  <2>1. At(p.key) \in 1..Len(open) /\ open[At(p.key)].key = p.key
    BY <1>0, <1>2, AtIsThePlace
  <2>2. Placed(p) = [open EXCEPT ![At(p.key)] = Updated(p)]
    BY <1>2 DEF Placed
  <2>3. /\ Placed(p) \in Seq(Flows) /\ Len(Placed(p)) = Len(open)
        /\ \A j \in 1..Len(open) : Placed(p)[j] = IF j = At(p.key) THEN Updated(p) ELSE open[j]
    BY <1>0, <1>1, <2>1, <2>2, ExceptSeq
  <2>4. \A j \in 1..Len(open) : Placed(p)[j].key = open[j].key
    BY <1>1, <2>1, <2>3
  <2>5. \A i, j \in 1..Len(open) : open[i].key = open[j].key => i = j
    BY <1>0 DEF AggregatorTypeOK
  <2>6. \A i \in 1..Len(open) : Placed(p)[i].packets # {}
    BY <1>0, <1>1, <2>3 DEF AggregatorTypeOK
  <2>7. Len(open) > 0 /\ Len(open) <= MaxFlows + 1
    BY <1>0, <2>1, AggregatorAssumption DEF AggregatorTypeOK
  <2> QED
    BY <2>3, <2>4, <2>5, <2>6, <2>7
<1>3. CASE ~IsOpen(p.key)
  <2>1. Placed(p) = Append(open, Updated(p))
    BY <1>3 DEF Placed
  <2>2. /\ Placed(p) \in Seq(Flows) /\ Len(Placed(p)) = Len(open) + 1
        /\ \A j \in 1..Len(open) : Placed(p)[j] = open[j]
        /\ Placed(p)[Len(open) + 1] = Updated(p)
    BY <1>0, <1>1, <2>1, AppendProperties
  <2>3. \A j \in 1..Len(open) : open[j].key # p.key
    BY <1>0, <1>3 DEF IsOpen
  <2>4. \A i, j \in 1..Len(open) : open[i].key = open[j].key => i = j
    BY <1>0 DEF AggregatorTypeOK
  <2>5. \A i, j \in 1..Len(open) + 1 : Placed(p)[i].key = Placed(p)[j].key => i = j
    BY <1>0, <1>1, <2>2, <2>3, <2>4
  <2>6. \A i \in 1..Len(open) + 1 : Placed(p)[i].packets # {}
    <3>1. \A i \in 1..Len(open) : open[i].packets # {}
      BY <1>0 DEF AggregatorTypeOK
    <3>2. \A i \in 1..Len(open) + 1 : i \in 1..Len(open) \/ i = Len(open) + 1
      BY <1>0
    <3> QED
      BY <1>1, <2>2, <3>1, <3>2
  <2>7. Len(open) + 1 > 0 /\ Len(open) + 1 <= MaxFlows + 1
    BY <1>0, AggregatorAssumption DEF AggregatorTypeOK
  <2> QED
    BY <2>2, <2>5, <2>6, <2>7
<1> QED
  BY <1>2, <1>3

(* What an idle flow adds to the emitted ones. *)
LEMMA ExpiredProperties ==
  ASSUME AggregatorTypeOK, NEW p \in Packets
  PROVE  Expired(p) \in Seq(Flows) /\ emitted \o Expired(p) \in Seq(Flows)
<1>1. Expired(p) \in Seq(Flows)
  <2>1. CASE IsIdle(p)
    <3>1. At(p.key) \in 1..Len(open)
      BY <2>1, AtIsThePlace, LenProperties DEF IsIdle, AggregatorTypeOK
    <3>2. open[At(p.key)] \in Flows
      BY <3>1, ElementOfSeq DEF AggregatorTypeOK
    <3> QED
      BY <2>1, <3>2 DEF Expired
  <2>2. CASE ~IsIdle(p)
    BY <2>2, EmptySeq DEF Expired
  <2> QED
    BY <2>1, <2>2
<1> QED
  BY <1>1, ConcatProperties DEF AggregatorTypeOK

-------------------------------------------------------------------------------
(* Type correctness *)

(* The dict stays within its capacity and never has two flows of one key, for  *)
(* every add, also one that expires a flow or makes room, and every flush      *)
(* (FlowAggregator.add, flush).                                                *)
LEMMA TypeStep ==
  ASSUME AggregatorTypeOK, [AggregatorNext]_aggregatorVars
  PROVE  AggregatorTypeOK'
<1>0. /\ open \in Seq(Flows) /\ Len(open) \in Nat /\ DOMAIN open = 1..Len(open)
      /\ emitted \in Seq(Flows) /\ added \in Seq(Packets) /\ Len(added) \in Nat
      /\ MaxPackets \in Nat /\ MaxFlows \in Nat \ {0} /\ Len(added) <= MaxPackets
  BY LenProperties, AggregatorAssumption DEF AggregatorTypeOK
<1>1. ASSUME NEW p \in Packets, AddKeeps(p)
      PROVE  AggregatorTypeOK'
  <2>1. Len(added) < MaxPackets /\ ~Overfull(Placed(p)) /\ added' = Append(added, p)
        /\ open' = Placed(p) /\ emitted' = emitted \o Expired(p) /\ cuts' = cuts
    BY <1>1 DEF AddKeeps
  <2>2. added' \in Seq(Packets) /\ Len(added') = Len(added) + 1
    BY <1>0, <2>1, AppendProperties
  <2>3. emitted' \in Seq(Flows)
    BY <2>1, ExpiredProperties
  <2>4. /\ open' \in Seq(Flows) /\ Len(open') <= MaxFlows
        /\ DOMAIN open' = 1..Len(open')
        /\ \A i, j \in 1..Len(open') : open'[i].key = open'[j].key => i = j
        /\ \A i \in 1..Len(open') : open'[i].packets # {}
    <3>1. open' \in Seq(Flows) /\ Len(open') \in Nat /\ DOMAIN open' = 1..Len(open')
      BY <2>1, PlacedProperties, LenProperties
    <3>2. Len(open') <= MaxFlows
      BY <1>0, <2>1, <3>1 DEF Overfull
    <3>3. /\ \A i, j \in 1..Len(open') : open'[i].key = open'[j].key => i = j
          /\ \A i \in 1..Len(open') : open'[i].packets # {}
      <4>1. /\ \A i, j \in 1..Len(Placed(p)) : Placed(p)[i].key = Placed(p)[j].key => i = j
            /\ \A i \in 1..Len(Placed(p)) : Placed(p)[i].packets # {}
        BY <2>1, PlacedProperties
      <4> QED
        BY <2>1, <4>1
    <3> QED
      BY <3>1, <3>2, <3>3
  <2>5. Len(added') <= MaxPackets
    BY <1>0, <2>1, <2>2
  <2>6. cuts' \subseteq Keys \X (0..MaxPackets)
    BY <2>1 DEF AggregatorTypeOK
  <2> QED
    BY <2>2, <2>3, <2>4, <2>5, <2>6 DEF AggregatorTypeOK, Packets, Flows
<1>2. ASSUME NEW p \in Packets, AddEvicts(p)
      PROVE  AggregatorTypeOK'
  <2> DEFINE flows == Placed(p)
             i == Oldest(flows)
  <2>1. Len(added) < MaxPackets /\ added' = Append(added, p)
        /\ open' = Without(flows, i) /\ emitted' = emitted \o Expired(p) \o <<flows[i]>>
        /\ cuts' = cuts \cup {<<flows[i].key, Len(added) + 1>>}
    BY <1>2 DEF AddEvicts
  <2>2. added' \in Seq(Packets) /\ Len(added') = Len(added) + 1
    BY <1>0, <2>1, AppendProperties
  <2>3. /\ flows \in Seq(Flows) /\ Len(flows) > 0 /\ Len(flows) <= MaxFlows + 1
        /\ \A j, k \in 1..Len(flows) : flows[j].key = flows[k].key => j = k
        /\ \A j \in 1..Len(flows) : flows[j].packets # {}
    BY <2>1, PlacedProperties
  <2>4. i \in 1..Len(flows) /\ Len(flows) \in Nat
    BY <2>3, OldestExists, LenProperties
  <2> HIDE DEF i, flows
  <2>5. flows[i] \in Flows
    BY <2>3, <2>4, ElementOfSeq
  <2>6. emitted' \in Seq(Flows)
    <3>1. <<flows[i]>> \in Seq(Flows)
      BY <2>5
    <3> QED
      BY <2>1, <3>1, ExpiredProperties, ConcatProperties
  <2>7. /\ open' \in Seq(Flows) /\ Len(open') = Len(flows) - 1
        /\ DOMAIN open' = 1..Len(flows) - 1
        /\ \A j \in 1..Len(flows) - 1 :
             open'[j] = IF j < i THEN flows[j] ELSE flows[j + 1]
    BY <2>1, <2>3, <2>4, WithoutProperties
  <2>8. \A j, k \in 1..Len(flows) - 1 : open'[j].key = open'[k].key => j = k
    <3> SUFFICES ASSUME NEW j \in 1..Len(flows) - 1, NEW k \in 1..Len(flows) - 1,
                        open'[j].key = open'[k].key
                 PROVE  j = k
      OBVIOUS
    <3>1. PICK x \in 1..Len(flows) : open'[j] = flows[x] /\ x = IF j < i THEN j ELSE j + 1
      BY <2>4, <2>7
    <3>2. PICK y \in 1..Len(flows) : open'[k] = flows[y] /\ y = IF k < i THEN k ELSE k + 1
      BY <2>4, <2>7
    <3>3. x = y
      BY <2>3, <3>1, <3>2
    <3> QED
      BY <2>4, <3>1, <3>2, <3>3
  <2>9. \A j \in 1..Len(flows) - 1 : open'[j].packets # {}
    <3>1. \A j \in 1..Len(flows) - 1 : j \in 1..Len(flows) /\ j + 1 \in 1..Len(flows)
      BY <2>4
    <3> QED
      BY <2>3, <2>7, <3>1
  <2>10. cuts' \subseteq Keys \X (0..MaxPackets)
    <3>1. flows[i].key \in Keys /\ Len(added) + 1 \in 0..MaxPackets
      BY <1>0, <2>1, <2>5 DEF Flows
    <3> QED
      BY <2>1, <3>1 DEF AggregatorTypeOK
  <2>11. Len(added') <= MaxPackets /\ Len(open') <= MaxFlows
    BY <1>0, <2>1, <2>2, <2>3, <2>4, <2>7
  <2> QED
    BY <2>2, <2>6, <2>7, <2>8, <2>9, <2>10, <2>11 DEF AggregatorTypeOK, Packets, Flows
<1>3. CASE Flush
  <2>1. emitted' \in Seq(Flows)
    BY <1>0, <1>3, ConcatProperties DEF Flush
  <2>2. open' = <<>> /\ added' = added
    BY <1>3 DEF Flush
  <2>3. open' \in Seq(Flows) /\ Len(open') = 0 /\ DOMAIN open' = {}
    BY <2>2, EmptySeq
  <2>4. cuts' \subseteq Keys \X (0..MaxPackets)
    <3>1. \A i \in 1..Len(open) : open[i].key \in Keys
      <4>1. \A i \in 1..Len(open) : open[i] \in Flows
        BY <1>0, ElementOfSeq
      <4> QED
        BY <4>1 DEF Flows
    <3>2. Len(added) \in 0..MaxPackets
      BY <1>0
    <3> QED
      BY <1>0, <1>3, <3>1, <3>2 DEF Flush, AggregatorTypeOK
  <2> QED
    BY <1>0, <2>1, <2>2, <2>3, <2>4 DEF AggregatorTypeOK, Packets, Flows
<1>4. CASE UNCHANGED aggregatorVars
  BY <1>4 DEF aggregatorVars, AggregatorTypeOK, Flows, Packets
<1> QED
  BY <1>1, <1>2, <1>3, <1>4 DEF AggregatorNext

(* AggregatorTypeOK holds in every behaviour: at most max_flows flows are open     *)
(* between two calls, one per 5-tuple (FlowAggregator.add).                        *)
THEOREM AggregatorTypeCorrect == AggregatorSpec => []AggregatorTypeOK
<1>1. AggregatorInit => AggregatorTypeOK
  <2> SUFFICES ASSUME AggregatorInit
               PROVE  AggregatorTypeOK
    OBVIOUS
  <2>1. /\ <<>> \in Seq(Flows) /\ <<>> \in Seq(Packets) /\ Len(<<>>) = 0 /\ DOMAIN <<>> = {}
    BY EmptySeq
  <2> QED
    BY <2>1, AggregatorAssumption DEF AggregatorInit, AggregatorTypeOK
<1> QED
  BY <1>1, TypeStep, PTL DEF AggregatorSpec

-------------------------------------------------------------------------------
(* Conservation *)

\* Packet n is counted by one flow of the sequence, a flow of key k.
OnceIn(flows, n, k) ==
  \E i \in 1..Len(flows) :
    /\ flows[i].key = k
    /\ \A j \in 1..Len(flows) : n \in flows[j].packets <=> i = j

NowhereIn(flows, n) == \A i \in 1..Len(flows) : n \notin flows[i].packets

\* One of the two sequences counts n, once; or neither has it.
OnceInEither(s, t, n, k) ==
  \/ OnceIn(s, n, k) /\ NowhereIn(t, n)
  \/ NowhereIn(s, n) /\ OnceIn(t, n, k)

NowhereInBoth(s, t, n) == NowhereIn(s, n) /\ NowhereIn(t, n)

(* Concatenation keeps what is counted where. *)
LEMMA NowhereInConcat ==
  ASSUME NEW s \in Seq(Flows), NEW t \in Seq(Flows), NEW n, NowhereInBoth(s, t, n)
  PROVE  NowhereIn(s \o t, n)
<1>1. /\ Len(s) \in Nat /\ Len(t) \in Nat /\ Len(s \o t) = Len(s) + Len(t)
      /\ \A i \in 1..Len(s) + Len(t) : (s \o t)[i] = IF i <= Len(s) THEN s[i] ELSE t[i - Len(s)]
  BY LenProperties, ConcatProperties
<1> SUFFICES ASSUME NEW i \in 1..Len(s) + Len(t)
             PROVE  n \notin (s \o t)[i].packets
  BY <1>1 DEF NowhereIn
<1>2. CASE i <= Len(s)
  <2>1. i \in 1..Len(s)
    BY <1>1, <1>2
  <2> QED
    BY <1>1, <1>2, <2>1 DEF NowhereInBoth, NowhereIn
<1>3. CASE ~(i <= Len(s))
  <2>1. i - Len(s) \in 1..Len(t)
    BY <1>1, <1>3
  <2> QED
    BY <1>1, <1>3, <2>1 DEF NowhereInBoth, NowhereIn
<1> QED
  BY <1>2, <1>3

LEMMA OnceInConcat ==
  ASSUME NEW s \in Seq(Flows), NEW t \in Seq(Flows), NEW n, NEW k,
         OnceInEither(s, t, n, k)
  PROVE  OnceIn(s \o t, n, k)
<1>1. /\ Len(s) \in Nat /\ Len(t) \in Nat /\ Len(s \o t) = Len(s) + Len(t)
      /\ \A i \in 1..Len(s) + Len(t) : (s \o t)[i] = IF i <= Len(s) THEN s[i] ELSE t[i - Len(s)]
  BY LenProperties, ConcatProperties
<1>2. \A i \in 1..Len(s) : i \in 1..Len(s) + Len(t) /\ (s \o t)[i] = s[i]
  BY <1>1
<1>3. \A i \in 1..Len(t) : Len(s) + i \in 1..Len(s) + Len(t) /\ (s \o t)[Len(s) + i] = t[i]
  BY <1>1
<1>4. \A j \in 1..Len(s) + Len(t) :
        j \in 1..Len(s) \/ \E i \in 1..Len(t) : j = Len(s) + i
  <2> TAKE j \in 1..Len(s) + Len(t)
  <2>1. j \in 1..Len(s) \/ (j - Len(s) \in 1..Len(t) /\ j = Len(s) + (j - Len(s)))
    BY <1>1
  <2> QED
    BY <2>1
<1>5. CASE OnceIn(s, n, k) /\ NowhereIn(t, n)
  <2>1. PICK i \in 1..Len(s) :
          s[i].key = k /\ \A j \in 1..Len(s) : n \in s[j].packets <=> i = j
    BY <1>5 DEF OnceIn
  <2>2. ASSUME NEW j \in 1..Len(s) + Len(t)
        PROVE  n \in (s \o t)[j].packets <=> i = j
    <3>1. CASE j \in 1..Len(s)
      BY <1>2, <2>1, <3>1
    <3>2. ASSUME NEW x \in 1..Len(t), j = Len(s) + x
          PROVE  n \in (s \o t)[j].packets <=> i = j
      <4>1. i # j
        BY <1>1, <3>2
      <4>2. n \notin t[x].packets
        BY <1>5, <3>2 DEF NowhereIn
      <4> QED
        BY <1>3, <3>2, <4>1, <4>2
    <3> QED
      BY <1>4, <3>1, <3>2
  <2>3. i \in 1..Len(s \o t) /\ (s \o t)[i].key = k
    BY <1>1, <1>2, <2>1
  <2> QED
    BY <1>1, <2>2, <2>3 DEF OnceIn
<1>6. CASE NowhereIn(s, n) /\ OnceIn(t, n, k)
  <2>1. PICK i \in 1..Len(t) :
          t[i].key = k /\ \A j \in 1..Len(t) : n \in t[j].packets <=> i = j
    BY <1>6 DEF OnceIn
  <2>2. ASSUME NEW j \in 1..Len(s) + Len(t)
        PROVE  n \in (s \o t)[j].packets <=> Len(s) + i = j
    <3>1. CASE j \in 1..Len(s)
      <4>1. Len(s) + i # j
        BY <1>1, <3>1
      <4> QED
        BY <1>2, <1>6, <3>1, <4>1 DEF NowhereIn
    <3>2. ASSUME NEW x \in 1..Len(t), j = Len(s) + x
          PROVE  n \in (s \o t)[j].packets <=> Len(s) + i = j
      <4>1. i = x <=> Len(s) + i = j
        <5>1. i \in Nat /\ x \in Nat /\ Len(s) \in Nat /\ j = Len(s) + x
          BY <1>1, <3>2
        <5>2. Len(s) + i = Len(s) + x => i = x
          BY <5>1
        <5> QED
          BY <5>1, <5>2
      <4> QED
        BY <1>3, <2>1, <3>2, <4>1
    <3> QED
      BY <1>4, <3>1, <3>2
  <2>3. Len(s) + i \in 1..Len(s \o t) /\ (s \o t)[Len(s) + i].key = k
    BY <1>1, <1>3, <2>1
  <2> QED
    BY <1>1, <2>2, <2>3 DEF OnceIn
<1> QED
  BY <1>5, <1>6 DEF OnceInEither

(* Moving a flow from the dict to the end of what is emitted. *)
LEMMA NowhereAfterMove ==
  ASSUME NEW s \in Seq(Flows), NEW t \in Seq(Flows), NEW i \in 1..Len(t), NEW n,
         NowhereInBoth(s, t, n)
  PROVE  NowhereInBoth(s \o <<t[i]>>, Without(t, i), n)
<1>1. <<t[i]>> \in Seq(Flows) /\ Len(<<t[i]>>) = 1 /\ <<t[i]>>[1] = t[i]
  BY ElementOfSeq
<1>2. NowhereIn(<<t[i]>>, n)
  BY <1>1 DEF NowhereInBoth, NowhereIn
<1>3. NowhereIn(s \o <<t[i]>>, n)
  BY <1>1, <1>2, NowhereInConcat DEF NowhereInBoth
<1>4. NowhereIn(Without(t, i), n)
  <2>1. \A j \in 1..Len(t) - 1 : j \in 1..Len(t) /\ j + 1 \in 1..Len(t)
    BY LenProperties
  <2> QED
    BY <2>1, WithoutProperties, ZenonT(30) DEF NowhereInBoth, NowhereIn
<1> QED
  BY <1>3, <1>4 DEF NowhereInBoth

LEMMA OnceAfterMove ==
  ASSUME NEW s \in Seq(Flows), NEW t \in Seq(Flows), NEW i \in 1..Len(t), NEW n, NEW k,
         OnceInEither(s, t, n, k)
  PROVE  OnceInEither(s \o <<t[i]>>, Without(t, i), n, k)
<1>1. <<t[i]>> \in Seq(Flows) /\ Len(<<t[i]>>) = 1 /\ <<t[i]>>[1] = t[i]
  BY ElementOfSeq
<1>2. /\ Len(t) \in Nat /\ Len(Without(t, i)) = Len(t) - 1
      /\ \A j \in 1..Len(t) - 1 : Without(t, i)[j] = IF j < i THEN t[j] ELSE t[j + 1]
  BY LenProperties, WithoutProperties
<1>3. \A j \in 1..Len(t) - 1 : j \in 1..Len(t) /\ j + 1 \in 1..Len(t)
  BY <1>2
<1>4. CASE OnceIn(s, n, k) /\ NowhereIn(t, n)
  <2>1. NowhereIn(<<t[i]>>, n)
    BY <1>1, <1>4 DEF NowhereIn
  <2>2. OnceIn(s \o <<t[i]>>, n, k)
    BY <1>1, <1>4, <2>1, OnceInConcat DEF OnceInEither
  <2>3. NowhereIn(Without(t, i), n)
    BY <1>2, <1>3, <1>4 DEF NowhereIn
  <2> QED
    BY <2>2, <2>3 DEF OnceInEither
<1>5. ASSUME NowhereIn(s, n), OnceIn(t, n, k)
      PROVE  OnceInEither(s \o <<t[i]>>, Without(t, i), n, k)
  <2>1. PICK x \in 1..Len(t) :
          t[x].key = k /\ \A j \in 1..Len(t) : n \in t[j].packets <=> x = j
    BY <1>5 DEF OnceIn
  <2>2. CASE x = i
    <3>1. OnceIn(<<t[i]>>, n, k)
      BY <1>1, <2>1, <2>2 DEF OnceIn
    <3>2. OnceIn(s \o <<t[i]>>, n, k)
      BY <1>1, <1>5, <3>1, OnceInConcat DEF OnceInEither
    <3>3. \A j \in 1..Len(t) - 1 : n \notin Without(t, i)[j].packets
      <4> TAKE j \in 1..Len(t) - 1
      <4>1. CASE j < i
        BY <1>2, <1>3, <2>1, <2>2, <4>1
      <4>2. CASE ~(j < i)
        <5>1. x # j + 1
          BY <1>2, <2>2, <4>2
        <5> QED
          BY <1>2, <1>3, <2>1, <4>2, <5>1
      <4> QED
        BY <4>1, <4>2
    <3> QED
      BY <1>2, <3>2, <3>3 DEF OnceInEither, NowhereIn
  <2>3. CASE x # i
    <3>1. NowhereIn(<<t[i]>>, n)
      BY <1>1, <2>1, <2>3 DEF NowhereIn
    <3>2. NowhereIn(s \o <<t[i]>>, n)
      BY <1>1, <1>5, <3>1, NowhereInConcat DEF NowhereInBoth
    <3> DEFINE y == IF x < i THEN x ELSE x - 1
    <3>3. y \in 1..Len(t) - 1 /\ Without(t, i)[y] = t[x]
      <4>1. y \in 1..Len(t) - 1 /\ (y < i <=> x < i)
        BY <1>2, <2>3
      <4>2. CASE x < i
        BY <1>2, <4>1, <4>2
      <4>3. CASE ~(x < i)
        <5>1. y + 1 = x
          BY <1>2, <4>3
        <5> QED
          BY <1>2, <4>1, <4>3, <5>1
      <4> QED
        BY <4>1, <4>2, <4>3
    <3>4. \A j \in 1..Len(t) - 1 : n \in Without(t, i)[j].packets <=> y = j
      <4> TAKE j \in 1..Len(t) - 1
      <4>1. CASE j < i
        <5>1. x = j <=> y = j
          BY <1>2, <2>3, <4>1
        <5> QED
          BY <1>2, <1>3, <2>1, <4>1, <5>1
      <4>2. CASE ~(j < i)
        <5>1. x = j + 1 <=> y = j
          BY <1>2, <2>3, <4>2
        <5> QED
          BY <1>2, <1>3, <2>1, <4>2, <5>1
      <4> QED
        BY <4>1, <4>2
    <3>5. OnceIn(Without(t, i), n, k)
      BY <1>2, <2>1, <3>3, <3>4 DEF OnceIn
    <3> QED
      BY <3>2, <3>5 DEF OnceInEither
  <2> QED
    BY <2>2, <2>3
<1> QED
  BY <1>4, <1>5 DEF OnceInEither

\* What each packet so far, and none of the later ones, is counted by.
Counts(s, t, packets) ==
  /\ \A n \in 1..Len(packets) : OnceInEither(s, t, n, packets[n].key)
  /\ \A n \in Len(packets) + 1..MaxPackets : NowhereInBoth(s, t, n)

(* The packet is counted by the flow it is placed in; an idle flow takes its own   *)
(* packets along when it is emitted.                                               *)
LEMMA PlacedCounts ==
  ASSUME AggregatorTypeOK, Counts(emitted, open, added),
         Len(added) < MaxPackets, NEW p \in Packets
  PROVE  Counts(emitted \o Expired(p), Placed(p), Append(added, p))
<1> DEFINE N == Len(added) + 1
           a == At(p.key)
           e == emitted \o Expired(p)
<1>0. /\ open \in Seq(Flows) /\ Len(open) \in Nat /\ DOMAIN open = 1..Len(open)
      /\ emitted \in Seq(Flows) /\ Len(emitted) \in Nat
      /\ added \in Seq(Packets) /\ Len(added) \in Nat /\ MaxPackets \in Nat
  BY LenProperties, AggregatorAssumption DEF AggregatorTypeOK
<1>1. /\ Updated(p) \in Flows /\ Updated(p).key = p.key
      /\ Updated(p).packets = State(p).packets \cup {N}
  BY UpdatedProperties
<1>2. /\ Len(Append(added, p)) = N /\ Append(added, p)[N] = p
      /\ \A n \in 1..Len(added) : Append(added, p)[n] = added[n]
  BY <1>0, AppendProperties
<1>3. /\ N \in Len(added) + 1..MaxPackets /\ N \notin 1..Len(added)
      /\ \A n \in 1..N : n \in 1..Len(added) \/ n = N
      /\ \A n \in N + 1..MaxPackets : n \in Len(added) + 1..MaxPackets /\ n # N
  BY <1>0
<1>4. NowhereInBoth(emitted, open, N)
  BY <1>3 DEF Counts
<1>5. SUFFICES /\ \A n \in 1..Len(added) : OnceInEither(e, Placed(p), n, added[n].key)
               /\ OnceInEither(e, Placed(p), N, p.key)
               /\ \A n \in N + 1..MaxPackets : NowhereInBoth(e, Placed(p), n)
  BY <1>2, <1>3 DEF Counts
<1> HIDE DEF N, a
<1>6. CASE ~IsOpen(p.key)
  <2>1. e = emitted /\ Updated(p).packets = {N}
    <3>1. Expired(p) = <<>> /\ State(p).packets = {}
      BY <1>6 DEF Expired, IsIdle, State
    <3> QED
      BY <1>0, <1>1, <3>1, ConcatEmptySeq
  <2>2. /\ Len(Placed(p)) = Len(open) + 1
        /\ \A j \in 1..Len(open) : Placed(p)[j] = open[j]
        /\ Placed(p)[Len(open) + 1] = Updated(p)
    BY <1>0, <1>1, <1>6, AppendProperties DEF Placed
  <2>3. /\ \A j \in 1..Len(open) + 1 : j \in 1..Len(open) \/ j = Len(open) + 1
        /\ \A j \in 1..Len(open) : j \in 1..Len(open) + 1 /\ j # Len(open) + 1
        /\ Len(open) + 1 \in 1..Len(open) + 1
    BY <1>0
  <2>4. ASSUME NEW n, n # N, NowhereIn(open, n)
        PROVE  NowhereIn(Placed(p), n)
    BY <2>1, <2>2, <2>3, <2>4 DEF NowhereIn
  <2>5. ASSUME NEW n, NEW k, n # N, OnceIn(open, n, k)
        PROVE  OnceIn(Placed(p), n, k)
    <3>1. PICK x \in 1..Len(open) :
            open[x].key = k /\ \A j \in 1..Len(open) : n \in open[j].packets <=> x = j
      BY <2>5 DEF OnceIn
    <3>2. \A j \in 1..Len(open) + 1 : n \in Placed(p)[j].packets <=> x = j
      BY <2>1, <2>2, <2>3, <2>5, <3>1
    <3> QED
      BY <2>2, <2>3, <3>1, <3>2 DEF OnceIn
  <2>6. OnceIn(Placed(p), N, p.key)
    <3>1. \A j \in 1..Len(open) + 1 : N \in Placed(p)[j].packets <=> Len(open) + 1 = j
      BY <1>4, <2>1, <2>2, <2>3 DEF NowhereInBoth, NowhereIn
    <3> QED
      BY <1>1, <2>2, <2>3, <3>1 DEF OnceIn
  <2> QED
    BY <1>3, <1>4, <2>1, <2>4, <2>5, <2>6 DEF Counts, OnceInEither, NowhereInBoth
<1>7. CASE IsOpen(p.key)
  <2>1. a \in 1..Len(open) /\ open[a].key = p.key /\ open[a] \in Flows
    BY <1>0, <1>7, AtIsThePlace, ElementOfSeq DEF a
  <2>2. /\ Len(Placed(p)) = Len(open)
        /\ \A j \in 1..Len(open) : Placed(p)[j] = IF j = a THEN Updated(p) ELSE open[j]
    BY <1>0, <1>1, <1>7, <2>1, ExceptSeq DEF Placed, a
  <2>3. OnceIn(Placed(p), N, p.key)
    <3>1. \A j \in 1..Len(open) : N \in Placed(p)[j].packets <=> a = j
      BY <1>1, <1>4, <2>2 DEF NowhereInBoth, NowhereIn
    <3> QED
      BY <1>1, <2>1, <2>2, <3>1 DEF OnceIn
  <2>4. CASE ~IsIdle(p)
    <3>1. e = emitted /\ Updated(p).packets = open[a].packets \cup {N}
      <4>1. Expired(p) = <<>> /\ State(p) = open[a]
        BY <1>7, <2>4 DEF Expired, State, a
      <4> QED
        BY <1>0, <1>1, <4>1, ConcatEmptySeq
    <3>2. \A n : n # N => \A j \in 1..Len(open) :
            n \in Placed(p)[j].packets <=> n \in open[j].packets
      BY <2>2, <3>1
    <3>3. \A j \in 1..Len(open) : Placed(p)[j].key = open[j].key
      BY <1>1, <2>1, <2>2
    <3>4. \A n : n # N /\ NowhereIn(open, n) => NowhereIn(Placed(p), n)
      BY <2>2, <3>2 DEF NowhereIn
    <3>5. \A n, k : n # N /\ OnceIn(open, n, k) => OnceIn(Placed(p), n, k)
      BY <2>2, <3>2, <3>3 DEF OnceIn
    <3> QED
      BY <1>3, <1>4, <2>3, <3>1, <3>4, <3>5 DEF Counts, OnceInEither, NowhereInBoth
  <2>5. CASE IsIdle(p)
    <3>1. Expired(p) = <<open[a]>> /\ Updated(p).packets = {N}
      BY <1>1, <2>5 DEF Expired, State, a
    <3>2. <<open[a]>> \in Seq(Flows) /\ Len(<<open[a]>>) = 1 /\ <<open[a]>>[1] = open[a]
      BY <2>1
    <3>3. ASSUME NEW n, n # N, NowhereInBoth(emitted, open, n)
          PROVE  NowhereInBoth(e, Placed(p), n)
      <4>1. NowhereIn(<<open[a]>>, n)
        BY <2>1, <3>2, <3>3 DEF NowhereInBoth, NowhereIn
      <4>2. NowhereIn(e, n)
        BY <1>0, <3>1, <3>2, <3>3, <4>1, NowhereInConcat DEF NowhereInBoth
      <4>3. NowhereIn(Placed(p), n)
        BY <2>2, <3>1, <3>3 DEF NowhereInBoth, NowhereIn
      <4> QED
        BY <4>2, <4>3 DEF NowhereInBoth
    <3>4. NowhereIn(e, N)
      <4>1. NowhereIn(<<open[a]>>, N)
        BY <1>4, <2>1, <3>2 DEF NowhereInBoth, NowhereIn
      <4> QED
        BY <1>0, <1>4, <3>1, <3>2, <4>1, NowhereInConcat DEF NowhereInBoth
    <3>5. ASSUME NEW n, NEW k, n # N, OnceInEither(emitted, open, n, k)
          PROVE  OnceInEither(e, Placed(p), n, k)
      <4>1. CASE OnceIn(emitted, n, k) /\ NowhereIn(open, n)
        <5>1. NowhereIn(<<open[a]>>, n)
          BY <2>1, <3>2, <4>1 DEF NowhereIn
        <5>2. OnceIn(e, n, k)
          BY <1>0, <3>1, <3>2, <4>1, <5>1, OnceInConcat DEF OnceInEither
        <5>3. NowhereIn(Placed(p), n)
          BY <2>2, <3>1, <3>5, <4>1 DEF NowhereIn
        <5> QED
          BY <5>2, <5>3 DEF OnceInEither
      <4>2. ASSUME NowhereIn(emitted, n), OnceIn(open, n, k)
            PROVE  OnceInEither(e, Placed(p), n, k)
        <5>1. PICK x \in 1..Len(open) :
                open[x].key = k /\ \A j \in 1..Len(open) : n \in open[j].packets <=> x = j
          BY <4>2 DEF OnceIn
        <5>2. CASE x = a
          <6>1. OnceIn(<<open[a]>>, n, k)
            BY <3>2, <5>1, <5>2 DEF OnceIn
          <6>2. OnceIn(e, n, k)
            BY <1>0, <3>1, <3>2, <4>2, <6>1, OnceInConcat DEF OnceInEither
          <6>3. NowhereIn(Placed(p), n)
            BY <2>2, <3>1, <3>5, <5>1, <5>2 DEF NowhereIn
          <6> QED
            BY <6>2, <6>3 DEF OnceInEither
        <5>3. CASE x # a
          <6>1. NowhereIn(<<open[a]>>, n)
            BY <2>1, <3>2, <5>1, <5>3 DEF NowhereIn
          <6>2. NowhereIn(e, n)
            BY <1>0, <3>1, <3>2, <4>2, <6>1, NowhereInConcat DEF NowhereInBoth
          <6>3. \A j \in 1..Len(open) : n \in Placed(p)[j].packets <=> x = j
            BY <2>2, <3>1, <3>5, <5>1, <5>3
          <6>4. OnceIn(Placed(p), n, k)
            BY <2>2, <5>1, <5>3, <6>3 DEF OnceIn
          <6> QED
            BY <6>2, <6>4 DEF OnceInEither
        <5> QED
          BY <5>2, <5>3
      <4> QED
        BY <3>5, <4>1, <4>2 DEF OnceInEither
    <3>6. OnceInEither(e, Placed(p), N, p.key)
      BY <2>3, <3>4 DEF OnceInEither
    <3> QED
      BY <1>3, <3>3, <3>5, <3>6 DEF Counts
  <2> QED
    BY <2>4, <2>5
<1> QED
  BY <1>6, <1>7

(* The sequences of the invariant count every packet once at every step.           *)
LEMMA CountsStep ==
  ASSUME AggregatorTypeOK, Counts(emitted, open, added),
         [AggregatorNext]_aggregatorVars
  PROVE  Counts(emitted, open, added)'
<1>1. ASSUME NEW p \in Packets, AddKeeps(p)
      PROVE  Counts(emitted', open', added')
  BY <1>1, PlacedCounts DEF AddKeeps
<1>2. ASSUME NEW p \in Packets, AddEvicts(p)
      PROVE  Counts(emitted', open', added')
  <2> DEFINE e == emitted \o Expired(p)
             flows == Placed(p)
             i == Oldest(flows)
  <2>1. /\ Len(added) < MaxPackets /\ added' = Append(added, p)
        /\ open' = Without(flows, i) /\ emitted' = e \o <<flows[i]>>
    BY <1>2 DEF AddEvicts
  <2>2. Counts(e, flows, added')
    BY <2>1, PlacedCounts
  <2>3. e \in Seq(Flows) /\ flows \in Seq(Flows) /\ i \in 1..Len(flows)
    BY <2>1, ExpiredProperties, PlacedProperties, OldestExists
  <2> HIDE DEF e, flows, i
  <2> QED
    BY <2>1, <2>2, <2>3, OnceAfterMove, NowhereAfterMove DEF Counts
<1>3. ASSUME Flush
      PROVE  Counts(emitted', open', added')
  <2>1. emitted' = emitted \o open /\ open' = <<>> /\ added' = added
    BY <1>3 DEF Flush
  <2>2. emitted \in Seq(Flows) /\ open \in Seq(Flows)
    BY DEF AggregatorTypeOK
  <2>3. \A n : NowhereIn(<<>>, n)
    BY EmptySeq DEF NowhereIn
  <2> QED
    BY <2>1, <2>2, <2>3, OnceInConcat, NowhereInConcat
       DEF Counts, OnceInEither, NowhereInBoth
<1>4. CASE UNCHANGED aggregatorVars
  BY <1>4 DEF aggregatorVars, Counts, OnceInEither, NowhereInBoth, OnceIn, NowhereIn
<1>5. Counts(emitted', open', added')
  BY <1>1, <1>2, <1>3, <1>4 DEF AggregatorNext, aggregatorVars
<1> QED
  BY <1>5 DEF Counts, OnceInEither, NowhereInBoth, OnceIn, NowhereIn

(* No packet is lost or counted twice by an expiry, an eviction or a flush         *)
(* (FlowAggregator.add, flush): EveryPacketOnce in every behaviour.                *)
THEOREM PacketsConserved == AggregatorSpec => []EveryPacketOnce
<1>1. AggregatorInit => Counts(emitted, open, added)
  BY EmptySeq DEF AggregatorInit, Counts, NowhereInBoth, NowhereIn
<1>2. AggregatorTypeOK /\ Counts(emitted, open, added) => EveryPacketOnce
  <2> SUFFICES ASSUME AggregatorTypeOK, Counts(emitted, open, added),
                      NEW n \in DOMAIN added
               PROVE  \E i \in DOMAIN AllFlows :
                        /\ AllFlows[i].key = added[n].key
                        /\ \A j \in DOMAIN AllFlows : n \in AllFlows[j].packets <=> i = j
    BY DEF EveryPacketOnce
  <2>1. emitted \in Seq(Flows) /\ open \in Seq(Flows) /\ n \in 1..Len(added)
    BY LenProperties DEF AggregatorTypeOK
  <2>2. OnceIn(emitted \o open, n, added[n].key)
    BY <2>1, OnceInConcat DEF Counts
  <2>3. AllFlows = emitted \o open /\ DOMAIN AllFlows = 1..Len(AllFlows)
    BY <2>1, ConcatProperties, LenProperties DEF AllFlows
  <2> QED
    BY <2>2, <2>3, SMTT(30) DEF OnceIn
<1>3. AggregatorTypeOK /\ Counts(emitted, open, added) /\ [AggregatorNext]_aggregatorVars
        => Counts(emitted, open, added)'
  BY CountsStep
<1> QED
  BY <1>1, <1>2, <1>3, AggregatorTypeCorrect, PTL DEF AggregatorSpec

-------------------------------------------------------------------------------
(* Stamps and bursts *)

FlowSet == Elements(emitted) \cup Elements(open)

\* The packets of a flow are of its key, and its stamps are theirs.
Stamped(flow, packets) ==
  /\ flow.packets \subseteq 1..Len(packets)
  /\ \A n \in flow.packets : packets[n].key = flow.key /\ packets[n].time <= flow.last
  /\ \E n \in flow.packets : packets[n].time = flow.last
  /\ \E n \in flow.packets :
       packets[n].time = flow.first /\ \A m \in flow.packets : n <= m
StampInv == \A f \in FlowSet : Stamped(f, added)

\* The flow of packet m's key was emitted early after m; and otherwise the burst of m
\* is the current one of its key when none began after it.
CutOff(m) == \E c \in cuts : c[1] = added[m].key /\ m <= c[2]
InCurrentBurst(m) ==
  /\ ~CutOff(m)
  /\ \A l \in m + 1..Len(added) : added[l].key = added[m].key => ~BeginsBurst(l)

\* Two packets are in one flow.
Together(m, n) == \E f \in FlowSet : {m, n} \subseteq f.packets

\* An open flow is the current burst of its key; what came before it was cut off or is
\* further back than the timeout; and a key without an open flow was cut off.
CutsSoFar == \A c \in cuts : c[2] <= Len(added)
PairsInv ==
  \A n \in 1..Len(added) : \A m \in 1..n - 1 : SameBurst(m, n) <=> Together(m, n)
OpenIsCurrent(f) ==
  \A m \in 1..Len(added) : added[m].key = f.key =>
    /\ m \in f.packets <=> InCurrentBurst(m)
    /\ m \in f.packets \/ CutOff(m) \/ f.last - added[m].time > IdleTimeout
ClosedIsCut(m) == CutOff(m) \/ \E f \in Elements(open) : f.key = added[m].key
BurstInv ==
  /\ CutsSoFar /\ PairsInv
  /\ \A f \in Elements(open) : OpenIsCurrent(f)
  /\ \A m \in 1..Len(added) : ClosedIsCut(m)

(* What a concatenation holds. *)
LEMMA ElementsOfConcat ==
  ASSUME NEW s \in Seq(Flows), NEW t \in Seq(Flows)
  PROVE  Elements(s \o t) = Elements(s) \cup Elements(t)
<1>1. /\ Len(s) \in Nat /\ Len(t) \in Nat
      /\ DOMAIN s = 1..Len(s) /\ DOMAIN t = 1..Len(t)
      /\ DOMAIN (s \o t) = 1..Len(s) + Len(t)
      /\ \A i \in 1..Len(s) + Len(t) : (s \o t)[i] = IF i <= Len(s) THEN s[i] ELSE t[i - Len(s)]
  BY LenProperties, ConcatProperties
<1>2. ASSUME NEW i \in 1..Len(s) + Len(t)
      PROVE  (s \o t)[i] \in Elements(s) \cup Elements(t)
  <2>1. i \in 1..Len(s) \/ (~(i <= Len(s)) /\ i - Len(s) \in 1..Len(t))
    BY <1>1
  <2> QED
    BY <1>1, <2>1, SMTT(30) DEF Elements
<1>3. ASSUME NEW i \in 1..Len(s)
      PROVE  s[i] \in Elements(s \o t)
  <2>1. i \in 1..Len(s) + Len(t) /\ i <= Len(s)
    BY <1>1
  <2> QED
    BY <1>1, <2>1 DEF Elements
<1>4. ASSUME NEW i \in 1..Len(t)
      PROVE  t[i] \in Elements(s \o t)
  <2>1. /\ Len(s) + i \in 1..Len(s) + Len(t) /\ ~(Len(s) + i <= Len(s))
        /\ Len(s) + i - Len(s) = i
    BY <1>1
  <2>2. (s \o t)[Len(s) + i] = t[i]
    BY <1>1, <2>1
  <2> QED
    BY <1>1, <2>1, <2>2 DEF Elements
<1> QED
  BY <1>1, <1>2, <1>3, <1>4 DEF Elements

(* What is left when one flow is taken out of a dict with one flow per key. *)
LEMMA ElementsWithout ==
  ASSUME NEW flows \in Seq(Flows), NEW i \in 1..Len(flows),
         \A j, k \in 1..Len(flows) : flows[j].key = flows[k].key => j = k
  PROVE  /\ Elements(flows) = Elements(Without(flows, i)) \cup {flows[i]}
         /\ \A g \in Elements(Without(flows, i)) : g.key # flows[i].key
<1>1. /\ Len(flows) \in Nat /\ DOMAIN flows = 1..Len(flows)
      /\ DOMAIN Without(flows, i) = 1..Len(flows) - 1
      /\ \A j \in 1..Len(flows) - 1 :
           Without(flows, i)[j] = IF j < i THEN flows[j] ELSE flows[j + 1]
  BY LenProperties, WithoutProperties
<1>2. ASSUME NEW j \in 1..Len(flows) - 1
      PROVE  \E k \in 1..Len(flows) : k # i /\ Without(flows, i)[j] = flows[k]
  <2>1. IF j < i THEN j \in 1..Len(flows) /\ j # i ELSE j + 1 \in 1..Len(flows) /\ j + 1 # i
    BY <1>1
  <2> QED
    BY <1>1, <2>1
<1>3. ASSUME NEW k \in 1..Len(flows), k # i
      PROVE  \E j \in 1..Len(flows) - 1 : Without(flows, i)[j] = flows[k]
  <2>1. CASE k < i
    BY <1>1, <2>1
  <2>2. CASE ~(k < i)
    <3>1. k - 1 \in 1..Len(flows) - 1 /\ ~(k - 1 < i) /\ k - 1 + 1 = k
      BY <1>1, <1>3, <2>2
    <3> QED
      BY <1>1, <3>1
  <2> QED
    BY <2>1, <2>2
<1>4. ASSUME NEW g \in Elements(flows)
      PROVE  g \in Elements(Without(flows, i)) \cup {flows[i]}
  <2>1. PICK k \in 1..Len(flows) : g = flows[k]
    BY <1>1 DEF Elements
  <2>2. CASE k = i
    BY <2>1, <2>2
  <2>3. CASE k # i
    BY <1>1, <1>3, <2>1, <2>3, ZenonT(30) DEF Elements
  <2> QED
    BY <2>2, <2>3
<1>5. ASSUME NEW g \in Elements(Without(flows, i)) \cup {flows[i]}
      PROVE  g \in Elements(flows)
  <2>1. PICK k \in 1..Len(flows) : g = flows[k]
    <3>1. CASE g = flows[i]
      BY <3>1
    <3>2. CASE g \in Elements(Without(flows, i))
      <4>1. PICK j \in 1..Len(flows) - 1 : g = Without(flows, i)[j]
        BY <1>1, <3>2 DEF Elements
      <4> QED
        BY <1>2, <4>1
    <3> QED
      BY <3>1, <3>2
  <2> QED
    BY <1>1, <2>1 DEF Elements
<1>6. \A g \in Elements(Without(flows, i)) : g.key # flows[i].key
  BY <1>1, <1>2 DEF Elements
<1> QED
  BY <1>4, <1>5, <1>6

(* The flow a packet is put in. *)
LEMMA StateCases ==
  ASSUME AggregatorTypeOK, NEW p \in Packets
  PROVE  \/ /\ \A f \in Elements(open) : f.key # p.key
            /\ State(p) = [key |-> p.key, first |-> p.time, last |-> p.time, packets |-> {}]
            /\ Expired(p) = <<>>
         \/ \E f \in Elements(open) :
              /\ f \in Flows /\ f.key = p.key
              /\ \A g \in Elements(open) : g.key = p.key => g = f
              /\ \/ /\ ~(p.time - f.last > IdleTimeout) /\ State(p) = f /\ Expired(p) = <<>>
                 \/ /\ p.time - f.last > IdleTimeout
                    /\ State(p) = [key |-> p.key, first |-> p.time, last |-> p.time, packets |-> {}]
                    /\ Expired(p) = <<f>>
<1>1. CASE ~IsOpen(p.key)
  BY <1>1 DEF IsOpen, IsIdle, State, Expired, Elements
<1>2. CASE IsOpen(p.key)
  <2> DEFINE f == open[At(p.key)]
  <2>1. f \in Elements(open) /\ f.key = p.key /\ f \in Flows
    BY <1>2, AtIsThePlace, ElementOfSeq, LenProperties DEF AggregatorTypeOK, Elements
  <2>2. \A g \in Elements(open) : g.key = p.key => g = f
    BY <1>2, AtIsThePlace DEF AggregatorTypeOK, Elements
  <2>3. IsIdle(p) <=> p.time - f.last > IdleTimeout
    BY <1>2 DEF IsIdle
  <2> QED
    BY <1>2, <2>1, <2>2, <2>3 DEF State, Expired
<1> QED
  BY <1>1, <1>2

(* Only the packet's own flow is replaced. *)
LEMMA PlacedElements ==
  ASSUME AggregatorTypeOK, Len(added) < MaxPackets, NEW p \in Packets
  PROVE  /\ Updated(p) \in Elements(Placed(p))
         /\ \A g \in Elements(Placed(p)) :
              g = Updated(p) \/ (g \in Elements(open) /\ g.key # p.key)
         /\ \A g \in Elements(open) : g.key # p.key => g \in Elements(Placed(p))
<1>0. open \in Seq(Flows) /\ Len(open) \in Nat /\ DOMAIN open = 1..Len(open)
  BY LenProperties DEF AggregatorTypeOK
<1>1. Updated(p) \in Flows /\ Updated(p).key = p.key
  BY UpdatedProperties
<1>2. Placed(p) \in Seq(Flows) /\ DOMAIN Placed(p) = 1..Len(Placed(p))
  BY PlacedProperties, LenProperties
<1>3. CASE IsOpen(p.key)
  <2>1. At(p.key) \in 1..Len(open) /\ open[At(p.key)].key = p.key
    BY <1>0, <1>3, AtIsThePlace
  <2>2. Placed(p) = [open EXCEPT ![At(p.key)] = Updated(p)]
    BY <1>3 DEF Placed
  <2>3. /\ Len(Placed(p)) = Len(open)
        /\ \A j \in 1..Len(open) : Placed(p)[j] = IF j = At(p.key) THEN Updated(p) ELSE open[j]
    BY <1>0, <1>1, <2>1, <2>2, ExceptSeq
  <2>4. \A i, j \in 1..Len(open) : open[i].key = open[j].key => i = j
    BY <1>0 DEF AggregatorTypeOK
  <2> QED
    BY <1>0, <1>2, <2>1, <2>3, <2>4 DEF Elements
<1>4. CASE ~IsOpen(p.key)
  <2>1. Placed(p) = Append(open, Updated(p))
    BY <1>4 DEF Placed
  <2>2. Elements(Placed(p)) = Elements(open) \cup {Updated(p)}
    BY <1>0, <1>1, <2>1, AppendAddsElement
  <2> QED
    BY <1>4, <2>2 DEF IsOpen, Elements
<1> QED
  BY <1>3, <1>4

(* What an add does to the set of flows: the packet's flow is the only one that is new, *)
(* what it replaces is part of it, and a key that is closed has been cut off now.       *)
LEMMA AddEffect ==
  ASSUME AggregatorTypeOK, NEW p \in Packets, AddKeeps(p) \/ AddEvicts(p)
  PROVE  /\ Len(added) < MaxPackets
         /\ added' \in Seq(Packets) /\ Len(added') = Len(added) + 1
         /\ \A n \in 1..Len(added) : added'[n] = added[n]
         /\ added'[Len(added) + 1] = p
         /\ cuts \subseteq cuts' /\ \A c \in cuts' : c \in cuts \/ c[2] = Len(added) + 1
         /\ Updated(p) \in FlowSet'
         /\ \A g \in FlowSet' : g \in FlowSet \/ g = Updated(p)
         /\ \A g \in FlowSet : g \in FlowSet' \/ g = State(p)
         /\ \A g \in Elements(open') :
              /\ g = Updated(p) \/ (g \in Elements(open) /\ g.key # p.key)
              /\ \A c \in cuts' : c[1] = g.key => c \in cuts
         /\ \A g \in Elements(open) \cup {Updated(p)} :
              (\E h \in Elements(open') : h.key = g.key) \/ <<g.key, Len(added) + 1>> \in cuts'
<1> DEFINE u == Updated(p)
           flows == Placed(p)
           e == emitted \o Expired(p)
           N == Len(added) + 1
<1>1. Len(added) < MaxPackets /\ added' = Append(added, p)
  BY DEF AddKeeps, AddEvicts
<1>2. /\ added' \in Seq(Packets) /\ Len(added') = N
      /\ \A n \in 1..Len(added) : added'[n] = added[n]
      /\ added'[N] = p
  BY <1>1, AppendProperties DEF AggregatorTypeOK
<1>3. u \in Flows /\ u.key = p.key
  BY <1>1, UpdatedProperties
<1>4. /\ u \in Elements(flows)
      /\ \A g \in Elements(flows) : g = u \/ (g \in Elements(open) /\ g.key # p.key)
      /\ \A g \in Elements(open) : g.key # p.key => g \in Elements(flows)
  BY <1>1, PlacedElements
<1>5. /\ flows \in Seq(Flows)
      /\ Len(flows) > 0
      /\ \A i, j \in 1..Len(flows) : flows[i].key = flows[j].key => i = j
  BY <1>1, PlacedProperties
<1>6. e \in Seq(Flows) /\ Elements(e) = Elements(emitted) \cup Elements(Expired(p))
  BY ExpiredProperties, ElementsOfConcat DEF AggregatorTypeOK
<1>7. /\ \A g \in Elements(e) : g \in FlowSet
      /\ \A g \in FlowSet : g \in Elements(e) \/ g \in Elements(flows) \/ g = State(p)
  <2>1. Elements(<<>>) = {} /\ \A f : Elements(<<f>>) = {f}
    BY DEF Elements
  <2> QED
    BY <1>4, <1>6, <2>1, StateCases DEF FlowSet
<1> HIDE DEF u, flows, e
<1>8. CASE AddKeeps(p)
  <2>1. open' = flows /\ emitted' = e /\ cuts' = cuts
    BY <1>8 DEF AddKeeps, flows, e
  <2>2. FlowSet' = Elements(e) \cup Elements(flows)
    BY <2>1 DEF FlowSet, Elements
  <2>3. /\ u \in FlowSet'
        /\ \A g \in FlowSet' : g \in FlowSet \/ g = u
        /\ \A g \in FlowSet : g \in FlowSet' \/ g = State(p)
    BY <1>4, <1>7, <2>2 DEF FlowSet
  <2>4. \A g \in Elements(open) \cup {u} : \E h \in Elements(open') : h.key = g.key
    BY <1>3, <1>4, <2>1
  <2> QED
    BY <1>1, <1>2, <1>4, <2>1, <2>3, <2>4 DEF u
<1>9. CASE AddEvicts(p)
  <2> DEFINE i == Oldest(flows)
  <2>1. /\ open' = Without(flows, i) /\ emitted' = e \o <<flows[i]>>
        /\ cuts' = cuts \cup {<<flows[i].key, N>>}
    BY <1>9 DEF AddEvicts, flows, e
  <2>2. i \in 1..Len(flows)
    BY <1>5, OldestExists
  <2> HIDE DEF i
  <2>3. /\ Elements(flows) = Elements(open') \cup {flows[i]}
        /\ \A g \in Elements(open') : g.key # flows[i].key
    BY <1>5, <2>1, <2>2, ElementsWithout
  <2>4. Elements(emitted') = Elements(e) \cup {flows[i]}
    <3>1. <<flows[i]>> \in Seq(Flows) /\ Elements(<<flows[i]>>) = {flows[i]}
      BY <1>5, <2>2, ElementOfSeq DEF Elements
    <3> QED
      BY <1>6, <2>1, <3>1, ElementsOfConcat
  <2>5. FlowSet' = Elements(e) \cup Elements(flows)
    <3>1. FlowSet' = Elements(emitted') \cup Elements(open')
      BY DEF FlowSet, Elements
    <3> QED
      BY <2>3, <2>4, <3>1
  <2>6. /\ u \in FlowSet'
        /\ \A g \in FlowSet' : g \in FlowSet \/ g = u
        /\ \A g \in FlowSet : g \in FlowSet' \/ g = State(p)
    BY <1>4, <1>7, <2>5 DEF FlowSet
  <2>7. ASSUME NEW g \in Elements(open')
        PROVE  /\ g = u \/ (g \in Elements(open) /\ g.key # p.key)
               /\ \A c \in cuts' : c[1] = g.key => c \in cuts
    BY <1>4, <2>1, <2>3
  <2>8. ASSUME NEW g \in Elements(open) \cup {u}
        PROVE  (\E h \in Elements(open') : h.key = g.key) \/ <<g.key, N>> \in cuts'
    <3>1. PICK h \in Elements(flows) : h.key = g.key
      BY <1>3, <1>4
    <3> QED
      BY <2>1, <2>3, <3>1
  <2>9. \A c \in cuts' : c \in cuts \/ c[2] = N
    BY <2>1
  <2> QED
    BY <1>1, <1>2, <2>1, <2>6, <2>7, <2>8, <2>9 DEF u
<1> QED
  BY <1>8, <1>9

(* A flush keeps the flows, and cuts off every key. *)
LEMMA FlushEffect ==
  ASSUME AggregatorTypeOK, Flush
  PROVE  /\ FlowSet' = FlowSet /\ Elements(open') = {} /\ added' = added
         /\ cuts \subseteq cuts' /\ \A c \in cuts' : c \in cuts \/ c[2] = Len(added)
         /\ \A f \in Elements(open) : <<f.key, Len(added)>> \in cuts'
<1>1. emitted' = emitted \o open /\ open' = <<>> /\ added' = added
      /\ cuts' = cuts \cup {<<open[i].key, Len(added)>> : i \in DOMAIN open}
  BY DEF Flush
<1>2. Elements(open') = {}
  BY <1>1 DEF Elements
<1>3. Elements(emitted') = Elements(emitted) \cup Elements(open)
  BY <1>1, ElementsOfConcat DEF AggregatorTypeOK
<1>4. FlowSet' = Elements(emitted') \cup Elements(open')
  BY DEF FlowSet, Elements
<1>5. FlowSet' = FlowSet
  BY <1>2, <1>3, <1>4 DEF FlowSet
<1> QED
  BY <1>1, <1>2, <1>5 DEF Elements

(* Stamps stay right when a packet comes that is not of the flow. *)
LEMMA StillStamped ==
  ASSUME NEW f, NEW s, NEW t, Stamped(f, s), Len(s) \in Nat, Len(t) \in Nat,
         Len(s) <= Len(t), \A n \in 1..Len(s) : t[n] = s[n]
  PROVE  Stamped(f, t)
<1>1. \A n \in f.packets : n \in 1..Len(t) /\ t[n] = s[n]
  BY DEF Stamped
<1> QED
  BY <1>1 DEF Stamped

(* The flow that takes a packet is stamped with it as well. *)
LEMMA UpdatedStamped ==
  ASSUME AggregatorTypeOK, StampInv, NEW p \in Packets, Len(added) < MaxPackets,
         NEW t, Len(t) = Len(added) + 1, t[Len(added) + 1] = p,
         \A n \in 1..Len(added) : t[n] = added[n]
  PROVE  Stamped(Updated(p), t)
<1> DEFINE N == Len(added) + 1
           u == Updated(p)
           old == State(p)
<1>0. /\ Len(added) \in Nat /\ N \in Nat /\ N \in 1..N /\ N \notin 1..Len(added)
      /\ \A n \in 1..Len(added) : n \in 1..N /\ n < N
      /\ \A n \in 1..N : n \in 1..Len(added) \/ n = N
  BY LenProperties DEF AggregatorTypeOK
<1>1. p.time \in Nat
  BY AggregatorAssumption DEF Packets
<1>2. CASE old = [key |-> p.key, first |-> p.time, last |-> p.time, packets |-> {}]
  <2>1. u.key = p.key /\ u.first = p.time /\ u.last = p.time /\ u.packets = {N}
    BY <1>2 DEF Updated
  <2> HIDE DEF u
  <2>2. \A n \in u.packets : n = N /\ t[n] = p
    BY <2>1
  <2>3. N \in u.packets /\ N <= N /\ N \in 1..Len(t) /\ p.time <= p.time
    BY <1>0, <1>1, <2>1
  <2> HIDE DEF N
  <2> QED
    BY <2>1, <2>2, <2>3 DEF Stamped, u
<1>3. ASSUME NEW f \in Elements(open), f \in Flows, f.key = p.key, old = f
      PROVE  Stamped(Updated(p), t)
  <2>1. Stamped(f, added) /\ f.last \in Nat
    BY <1>3, AggregatorAssumption DEF StampInv, FlowSet, Flows
  <2>2. /\ u.key = p.key /\ u.first = f.first /\ u.packets = f.packets \cup {N}
        /\ u.last = IF p.time > f.last THEN p.time ELSE f.last
    BY <1>3 DEF Updated, Flows
  <2>3. \A n \in f.packets : n \in 1..Len(added) /\ t[n] = added[n] /\ added[n].time \in Nat
    <3>1. \A n \in 1..Len(added) : added[n] \in Packets
      BY ElementOfSeq DEF AggregatorTypeOK
    <3> QED
      BY <2>1, <3>1, AggregatorAssumption DEF Stamped, Packets
  <2> HIDE DEF u, N
  <2>4. u.packets \subseteq 1..Len(t)
    BY <1>0, <2>2, <2>3 DEF N
  <2>5. \A n \in u.packets : t[n].key = u.key /\ t[n].time <= u.last
    BY <1>1, <1>3, <2>1, <2>2, <2>3 DEF Stamped, N
  <2>6. \E n \in u.packets : t[n].time = u.last
    <3>1. CASE p.time > f.last
      BY <2>2, <3>1 DEF N
    <3>2. CASE ~(p.time > f.last)
      BY <2>1, <2>2, <2>3, <3>2 DEF Stamped
    <3> QED
      BY <3>1, <3>2
  <2>7. \E n \in u.packets : t[n].time = u.first /\ \A m \in u.packets : n <= m
    <3>1. PICK n \in f.packets : added[n].time = f.first /\ \A m \in f.packets : n <= m
      BY <2>1 DEF Stamped
    <3>2. n <= N
      BY <1>0, <2>3, <3>1 DEF N
    <3> QED
      BY <2>2, <2>3, <3>1, <3>2
  <2> QED
    BY <2>4, <2>5, <2>6, <2>7 DEF Stamped, u
<1> QED
  BY <1>2, <1>3, StateCases

(* Every step keeps the stamps. *)
LEMMA StampStep ==
  ASSUME AggregatorTypeOK, StampInv, [AggregatorNext]_aggregatorVars
  PROVE  StampInv'
<1>0. Len(added) \in Nat
  BY LenProperties DEF AggregatorTypeOK
<1>1. ASSUME NEW p \in Packets, AddKeeps(p) \/ AddEvicts(p)
      PROVE  StampInv'
  <2>1. /\ Len(added) < MaxPackets
        /\ Len(added') = Len(added) + 1 /\ added'[Len(added) + 1] = p
        /\ \A n \in 1..Len(added) : added'[n] = added[n]
        /\ \A g \in FlowSet' : g \in FlowSet \/ g = Updated(p)
    BY <1>1, AddEffect
  <2>2. Stamped(Updated(p), added')
    BY <2>1, UpdatedStamped
  <2>3. ASSUME NEW g \in FlowSet
        PROVE  Stamped(g, added')
    BY <1>0, <2>1, StillStamped DEF StampInv
  <2>4. \A g \in FlowSet' : Stamped(g, added')
    BY <2>1, <2>2, <2>3
  <2> QED
    BY <2>4 DEF StampInv, Stamped
<1>2. CASE Flush
  <2>1. FlowSet' = FlowSet /\ added' = added
    BY <1>2, FlushEffect
  <2> QED
    BY <2>1 DEF StampInv, Stamped
<1>3. CASE UNCHANGED aggregatorVars
  BY <1>3 DEF aggregatorVars, StampInv, Stamped, FlowSet, Elements
<1> QED
  BY <1>1, <1>2, <1>3 DEF AggregatorNext

(* FlowAggregator.add, _emit: the start of a flow is the time of its first packet to  *)
(* arrive and its end the latest time of its packets, however late they come, for any *)
(* capture, timeout and capacity.                                                     *)
THEOREM StampsFollowPackets == AggregatorSpec => []StampsOfItsPackets
<1>1. AggregatorInit => StampInv
  BY DEF AggregatorInit, StampInv, FlowSet, Elements
<1>2. AggregatorTypeOK /\ StampInv => StampsOfItsPackets
  <2> SUFFICES ASSUME AggregatorTypeOK, StampInv, NEW i \in DOMAIN AllFlows
               PROVE  Stamped(AllFlows[i], added)
    BY DEF StampsOfItsPackets, Stamped
  <2>1. Elements(AllFlows) = FlowSet
    BY ElementsOfConcat DEF AllFlows, FlowSet, AggregatorTypeOK
  <2> QED
    BY <2>1 DEF StampInv, Elements
<1> QED
  BY <1>1, <1>2, StampStep, AggregatorTypeCorrect, PTL DEF AggregatorSpec

\* Packets are added at the end, and a cut that is made is not before the last of them.
Extension ==
  /\ Len(added) \in Nat /\ Len(added') \in Nat /\ Len(added) <= Len(added')
  /\ \A n \in 1..Len(added) : added'[n] = added[n]
  /\ cuts \subseteq cuts' /\ \A c \in cuts' : c[2] \in Nat /\ (c \in cuts \/ c[2] >= Len(added))

(* What burst a packet belongs to depends on what came before it only. *)
LEMMA BeginningsStay ==
  ASSUME Extension, NEW n \in 1..Len(added)
  PROVE  /\ \A m \in 1..n - 1 : CutBetween(m, n)' <=> CutBetween(m, n)
         /\ BeginsBurst(n)' <=> BeginsBurst(n)
<1>0. \A m \in 1..n - 1 : m \in 1..Len(added) /\ added'[m] = added[m]
  BY DEF Extension
<1>1. ASSUME NEW m \in 1..n - 1
      PROVE  CutBetween(m, n)' <=> CutBetween(m, n)
  <2>1. \A c \in cuts' : c[2] < n => c \in cuts
    BY DEF Extension
  <2> QED
    BY <1>0, <2>1 DEF CutBetween, Extension
<1>2. added'[n] = added[n]
  BY DEF Extension
<1> QED
  BY <1>0, <1>1, <1>2 DEF BeginsBurst

LEMMA BurstsStay ==
  ASSUME Extension, NEW n \in 1..Len(added), NEW m \in 1..n - 1
  PROVE  SameBurst(m, n)' <=> SameBurst(m, n)
<1>1. /\ added'[n] = added[n] /\ added'[m] = added[m]
      /\ \A l \in m + 1..n : l \in 1..Len(added) /\ added'[l] = added[l]
  BY DEF Extension
<1>2. \A l \in m + 1..n : BeginsBurst(l)' <=> BeginsBurst(l)
  BY <1>1, BeginningsStay
<1>3. CutBetween(m, n)' <=> CutBetween(m, n)
  BY BeginningsStay
<1> QED
  BY <1>1, <1>2, <1>3 DEF SameBurst

(* An add and a flush extend the history. *)
LEMMA AddExtends ==
  ASSUME AggregatorTypeOK, NEW p \in Packets, AddKeeps(p) \/ AddEvicts(p)
  PROVE  Extension
<1>1. Len(added) \in Nat /\ \A c \in cuts : c[2] \in Nat
  BY LenProperties DEF AggregatorTypeOK
<1> QED
  BY <1>1, AddEffect DEF Extension

LEMMA FlushExtends ==
  ASSUME AggregatorTypeOK, Flush
  PROVE  Extension
<1>1. Len(added) \in Nat /\ \A c \in cuts : c[2] \in Nat
  BY LenProperties DEF AggregatorTypeOK
<1> QED
  BY <1>1, FlushEffect DEF Extension

(* The burst that the new packet belongs to, from the state before it came. *)
LEMMA NewPacket ==
  ASSUME AggregatorTypeOK, CutsSoFar, NEW p \in Packets, AddKeeps(p) \/ AddEvicts(p),
         NEW N, N = Len(added) + 1
  PROVE  /\ \A m \in 1..Len(added) : CutBetween(m, N)' <=> CutOff(m)
         /\ BeginsBurst(N)' <=>
              \A m \in 1..Len(added) : added[m].key = p.key =>
                CutOff(m) \/ p.time - added[m].time > IdleTimeout
         /\ \A m \in 1..Len(added) :
              SameBurst(m, N)' <=>
                added[m].key = p.key /\ InCurrentBurst(m) /\ ~BeginsBurst(N)'
<1>0. /\ Len(added) \in Nat /\ N \in Nat /\ N - 1 = Len(added) /\ \A c \in cuts : c[2] \in Nat
      /\ added'[N] = p /\ \A m \in 1..Len(added) : added'[m] = added[m]
      /\ cuts \subseteq cuts' /\ \A c \in cuts' : c \in cuts \/ c[2] = N
      /\ Extension
  BY LenProperties, AddEffect, AddExtends, SMTT(30) DEF AggregatorTypeOK
<1>1. ASSUME NEW m \in 1..Len(added)
      PROVE  CutBetween(m, N)' <=> CutOff(m)
  <2>1. \A c \in cuts' : c[2] < N <=> c \in cuts
    BY <1>0 DEF CutsSoFar
  <2> QED
    BY <1>0, <2>1 DEF CutBetween, CutOff
<1>2. BeginsBurst(N)' <=>
        \A m \in 1..Len(added) : added[m].key = p.key =>
          CutOff(m) \/ p.time - added[m].time > IdleTimeout
  BY <1>0, <1>1 DEF BeginsBurst
<1>3. ASSUME NEW m \in 1..Len(added)
      PROVE  SameBurst(m, N)' <=>
               added[m].key = p.key /\ InCurrentBurst(m) /\ ~BeginsBurst(N)'
  <2>1. \A l \in m + 1..N : l \in m + 1..Len(added) \/ l = N
    BY <1>0
  <2>2. /\ N \in m + 1..N
        /\ \A l \in m + 1..Len(added) : l \in m + 1..N /\ l \in 1..Len(added)
    BY <1>0
  <2>3. \A l \in m + 1..Len(added) : BeginsBurst(l)' <=> BeginsBurst(l)
    BY <1>0, <2>2, BeginningsStay
  <2> QED
    BY <1>0, <1>1, <2>1, <2>2, <2>3 DEF SameBurst, InCurrentBurst
<1> QED
  BY <1>1, <1>2, <1>3

(* The packet is put in the flow that holds the rest of its burst, and what the flow *)
(* leaves out was cut off or is further back than the timeout.                       *)
LEMMA StateIsBurst ==
  ASSUME AggregatorTypeOK, StampInv, BurstInv,
         NEW p \in Packets, AddKeeps(p) \/ AddEvicts(p),
         NEW N, N = Len(added) + 1, NEW u, u = Updated(p), NEW old, old = State(p)
  PROVE  /\ \A m \in 1..Len(added) : SameBurst(m, N)' <=> m \in old.packets
         /\ \A m \in 1..Len(added) : added[m].key = p.key =>
              m \in old.packets \/ CutOff(m) \/ u.last - added[m].time > IdleTimeout
         /\ u.key = p.key /\ u.packets = old.packets \cup {N}
         /\ old.packets # {} => old \in FlowSet
         /\ old.packets \subseteq 1..Len(added)
<1>0. /\ CutsSoFar /\ p.time \in Nat /\ IdleTimeout \in Nat
      /\ \A m \in 1..Len(added) : added[m].time \in Nat
  <2>1. \A m \in 1..Len(added) : added[m] \in Packets
    BY ElementOfSeq DEF AggregatorTypeOK
  <2> QED
    BY <2>1, AggregatorAssumption DEF BurstInv, Packets
<1>1. u.key = p.key /\ u.packets = old.packets \cup {N}
  BY UpdatedProperties, AddEffect
<1>2. /\ BeginsBurst(N)' <=>
              \A m \in 1..Len(added) : added[m].key = p.key =>
                CutOff(m) \/ p.time - added[m].time > IdleTimeout
      /\ \A m \in 1..Len(added) :
              SameBurst(m, N)' <=>
                added[m].key = p.key /\ InCurrentBurst(m) /\ ~BeginsBurst(N)'
  BY <1>0, NewPacket
<1>3. CASE /\ \A f \in Elements(open) : f.key # p.key
           /\ old = [key |-> p.key, first |-> p.time, last |-> p.time, packets |-> {}]
  <2>1. \A m \in 1..Len(added) : added[m].key = p.key => CutOff(m)
    BY <1>3 DEF BurstInv, ClosedIsCut
  <2> QED
    BY <1>1, <1>2, <1>3, <2>1 DEF InCurrentBurst
<1>4. ASSUME NEW f \in Elements(open), f \in Flows, f.key = p.key
      PROVE  /\ f.last \in Nat /\ Stamped(f, added) /\ OpenIsCurrent(f)
             /\ f \in FlowSet /\ f.packets \subseteq 1..Len(added)
  BY <1>4, AggregatorAssumption DEF Flows, StampInv, BurstInv, FlowSet, Stamped
<1>5. ASSUME NEW f \in Elements(open), f \in Flows, f.key = p.key,
             p.time - f.last > IdleTimeout,
             old = [key |-> p.key, first |-> p.time, last |-> p.time, packets |-> {}]
      PROVE  /\ \A m \in 1..Len(added) : SameBurst(m, N)' <=> m \in old.packets
             /\ \A m \in 1..Len(added) : added[m].key = p.key =>
                  m \in old.packets \/ CutOff(m) \/ u.last - added[m].time > IdleTimeout
             /\ old.packets = {}
  <2>1. u.last = p.time
    BY <1>5 DEF Updated
  <2>2. ASSUME NEW m \in 1..Len(added), added[m].key = p.key
        PROVE  CutOff(m) \/ p.time - added[m].time > IdleTimeout
    <3>1. CASE m \in f.packets
      <4>1. added[m].time <= f.last
        BY <1>4, <1>5, <3>1 DEF Stamped
      <4> QED
        BY <1>0, <1>4, <1>5, <4>1
    <3>2. CASE CutOff(m) \/ f.last - added[m].time > IdleTimeout
      BY <1>0, <1>4, <1>5, <3>2
    <3> QED
      BY <1>4, <1>5, <2>2, <3>1, <3>2 DEF OpenIsCurrent
  <2>3. BeginsBurst(N)'
    BY <1>2, <2>2
  <2> QED
    BY <1>2, <1>5, <2>1, <2>2, <2>3
<1>6. ASSUME NEW f \in Elements(open), f \in Flows, f.key = p.key,
             ~(p.time - f.last > IdleTimeout), old = f
      PROVE  /\ \A m \in 1..Len(added) : SameBurst(m, N)' <=> m \in old.packets
             /\ \A m \in 1..Len(added) : added[m].key = p.key =>
                  m \in old.packets \/ CutOff(m) \/ u.last - added[m].time > IdleTimeout
  <2>1. u.last = IF p.time > f.last THEN p.time ELSE f.last
    BY <1>6 DEF Updated, Flows
  <2>2. ~BeginsBurst(N)'
    <3>1. PICK m \in f.packets : added[m].time = f.last
      BY <1>4, <1>6 DEF Stamped
    <3>2. m \in 1..Len(added) /\ added[m].key = p.key
      BY <1>4, <1>6 DEF Stamped
    <3>3. ~CutOff(m)
      BY <1>4, <1>6, <3>1, <3>2 DEF OpenIsCurrent, InCurrentBurst
    <3> QED
      BY <1>2, <1>6, <3>1, <3>2, <3>3
  <2>3. \A m \in f.packets : added[m].key = p.key
    BY <1>4, <1>6 DEF Stamped
  <2>4. ASSUME NEW m \in 1..Len(added)
        PROVE  SameBurst(m, N)' <=> m \in old.packets
    BY <1>2, <1>4, <1>6, <2>2, <2>3 DEF OpenIsCurrent
  <2>5. ASSUME NEW m \in 1..Len(added), added[m].key = p.key
        PROVE  m \in old.packets \/ CutOff(m) \/ u.last - added[m].time > IdleTimeout
    <3>1. m \in f.packets \/ CutOff(m) \/ f.last - added[m].time > IdleTimeout
      BY <1>4, <1>6, <2>5 DEF OpenIsCurrent
    <3>2. f.last - added[m].time > IdleTimeout => u.last - added[m].time > IdleTimeout
      BY <1>0, <1>4, <1>6, <2>1
    <3> QED
      BY <1>6, <3>1, <3>2
  <2> QED
    BY <2>4, <2>5
<1> QED
  BY <1>1, <1>3, <1>4, <1>5, <1>6, StateCases

(* An add keeps every part of the invariant. *)
LEMMA AddKeepsBursts ==
  ASSUME AggregatorTypeOK, StampInv, BurstInv,
         NEW p \in Packets, AddKeeps(p) \/ AddEvicts(p)
  PROVE  BurstInv'
<1>1. PICK N, u, old : N = Len(added) + 1 /\ u = Updated(p) /\ old = State(p)
  OBVIOUS
<1>2. /\ Len(added) \in Nat /\ N \in Nat /\ N = Len(added) + 1 /\ Len(added') = N
      /\ \A n \in 1..N : n \in 1..Len(added) \/ n = N
      /\ \A n \in 1..Len(added) : n \in 1..N /\ n < N /\ n # N
      /\ N \in 1..N /\ N - 1 = Len(added)
      /\ \A c \in cuts : c[2] \in Nat /\ c[2] <= Len(added)
  BY <1>1, LenProperties, AddEffect, SMTT(30) DEF AggregatorTypeOK, BurstInv, CutsSoFar
<1>3. /\ \A n \in 1..Len(added) : added'[n] = added[n]
      /\ added'[N] = p
      /\ cuts \subseteq cuts' /\ \A c \in cuts' : c \in cuts \/ c[2] = N
      /\ u \in FlowSet'
      /\ \A g \in FlowSet' : g \in FlowSet \/ g = u
      /\ \A g \in FlowSet : g \in FlowSet' \/ g = old
      /\ \A g \in Elements(open') : /\ g = u \/ (g \in Elements(open) /\ g.key # p.key)
                                    /\ \A c \in cuts' : c[1] = g.key => c \in cuts
      /\ \A g \in Elements(open) \cup {u} :
              (\E h \in Elements(open') : h.key = g.key) \/ <<g.key, N>> \in cuts'
  BY <1>1, AddEffect
<1>4. /\ \A m \in 1..Len(added) : SameBurst(m, N)' <=> m \in old.packets
      /\ \A m \in 1..Len(added) : added[m].key = p.key =>
              m \in old.packets \/ CutOff(m) \/ u.last - added[m].time > IdleTimeout
      /\ u.key = p.key /\ u.packets = old.packets \cup {N}
      /\ old.packets # {} => old \in FlowSet
      /\ old.packets \subseteq 1..Len(added)
  BY <1>1, StateIsBurst
<1>5. /\ CutsSoFar /\ PairsInv
      /\ \A f \in Elements(open) : OpenIsCurrent(f)
      /\ \A m \in 1..Len(added) : ClosedIsCut(m)
  BY DEF BurstInv
<1>6. Extension
  BY AddExtends
<1>7. CutsSoFar'
  BY <1>2, <1>3 DEF CutsSoFar
<1>8. PairsInv'
  <2>1. ASSUME NEW n \in 1..Len(added), NEW m \in 1..n - 1
        PROVE  SameBurst(m, n)' <=> Together(m, n)'
    <3>1. SameBurst(m, n)' <=> Together(m, n)
      BY <1>5, <1>6, BurstsStay DEF PairsInv
    <3>2. m # N /\ n # N
      BY <1>2
    <3>3. ASSUME NEW f \in FlowSet, {m, n} \subseteq f.packets
          PROVE  \E g \in FlowSet' : {m, n} \subseteq g.packets
      BY <1>3, <1>4, <3>3
    <3>4. ASSUME NEW g \in FlowSet', {m, n} \subseteq g.packets
          PROVE  \E f \in FlowSet : {m, n} \subseteq f.packets
      BY <1>3, <1>4, <3>2, <3>4
    <3> QED
      BY <3>1, <3>3, <3>4 DEF Together
  <2>2. ASSUME NEW m \in 1..Len(added)
        PROVE  SameBurst(m, N)' <=> Together(m, N)'
    <3>1. \A g \in FlowSet : N \notin g.packets
      BY <1>2 DEF StampInv, Stamped
    <3>2. m # N
      BY <1>2
    <3>3. Together(m, N)' <=> m \in old.packets
      BY <1>3, <1>4, <3>1, <3>2 DEF Together
    <3> QED
      BY <1>4, <3>3
  <2> QED
    BY <1>2, <2>1, <2>2 DEF PairsInv
<1>9. ASSUME NEW m \in 1..Len(added), \A c \in cuts' : c[1] = added[m].key => c \in cuts
      PROVE  CutOff(m)' <=> CutOff(m)
  BY <1>3, <1>9 DEF CutOff
<1>10. \A l \in 1..Len(added) : BeginsBurst(l)' <=> BeginsBurst(l)
  BY <1>6, BeginningsStay
<1>11. ASSUME NEW g \in Elements(open), g.key # p.key,
              \A c \in cuts' : c[1] = g.key => c \in cuts
       PROVE  OpenIsCurrent(g)'
  <2> SUFFICES ASSUME NEW m \in 1..N, added'[m].key = g.key
               PROVE  /\ m \in g.packets <=> InCurrentBurst(m)'
                      /\ m \in g.packets \/ CutOff(m)' \/ g.last - added'[m].time > IdleTimeout
    BY <1>2 DEF OpenIsCurrent
  <2>1. m \in 1..Len(added) /\ added'[m] = added[m]
    BY <1>2, <1>3, <1>11
  <2>2. CutOff(m)' <=> CutOff(m)
    BY <1>9, <1>11, <2>1
  <2>3. InCurrentBurst(m)' <=> InCurrentBurst(m)
    <3>1. /\ \A l \in m + 1..N : l \in m + 1..Len(added) \/ l = N
          /\ \A l \in m + 1..Len(added) : l \in m + 1..N /\ l \in 1..Len(added)
      BY <1>2, <2>1
    <3> QED
      BY <1>2, <1>3, <1>10, <1>11, <2>1, <2>2, <3>1 DEF InCurrentBurst
  <2> QED
    BY <1>5, <1>11, <2>1, <2>2, <2>3 DEF OpenIsCurrent
<1>12. ASSUME \A c \in cuts' : c[1] = p.key => c \in cuts
       PROVE  OpenIsCurrent(u)'
  <2> SUFFICES ASSUME NEW m \in 1..N, added'[m].key = p.key
               PROVE  /\ m \in u.packets <=> InCurrentBurst(m)'
                      /\ m \in u.packets \/ CutOff(m)' \/ u.last - added'[m].time > IdleTimeout
    BY <1>2, <1>4 DEF OpenIsCurrent
  <2>1. CASE m = N
    <3>1. ~CutOff(N)'
      BY <1>2, <1>3, <1>12 DEF CutOff
    <3>2. \A l \in N + 1..N : FALSE
      BY <1>2
    <3> QED
      BY <1>2, <1>4, <2>1, <3>1, <3>2 DEF InCurrentBurst
  <2>2. CASE m \in 1..Len(added)
    <3>1. added'[m] = added[m] /\ m # N
      BY <1>2, <1>3, <2>2
    <3>2. CutOff(m)' <=> CutOff(m)
      BY <1>9, <1>12, <2>2, <3>1
    <3>3. InCurrentBurst(m)' <=> InCurrentBurst(m) /\ ~BeginsBurst(N)'
      <4>1. /\ \A l \in m + 1..N : l \in m + 1..Len(added) \/ l = N
            /\ \A l \in m + 1..Len(added) : l \in m + 1..N /\ l \in 1..Len(added)
            /\ N \in m + 1..N
        BY <1>2, <2>2
      <4> QED
        BY <1>2, <1>3, <1>10, <3>1, <3>2, <4>1 DEF InCurrentBurst
    <3>4. SameBurst(m, N)' <=> InCurrentBurst(m) /\ ~BeginsBurst(N)'
      BY <1>2, <1>5, <2>2, <3>1, NewPacket
    <3> QED
      BY <1>4, <2>2, <3>1, <3>2, <3>3, <3>4
  <2> QED
    BY <1>2, <2>1, <2>2
<1>13. \A f \in Elements(open') : OpenIsCurrent(f)'
  BY <1>3, <1>4, <1>11, <1>12
<1>14. ASSUME NEW m \in 1..N
       PROVE  ClosedIsCut(m)'
  <2>1. CASE m = N
    <3>1. (\E h \in Elements(open') : h.key = p.key) \/ <<p.key, N>> \in cuts'
      BY <1>3, <1>4
    <3>2. <<p.key, N>>[1] = p.key /\ <<p.key, N>>[2] = N /\ N <= N
      BY <1>2
    <3> QED
      BY <1>3, <2>1, <3>1, <3>2 DEF ClosedIsCut, CutOff, Elements
  <2>2. CASE m \in 1..Len(added)
    <3>1. added'[m] = added[m] /\ m <= N
      BY <1>2, <1>3, <2>2
    <3>2. CASE CutOff(m)
      BY <1>3, <3>1, <3>2 DEF ClosedIsCut, CutOff
    <3>3. ASSUME NEW f \in Elements(open), f.key = added[m].key
          PROVE  ClosedIsCut(m)'
      <4>1. (\E h \in Elements(open') : h.key = f.key) \/ <<f.key, N>> \in cuts'
        BY <1>3, <3>3
      <4>2. <<f.key, N>>[1] = f.key /\ <<f.key, N>>[2] = N
        OBVIOUS
      <4> QED
        BY <3>1, <3>3, <4>1, <4>2 DEF ClosedIsCut, CutOff, Elements
    <3> QED
      BY <1>5, <2>2, <3>2, <3>3 DEF ClosedIsCut
  <2> QED
    BY <1>2, <2>1, <2>2
<1>15. \A f \in Elements(open)' : OpenIsCurrent(f)'
  BY <1>13 DEF Elements
<1> QED
  BY <1>2, <1>7, <1>8, <1>14, <1>15 DEF BurstInv

(* A flush begins a new burst of every key. *)
LEMMA FlushKeepsBursts ==
  ASSUME AggregatorTypeOK, BurstInv, Flush
  PROVE  BurstInv'
<1>1. /\ FlowSet' = FlowSet /\ Elements(open') = {} /\ added' = added
      /\ cuts \subseteq cuts' /\ \A c \in cuts' : c \in cuts \/ c[2] = Len(added)
      /\ \A f \in Elements(open) : <<f.key, Len(added)>> \in cuts'
  BY FlushEffect
<1>2. Len(added) \in Nat /\ Extension
  BY FlushExtends DEF Extension
<1>3. CutsSoFar'
  BY <1>1, <1>2 DEF BurstInv, CutsSoFar
<1>4. PairsInv'
  <2>1. ASSUME NEW n \in 1..Len(added), NEW m \in 1..n - 1
        PROVE  SameBurst(m, n)' <=> Together(m, n)'
    <3>1. SameBurst(m, n)' <=> Together(m, n)
      BY <1>2, BurstsStay DEF BurstInv, PairsInv
    <3> QED
      BY <1>1, <3>1 DEF Together
  <2> QED
    BY <1>1, <2>1 DEF PairsInv
<1>5. ASSUME NEW m \in 1..Len(added)
      PROVE  ClosedIsCut(m)'
  <2>1. CASE CutOff(m)
    BY <1>1, <2>1 DEF ClosedIsCut, CutOff
  <2>2. ASSUME NEW f \in Elements(open), f.key = added[m].key
        PROVE  ClosedIsCut(m)'
    <3>1. <<f.key, Len(added)>> \in cuts' /\ m <= Len(added)
      BY <1>1, <1>2, <2>2
    <3>2. <<f.key, Len(added)>>[1] = f.key /\ <<f.key, Len(added)>>[2] = Len(added)
      OBVIOUS
    <3> QED
      BY <1>1, <2>2, <3>1, <3>2 DEF ClosedIsCut, CutOff
  <2> QED
    BY <2>1, <2>2 DEF BurstInv, ClosedIsCut
<1>6. Elements(open)' = {}
  BY <1>1 DEF Elements
<1> QED
  BY <1>1, <1>3, <1>4, <1>5, <1>6 DEF BurstInv

(* Every step keeps the bursts apart. *)
LEMMA BurstStep ==
  ASSUME AggregatorTypeOK, StampInv, BurstInv, [AggregatorNext]_aggregatorVars
  PROVE  BurstInv'
<1>1. CASE UNCHANGED aggregatorVars
  BY <1>1 DEF aggregatorVars, BurstInv, CutsSoFar, PairsInv, OpenIsCurrent, ClosedIsCut,
              InCurrentBurst, CutOff, Together, SameBurst, BeginsBurst, CutBetween, FlowSet, Elements
<1> QED
  BY <1>1, AddKeepsBursts, FlushKeepsBursts DEF AggregatorNext

(* FlowAggregator.add, flush: the flows are the bursts of each 5-tuple, as defined from *)
(* the timestamps alone and the early emissions: two packets are in one flow exactly if *)
(* neither a silence longer than the timeout nor an eviction or a flush is between them.*)
THEOREM FlowsAreTheBursts == AggregatorSpec => []FlowsAreBursts
<1>1. AggregatorInit => StampInv /\ BurstInv
  BY DEF AggregatorInit, StampInv, BurstInv, CutsSoFar, PairsInv, FlowSet, Elements
<1>2. AggregatorTypeOK /\ BurstInv => FlowsAreBursts
  <2> SUFFICES ASSUME AggregatorTypeOK, BurstInv, NEW n \in DOMAIN added, NEW m \in 1..n - 1
               PROVE  SameBurst(m, n) <=>
                        \E i \in DOMAIN AllFlows : {m, n} \subseteq AllFlows[i].packets
    BY DEF FlowsAreBursts
  <2>1. Elements(AllFlows) = FlowSet
    BY ElementsOfConcat DEF AllFlows, FlowSet, AggregatorTypeOK
  <2>2. Together(m, n) <=> \E i \in DOMAIN AllFlows : {m, n} \subseteq AllFlows[i].packets
    BY <2>1 DEF Together, Elements
  <2>3. n \in 1..Len(added)
    BY LenProperties DEF AggregatorTypeOK
  <2> QED
    BY <2>2, <2>3 DEF BurstInv, PairsInv
<1>3. AggregatorTypeOK /\ StampInv /\ BurstInv /\ [AggregatorNext]_aggregatorVars
        => StampInv' /\ BurstInv'
  BY StampStep, BurstStep
<1> QED
  BY <1>1, <1>2, <1>3, AggregatorTypeCorrect, PTL DEF AggregatorSpec

===============================================================================
