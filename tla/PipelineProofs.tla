---------------------------- MODULE PipelineProofs ----------------------------
(***************************************************************************)
(* Proofs about WindowStore and about Pipeline, which contains it, for     *)
(* every set of hosts and flows, every window and every capacity, and      *)
(* whatever the stages raise.                                              *)
(*                                                                         *)
(* Both outcomes of add() are instances of one fact: each bucket, after    *)
(* the append, loses some of its oldest elements, each of them stale for   *)
(* the added event or in surplus (Shortens).  The shape, the capacity and  *)
(* what may be dropped follow from that fact alone; that nothing outdated  *)
(* is left also needs where a sweep stops (SweptFresh).                    *)
(*                                                                         *)
(* The inductive invariant of the pipeline has one part per property: the  *)
(* types; the counters and what they leave open for a host without a       *)
(* baseline; the alerts; what lastOf describes; and the correspondence     *)
(* between the calls of the session and the arrivals that the window store *)
(* has seen.                                                               *)
(***************************************************************************)
EXTENDS Pipeline, BoundedSeqProofs

\* Bucket c is bucket b without some of its oldest elements, and each one that
\* is missing was stale for now or had MaxEventsPerKey newer ones behind it.
ShortensBy(b, c, now, k) ==
  /\ c \in Seq(Flow)
  /\ Len(c) = Len(b) - k
  /\ \A i \in 1..Len(c) : c[i] = b[k + i]
  /\ \A i \in 1..k : Stale(b[i], now) \/ Len(b) - i >= MaxEventsPerKey

Shortens(b, c, now) == \E k \in 0..Len(b) : ShortensBy(b, c, now, k)

-------------------------------------------------------------------------------
(* The sweep *)

(* The number of heads a sweep pops is well defined. *)
LEMMA PoppedProperties ==
  ASSUME NEW b \in Seq(Flow), NEW now \in Flow
  PROVE  /\ Popped(b, now) \in 0..Len(b)
         /\ \A i \in 1..Popped(b, now) : Stale(b[i], now)
         /\ Popped(b, now) < Len(b) => ~Stale(b[Popped(b, now) + 1], now)
<1> DEFINE Stops == {n \in 0..Len(b) : n < Len(b) => ~Stale(b[n + 1], now)}
           IsCut(n) == /\ \A i \in 1..n : Stale(b[i], now)
                       /\ n < Len(b) => ~Stale(b[n + 1], now)
<1>0. Len(b) \in Nat
  BY LenProperties
<1>1. Len(b) \in Stops
  BY <1>0
<1>2. PICK n \in Stops : \A m \in Stops : n <= m
  <2>1. Stops \in SUBSET Nat /\ Stops # {}
    BY <1>0, <1>1
  <2> HIDE DEF Stops
  <2> QED
    BY <2>1, LeastNat
<1>3. ASSUME NEW i \in 1..n
      PROVE  Stale(b[i], now)
  <2>1. i - 1 \in 0..Len(b) /\ i - 1 < n /\ i - 1 < Len(b) /\ (i - 1) + 1 = i
    BY <1>0, <1>2, <1>3
  <2>2. i - 1 \notin Stops
    BY <1>2, <2>1
  <2> QED
    BY <2>1, <2>2
<1>4. n \in 0..Len(b) /\ IsCut(n)
  BY <1>2, <1>3
<1>5. \E m \in 0..Len(b) : IsCut(m)
  BY <1>4
<1>6. Popped(b, now) = CHOOSE m \in 0..Len(b) : IsCut(m)
  BY DEF Popped
<1>7. Popped(b, now) \in 0..Len(b) /\ IsCut(Popped(b, now))
  <2> HIDE DEF IsCut
  <2> QED
    BY <1>5, <1>6
<1> QED
  BY <1>7

(* A sweep removes only stale heads. *)
LEMMA SweptShortens ==
  ASSUME NEW b \in Seq(Flow), NEW now \in Flow
  PROVE  ShortensBy(b, Swept(b, now), now, Popped(b, now))
<1>1. /\ Popped(b, now) \in 0..Len(b)
      /\ \A i \in 1..Popped(b, now) : Stale(b[i], now)
  BY PoppedProperties
<1>2. /\ Swept(b, now) \in Seq(Flow)
      /\ Len(Swept(b, now)) = Len(b) - Popped(b, now)
      /\ \A i \in 1..(Len(b) - Popped(b, now)) : Swept(b, now)[i] = b[Popped(b, now) + i]
  BY <1>1, DropFirst DEF Swept
<1> QED
  BY <1>1, <1>2 DEF ShortensBy

(* A sweep raises only at a head of the other kind. *)
LEMMA RaisesMeetsOtherKind ==
  ASSUME NEW b \in Seq(Flow), NEW now \in Flow, SweepRaises(b, now)
  PROVE  \E i \in 1..Len(b) : b[i].aware # now.aware
<1>1. Popped(b, now) \in 0..Len(b)
  BY PoppedProperties
<1>2. ShortensBy(b, Swept(b, now), now, Popped(b, now))
  BY SweptShortens
<1>3. Swept(b, now) # <<>> /\ Swept(b, now)[1].aware # now.aware
  BY DEF SweepRaises
<1>4. Len(b) \in Nat /\ Len(Swept(b, now)) \in Nat \ {0}
  BY <1>2, <1>3, LenProperties, EmptySeq DEF ShortensBy
<1>5. Swept(b, now)[1] = b[Popped(b, now) + 1] /\ Popped(b, now) + 1 \in 1..Len(b)
  BY <1>1, <1>2, <1>4 DEF ShortensBy
<1> QED
  BY <1>3, <1>5

(* Trimming a bucket that was swept removes surplus elements only. *)
LEMMA TrimmedShortens ==
  ASSUME NEW b \in Seq(Flow), NEW now \in Flow
  PROVE  /\ Shortens(b, Recent(Swept(b, now), MaxEventsPerKey), now)
         /\ Len(Recent(Swept(b, now), MaxEventsPerKey)) <= MaxEventsPerKey
<1> DEFINE s == Swept(b, now)
           p == Popped(b, now)
           c == Recent(s, MaxEventsPerKey)
<1>1. p \in 0..Len(b) /\ ShortensBy(b, s, now, p)
  BY PoppedProperties, SweptShortens
<1>2. s \in Seq(Flow) /\ Len(s) = Len(b) - p /\ Len(b) \in Nat
  BY <1>1, LenProperties DEF ShortensBy
<1>3. MaxEventsPerKey \in Nat
  BY WindowAssumption
<1>4. PICK k \in 0..Len(s) :
        /\ c \in Seq(Flow)
        /\ Len(c) = Len(s) - k
        /\ Len(c) <= MaxEventsPerKey
        /\ \A i \in 1..(Len(s) - k) : c[i] = s[k + i]
        /\ k > 0 => Len(s) - k = MaxEventsPerKey
  <2> HIDE DEF s
  <2> QED
    BY <1>2, <1>3, RecentProperties
<1>5. p + k \in 0..Len(b) /\ Len(c) = Len(b) - (p + k)
  BY <1>1, <1>2, <1>4
<1>6. ASSUME NEW i \in 1..Len(c)
      PROVE  c[i] = b[(p + k) + i]
  <2>1. c[i] = s[k + i] /\ k + i \in 1..Len(s)
    BY <1>2, <1>4, <1>6, <1>1
  <2>2. s[k + i] = b[p + (k + i)]
    BY <1>1, <2>1 DEF ShortensBy
  <2>3. p + (k + i) = (p + k) + i
    BY <1>1, <1>4, <1>6
  <2> QED
    BY <2>1, <2>2, <2>3
<1>7. ASSUME NEW i \in 1..(p + k)
      PROVE  Stale(b[i], now) \/ Len(b) - i >= MaxEventsPerKey
  <2>1. CASE i <= p
    BY <1>1, <2>1 DEF ShortensBy
  <2>2. CASE ~(i <= p)
    BY <1>1, <1>2, <1>3, <1>4, <2>2
  <2> QED
    BY <2>1, <2>2
<1>8. ShortensBy(b, c, now, p + k)
  <2> HIDE DEF c, p
  <2> QED
    BY <1>4, <1>5, <1>6, <1>7 DEF ShortensBy
<1> QED
  BY <1>4, <1>5, <1>8 DEF Shortens

(* A bucket that the sweep did not reach loses nothing. *)
LEMMA UnchangedShortens ==
  ASSUME NEW b \in Seq(Flow), NEW now \in Flow
  PROVE  Shortens(b, b, now)
<1>1. ShortensBy(b, b, now, 0)
  BY LenProperties DEF ShortensBy
<1> QED
  BY <1>1, LenProperties DEF Shortens

-------------------------------------------------------------------------------
(* One add *)

(* Appending an event keeps every bucket a sequence of flows. *)
LEMMA AppendedProperties ==
  ASSUME WindowTypeOK, NEW f \in Flow, NEW h \in Hosts
  PROVE  /\ f.src \in Hosts
         /\ Appended(f)[h] = IF h = f.src THEN Append(events[h], f) ELSE events[h]
         /\ Appended(f)[h] \in Seq(Flow)
<1>1. f.src \in Hosts
  BY FlowAssumption
<1>2. events[h] \in Seq(Flow)
  BY DEF WindowTypeOK
<1>3. Append(events[h], f) \in Seq(Flow)
  BY <1>2, AppendElements
<1>4. Appended(f)[h] = IF h = f.src THEN Append(events[h], f) ELSE events[h]
  BY <1>1 DEF Appended, WindowTypeOK
<1> QED
  BY <1>1, <1>2, <1>3, <1>4

(* Whether it returns or raises, an add only shortens the appended buckets. *)
LEMMA AddShortens ==
  ASSUME WindowTypeOK, NEW f \in Flow, AddReturns(f) \/ AddRaises(f)
  PROVE  /\ events' \in [Hosts -> Seq(Flow)]
         /\ \A h \in Hosts : Shortens(Appended(f)[h], events'[h], f)
<1>1. ASSUME NEW h \in Hosts
      PROVE  Shortens(Appended(f)[h], events'[h], f)
  <2>1. /\ Appended(f)[h] \in Seq(Flow)
        /\ h # f.src => Appended(f)[h] = events[h]
    BY AppendedProperties
  <2>2. Shortens(Appended(f)[h], Swept(Appended(f)[h], f), f)
    BY <2>1, SweptShortens, PoppedProperties DEF Shortens
  <2>3. CASE AddReturns(f)
    <3>1. CASE h = f.src
      <4>1. events'[h] = Recent(Swept(Appended(f)[h], f), MaxEventsPerKey)
        BY <2>3, <3>1 DEF AddReturns
      <4> QED
        BY <2>1, <4>1, TrimmedShortens
    <3>2. CASE h # f.src
      <4>1. events'[h] = Swept(Appended(f)[h], f)
        BY <2>1, <2>3, <3>2 DEF AddReturns
      <4> QED
        BY <2>2, <4>1
    <3> QED
      BY <3>1, <3>2
  <2>4. CASE AddRaises(f)
    <3>1. \/ events'[h] = Swept(Appended(f)[h], f)
          \/ events'[h] = Appended(f)[h]
      BY <2>4 DEF AddRaises
    <3> QED
      BY <2>1, <2>2, <3>1, UnchangedShortens
  <2> QED
    BY <2>3, <2>4
<1>2. \A h \in Hosts : events'[h] \in Seq(Flow)
  BY <1>1 DEF Shortens, ShortensBy
<1>3. events' = [h \in Hosts |-> events'[h]]
  BY DEF AddReturns, AddRaises
<1> QED
  BY <1>1, <1>2, <1>3

(* The dict gains the host of the event at its end, once. *)
LEMMA KeysWithProperties ==
  ASSUME WindowTypeOK, NEW h \in Hosts
  PROVE  /\ KeysWith(h) \in Seq(Hosts)
         /\ h \in Elements(KeysWith(h))
         /\ Elements(keys) \subseteq Elements(KeysWith(h))
         /\ \A i, j \in DOMAIN KeysWith(h) : KeysWith(h)[i] = KeysWith(h)[j] => i = j
<1>1. /\ keys \in Seq(Hosts)
      /\ \A i, j \in DOMAIN keys : keys[i] = keys[j] => i = j
  BY DEF WindowTypeOK
<1>2. CASE h \in Elements(keys)
  BY <1>1, <1>2 DEF KeysWith
<1>3. CASE h \notin Elements(keys)
  <2>1. KeysWith(h) = Append(keys, h)
    BY <1>3 DEF KeysWith
  <2>2. /\ Append(keys, h) \in Seq(Hosts)
        /\ Len(Append(keys, h)) = Len(keys) + 1
        /\ \A i \in 1..Len(keys) : Append(keys, h)[i] = keys[i]
        /\ Append(keys, h)[Len(keys) + 1] = h
    BY <1>1, AppendElements
  <2>3. /\ Len(keys) \in Nat
        /\ DOMAIN keys = 1..Len(keys)
        /\ DOMAIN Append(keys, h) = 1..(Len(keys) + 1)
    BY <1>1, <2>2, LenProperties
  <2>4. \A i \in 1..Len(keys) : keys[i] # h
    BY <1>3, <2>3 DEF Elements
  <2>5. h \in Elements(Append(keys, h))
    BY <2>2, <2>3 DEF Elements
  <2>6. Elements(keys) \subseteq Elements(Append(keys, h))
    BY <2>2, <2>3 DEF Elements
  <2>7. ASSUME NEW i \in 1..(Len(keys) + 1), NEW j \in 1..(Len(keys) + 1),
               Append(keys, h)[i] = Append(keys, h)[j]
        PROVE  i = j
    <3>1. CASE i \in 1..Len(keys) /\ j \in 1..Len(keys)
      BY <1>1, <2>2, <2>3, <2>7, <3>1
    <3>2. CASE i = Len(keys) + 1 \/ j = Len(keys) + 1
      BY <2>2, <2>3, <2>4, <2>7, <3>2
    <3> QED
      BY <2>3, <2>7, <3>1, <3>2
  <2> QED
    BY <2>1, <2>2, <2>3, <2>5, <2>6, <2>7
<1> QED
  BY <1>2, <1>3

-------------------------------------------------------------------------------
(* The invariants *)

(* An add, returned or raised, keeps the shape of the store. *)
LEMMA AddKeepsWindowType ==
  ASSUME WindowTypeOK, NEW f \in Flow, AddReturns(f) \/ AddRaises(f)
  PROVE  WindowTypeOK'
<1>1. f.src \in Hosts
  BY FlowAssumption
<1>2. /\ keys' = KeysWith(f.src)
      /\ arrived' = [arrived EXCEPT ![f.src] = Append(@, f)]
  BY DEF AddReturns, AddRaises, Arrive
<1>3. /\ keys' \in Seq(Hosts)
      /\ \A i, j \in DOMAIN keys' : keys'[i] = keys'[j] => i = j
  BY <1>1, <1>2, KeysWithProperties
<1>4. events' \in [Hosts -> Seq(Flow)]
  BY AddShortens
<1>5. arrived' \in [Hosts -> Seq(Flow)]
  BY <1>1, <1>2, AppendElements DEF WindowTypeOK
<1>6. overdue' \in [Hosts -> Nat]
  <2>1. \/ overdue' = [overdue EXCEPT ![f.src] = 0]
        \/ overdue' = [overdue EXCEPT ![f.src] = @ + 1]
    BY DEF AddReturns, AddRaises
  <2>2. overdue \in [Hosts -> Nat]
    BY DEF WindowTypeOK
  <2> QED
    BY <2>1, <2>2
<1>7. last' \in {<<>>} \cup {<<g>> : g \in Flow}
  BY DEF AddReturns, AddRaises
<1>8. ASSUME NEW h \in Hosts, events'[h] # <<>>
      PROVE  h \in Elements(keys')
  <2>1. CASE h = f.src
    BY <1>1, <1>2, <2>1, KeysWithProperties
  <2>2. CASE h # f.src
    <3>1. Appended(f)[h] = events[h] /\ events[h] \in Seq(Flow)
      BY <2>2, AppendedProperties DEF WindowTypeOK
    <3>2. PICK k \in 0..Len(events[h]) :
            ShortensBy(events[h], events'[h], f, k)
      BY <3>1, AddShortens DEF Shortens
    <3>3. Len(events'[h]) \in Nat \ {0}
      BY <1>4, <1>8, EmptySeq
    <3>4. events[h] # <<>>
      BY <3>1, <3>2, <3>3, EmptySeq, LenProperties DEF ShortensBy
    <3>5. h \in Elements(keys)
      BY <3>4 DEF WindowTypeOK
    <3> QED
      BY <1>1, <1>2, <3>5, KeysWithProperties
  <2> QED
    BY <2>1, <2>2
<1> QED
  BY <1>3, <1>4, <1>5, <1>6, <1>7, <1>8 DEF WindowTypeOK

(* The store and its histories keep their shape on every path. *)
THEOREM WindowTypeCorrect == WindowSpec => []WindowTypeOK
<1>1. WindowInit => WindowTypeOK
  BY EmptySeq DEF WindowInit, WindowTypeOK, EmptyStore, Elements
<1>2. WindowTypeOK /\ [WindowNext]_windowVars => WindowTypeOK'
  <2> SUFFICES ASSUME WindowTypeOK, [WindowNext]_windowVars
               PROVE  WindowTypeOK'
    OBVIOUS
  <2>1. CASE UNCHANGED windowVars
    BY <2>1 DEF windowVars, WindowTypeOK, Elements
  <2>2. CASE WindowNext
    BY <2>2, AddKeepsWindowType DEF WindowNext
  <2> QED
    BY <2>1, <2>2
<1> QED
  BY <1>1, <1>2, PTL DEF WindowSpec

(* The capacity holds up to the adds that raised, whatever arrives: the trim  *)
(* at the end of add() makes up for every trim an earlier TypeError skipped.  *)
THEOREM CapacityUpToRaises == WindowSpec => []BoundedUpToRaises
<1>1. WindowInit => BoundedUpToRaises
  BY WindowAssumption, EmptySeq DEF WindowInit, BoundedUpToRaises, EmptyStore
<1>2. WindowTypeOK /\ BoundedUpToRaises /\ [WindowNext]_windowVars
        => BoundedUpToRaises'
  <2> SUFFICES ASSUME WindowTypeOK, BoundedUpToRaises, [WindowNext]_windowVars,
                      NEW h \in Hosts
               PROVE  Len(events'[h]) <= MaxEventsPerKey + overdue'[h]
    BY DEF BoundedUpToRaises
  <2>0. /\ Len(events[h]) <= MaxEventsPerKey + overdue[h]
        /\ MaxEventsPerKey \in Nat
        /\ overdue \in [Hosts -> Nat]
        /\ events[h] \in Seq(Flow)
        /\ Len(events[h]) \in Nat
    BY WindowAssumption, LenProperties DEF BoundedUpToRaises, WindowTypeOK
  <2>1. CASE UNCHANGED windowVars
    BY <2>0, <2>1 DEF windowVars
  <2>2. ASSUME NEW f \in Flow, AddReturns(f) \/ AddRaises(f)
        PROVE  Len(events'[h]) <= MaxEventsPerKey + overdue'[h]
    <3>1. /\ f.src \in Hosts
          /\ Appended(f)[h] = IF h = f.src THEN Append(events[h], f) ELSE events[h]
          /\ Appended(f)[h] \in Seq(Flow)
      BY AppendedProperties
    <3>2. Len(events'[h]) <= Len(Appended(f)[h]) /\ Len(events'[h]) \in Nat
      <4>1. Shortens(Appended(f)[h], events'[h], f)
        BY <2>2, AddShortens
      <4>2. PICK k \in 0..Len(Appended(f)[h]) :
              ShortensBy(Appended(f)[h], events'[h], f, k)
        BY <4>1 DEF Shortens
      <4>3. /\ events'[h] \in Seq(Flow)
            /\ Len(events'[h]) = Len(Appended(f)[h]) - k
        BY <4>2 DEF ShortensBy
      <4>4. Len(Appended(f)[h]) \in Nat /\ Len(events'[h]) \in Nat
        BY <3>1, <4>3, LenProperties
      <4> QED
        BY <4>3, <4>4
    <3>3. CASE h # f.src
      <4>1. overdue'[h] = overdue[h]
        BY <2>2, <2>0, <3>3 DEF AddReturns, AddRaises
      <4> QED
        BY <2>0, <3>1, <3>2, <3>3, <4>1
    <3>4. CASE h = f.src /\ AddReturns(f)
      <4>1. events'[h] = Recent(Swept(Appended(f)[h], f), MaxEventsPerKey)
        BY <3>4 DEF AddReturns
      <4>2. overdue'[h] = 0
        BY <2>0, <3>1, <3>4 DEF AddReturns
      <4>3. Len(events'[h]) <= MaxEventsPerKey
        BY <3>1, <4>1, TrimmedShortens
      <4> QED
        BY <2>0, <4>2, <4>3
    <3>5. CASE h = f.src /\ AddRaises(f)
      <4>1. overdue'[h] = overdue[h] + 1
        BY <2>0, <3>1, <3>5 DEF AddRaises
      <4>2. Len(Appended(f)[h]) = Len(events[h]) + 1
        BY <2>0, <3>1, <3>5, AppendElements
      <4> QED
        BY <2>0, <3>2, <4>1, <4>2
    <3> QED
      BY <2>2, <3>3, <3>4, <3>5
  <2> QED
    BY <2>1, <2>2 DEF WindowNext
<1> QED
  BY <1>1, <1>2, WindowTypeCorrect, PTL DEF WindowSpec

-------------------------------------------------------------------------------
(* What an add may drop *)

\* Bucket b is the tail of the arrivals a.
TailOf(b, a) ==
  /\ Len(b) <= Len(a)
  /\ \A i \in 1..Len(b) : b[i] = a[(Len(a) - Len(b)) + i]

\* The i-th of the arrivals a of some host may be missing from its bucket.
MayDrop(a, i) ==
  \/ Len(a) - i >= MaxEventsPerKey
  \/ \E g \in Hosts : \E now \in Elements(arrived[g]) : Outdated(a[i], now)

DropInv ==
  \A h \in Hosts :
    /\ TailOf(events[h], arrived[h])
    /\ \A i \in 1..(Len(arrived[h]) - Len(events[h])) : MayDrop(arrived[h], i)

(* An arrival stays known: the history of a host only grows at its end. *)
LEMMA ArrivalsGrow ==
  ASSUME WindowTypeOK, NEW f \in Flow, Arrive(f), NEW h \in Hosts
  PROVE  /\ arrived'[h] = IF h = f.src THEN Append(arrived[h], f) ELSE arrived[h]
         /\ arrived'[h] \in Seq(Flow)
         /\ \/ Len(arrived'[h]) = Len(arrived[h])
            \/ Len(arrived'[h]) = Len(arrived[h]) + 1
         /\ \A i \in 1..Len(arrived[h]) : arrived'[h][i] = arrived[h][i]
         /\ Elements(arrived[h]) \subseteq Elements(arrived'[h])
         /\ f \in Elements(arrived'[f.src])
<1>1. f.src \in Hosts
  BY FlowAssumption
<1>2. arrived \in [Hosts -> Seq(Flow)]
  BY DEF WindowTypeOK
<1>3. \A g \in Hosts :
        arrived'[g] = IF g = f.src THEN Append(arrived[g], f) ELSE arrived[g]
  BY <1>1, <1>2 DEF Arrive
<1>4. \A g \in Hosts :
        /\ arrived[g] \in Seq(Flow)
        /\ Append(arrived[g], f) \in Seq(Flow)
        /\ Len(Append(arrived[g], f)) = Len(arrived[g]) + 1
        /\ \A i \in 1..Len(arrived[g]) : Append(arrived[g], f)[i] = arrived[g][i]
        /\ Append(arrived[g], f)[Len(arrived[g]) + 1] = f
        /\ Len(arrived[g]) \in Nat
        /\ DOMAIN arrived[g] = 1..Len(arrived[g])
        /\ DOMAIN Append(arrived[g], f) = 1..(Len(arrived[g]) + 1)
  <2>1. \A g \in Hosts : arrived[g] \in Seq(Flow)
    BY <1>2
  <2> QED
    BY <2>1, AppendElements, LenProperties
<1>5. Elements(arrived[h]) \subseteq Elements(arrived'[h])
  BY <1>3, <1>4, AppendAddsElement
<1>6. f \in Elements(arrived'[f.src])
  BY <1>1, <1>3, <1>4, AppendAddsElement
<1>7. CASE h = f.src
  BY <1>3, <1>4, <1>5, <1>6, <1>7, ZenonT(30)
<1>8. CASE h # f.src
  BY <1>3, <1>4, <1>5, <1>6, <1>8
<1> QED
  BY <1>7, <1>8

(* After the append and before the sweep, the bucket is a tail of the arrivals. *)
LEMMA AppendedTail ==
  ASSUME WindowTypeOK, NEW f \in Flow, Arrive(f), NEW h \in Hosts,
         TailOf(events[h], arrived[h])
  PROVE  /\ TailOf(Appended(f)[h], arrived'[h])
         /\ Len(arrived'[h]) - Len(Appended(f)[h]) = Len(arrived[h]) - Len(events[h])
<1>1. /\ Appended(f)[h] = IF h = f.src THEN Append(events[h], f) ELSE events[h]
      /\ arrived'[h] = IF h = f.src THEN Append(arrived[h], f) ELSE arrived[h]
  BY AppendedProperties, ArrivalsGrow
<1>2. events[h] \in Seq(Flow) /\ arrived[h] \in Seq(Flow)
  BY DEF WindowTypeOK
<1>3. Len(events[h]) \in Nat /\ Len(arrived[h]) \in Nat
  BY <1>2, LenProperties
<1>4. CASE h # f.src
  BY <1>1, <1>3, <1>4
<1>5. CASE h = f.src
  <2> DEFINE B == Append(events[h], f)
             A == Append(arrived[h], f)
  <2>1. /\ Len(B) = Len(events[h]) + 1
        /\ \A i \in 1..Len(events[h]) : B[i] = events[h][i]
        /\ B[Len(events[h]) + 1] = f
    BY <1>2, AppendElements
  <2>2. /\ Len(A) = Len(arrived[h]) + 1
        /\ \A i \in 1..Len(arrived[h]) : A[i] = arrived[h][i]
        /\ A[Len(arrived[h]) + 1] = f
    BY <1>2, AppendElements
  <2> HIDE DEF A, B
  <2>3. ASSUME NEW i \in 1..Len(B)
        PROVE  B[i] = A[(Len(A) - Len(B)) + i]
    <3>1. Len(A) - Len(B) = Len(arrived[h]) - Len(events[h])
      BY <1>3, <2>1, <2>2
    <3>2. CASE i = Len(events[h]) + 1
      <4>1. (Len(A) - Len(B)) + i = Len(arrived[h]) + 1
        BY <1>3, <3>1, <3>2
      <4> QED
        BY <2>1, <2>2, <3>2, <4>1
    <3>3. CASE i # Len(events[h]) + 1
      <4>1. i \in 1..Len(events[h])
        BY <1>3, <2>1, <3>3
      <4>2. events[h][i] = arrived[h][(Len(arrived[h]) - Len(events[h])) + i]
        BY <4>1 DEF TailOf
      <4>3. Len(events[h]) <= Len(arrived[h])
        BY DEF TailOf
      <4>4. (Len(arrived[h]) - Len(events[h])) + i \in 1..Len(arrived[h])
        BY <1>3, <4>1, <4>3, TailPosition
      <4> QED
        BY <2>1, <2>2, <3>1, <4>1, <4>2, <4>4
    <3> QED
      BY <3>2, <3>3
  <2>4. Len(B) <= Len(A) /\ Len(A) - Len(B) = Len(arrived[h]) - Len(events[h])
    BY <1>3, <2>1, <2>2 DEF TailOf
  <2>5. Appended(f)[h] = B /\ arrived'[h] = A
    BY <1>1, <1>5 DEF A, B
  <2> QED
    BY <2>3, <2>4, <2>5 DEF TailOf
<1> QED
  BY <1>4, <1>5

(* What one add does to one host: what the bucket still holds is a tail of the *)
(* arrivals, and what it lost in this step it was allowed to lose.             *)
LEMMA AddKeepsDropInv ==
  ASSUME WindowTypeOK, DropInv, NEW f \in Flow, AddReturns(f) \/ AddRaises(f),
         NEW h \in Hosts
  PROVE  /\ TailOf(events'[h], arrived'[h])
         /\ \A i \in 1..(Len(arrived'[h]) - Len(events'[h])) : MayDrop(arrived[h], i)' 
<1> DEFINE b == Appended(f)[h]
           c == events'[h]
           a == arrived'[h]
<1>1. Arrive(f) /\ f.src \in Hosts
  BY FlowAssumption DEF AddReturns, AddRaises
<1>2. /\ TailOf(b, a)
      /\ Len(a) - Len(b) = Len(arrived[h]) - Len(events[h])
  BY <1>1, AppendedTail DEF DropInv
<1>3. PICK k \in 0..Len(b) : ShortensBy(b, c, f, k)
  BY AddShortens DEF Shortens
<1>4. /\ a \in Seq(Flow)
      /\ \A i \in 1..Len(arrived[h]) : a[i] = arrived[h][i]
      /\ Len(a) >= Len(arrived[h])
      /\ Len(arrived[h]) \in Nat
      /\ Len(events[h]) \in Nat
      /\ f \in Elements(arrived'[f.src])
      /\ \A g \in Hosts : Elements(arrived[g]) \subseteq Elements(arrived'[g])
  <2>1. arrived[h] \in Seq(Flow) /\ events[h] \in Seq(Flow)
    BY DEF WindowTypeOK
  <2>2. /\ Len(arrived[h]) \in Nat
        /\ Len(events[h]) \in Nat
    BY <2>1, LenProperties
  <2>3. /\ a \in Seq(Flow)
        /\ \A i \in 1..Len(arrived[h]) : a[i] = arrived[h][i]
        /\ Len(a) = Len(arrived[h]) \/ Len(a) = Len(arrived[h]) + 1
    BY <1>1, ArrivalsGrow
  <2>4. /\ f \in Elements(arrived'[f.src])
        /\ \A g \in Hosts : Elements(arrived[g]) \subseteq Elements(arrived'[g])
    BY <1>1, ArrivalsGrow
  <2>5. Len(a) >= Len(arrived[h])
    <3> HIDE DEF a
    <3> QED
      BY <2>2, <2>3
  <2> QED
    BY <2>2, <2>3, <2>4, <2>5
<1>5. b \in Seq(Flow) /\ Len(b) \in Nat /\ Len(a) \in Nat
  BY <1>4, AppendedProperties, LenProperties
<1>6. Len(b) <= Len(a) /\ Len(c) = Len(b) - k /\ Len(c) \in Nat
  BY <1>2, <1>3, <1>5 DEF TailOf, ShortensBy
<1> HIDE DEF a, b, c
<1>7. TailOf(c, a)
  <2> SUFFICES ASSUME NEW i \in 1..Len(c)
               PROVE  c[i] = a[(Len(a) - Len(c)) + i]
    BY <1>5, <1>6 DEF TailOf
  <2>1. c[i] = b[k + i]
    BY <1>3 DEF ShortensBy
  <2>2. k + i \in 1..Len(b) /\ (Len(a) - Len(b)) + (k + i) = (Len(a) - Len(c)) + i
    BY <1>3, <1>5, <1>6
  <2>3. b[k + i] = a[(Len(a) - Len(b)) + (k + i)]
    BY <1>2, <2>2 DEF TailOf
  <2> QED
    BY <2>1, <2>2, <2>3
<1>8. ASSUME NEW i \in 1..(Len(a) - Len(c))
      PROVE  \/ Len(a) - i >= MaxEventsPerKey
             \/ \E g \in Hosts : \E now \in Elements(arrived'[g]) : Outdated(a[i], now)
  <2>1. CASE i \in 1..(Len(arrived[h]) - Len(events[h]))
    <3>1. MayDrop(arrived[h], i)
      BY <2>1 DEF DropInv
    <3>2. i \in 1..Len(arrived[h]) /\ Len(a) - i >= Len(arrived[h]) - i
      <4>1. Len(events[h]) \in Nat /\ Len(arrived[h]) \in Nat /\ i \in Int
        BY <1>4, LenProperties
      <4>2. Len(a) \in Nat /\ Len(a) >= Len(arrived[h])
        BY <1>4, <1>5
      <4> QED
        BY <2>1, <4>1, <4>2
    <3>3. a[i] = arrived[h][i]
      BY <1>4, <3>2
    <3>4. CASE Len(arrived[h]) - i >= MaxEventsPerKey
      BY <1>4, <1>5, <3>2, <3>4, WindowAssumption
    <3>5. CASE \E g \in Hosts : \E now \in Elements(arrived[g]) :
                 Outdated(arrived[h][i], now)
      BY <1>4, <3>3, <3>5
    <3> QED
      BY <3>1, <3>4, <3>5 DEF MayDrop
  <2>2. CASE i \notin 1..(Len(arrived[h]) - Len(events[h]))
    <3> DEFINE j == i - (Len(a) - Len(b))
    <3>1. j \in 1..k /\ j \in 1..Len(b) /\ i = (Len(a) - Len(b)) + j
      BY <1>2, <1>3, <1>4, <1>5, <1>6, <2>2, SMTT(30)
    <3>2. a[i] = b[j]
      BY <1>2, <3>1 DEF TailOf
    <3>3. Stale(b[j], f) \/ Len(b) - j >= MaxEventsPerKey
      BY <1>3, <3>1 DEF ShortensBy
    <3>4. Len(b) - j = Len(a) - i
      BY <1>5, <3>1
    <3>5. CASE Len(b) - j >= MaxEventsPerKey
      BY <3>4, <3>5
    <3>6. CASE Stale(b[j], f)
      <4>1. b[j] \in Flow
        BY <1>5, <3>1, ElementOfSeq
      <4>2. b[j].ts \in Int /\ f.ts \in Int /\ Window \in Nat
        BY <4>1, FlowAssumption, WindowAssumption
      <4>3. Outdated(a[i], f)
        BY <3>2, <3>6, <4>2 DEF Stale, Outdated
      <4> QED
        BY <1>1, <1>4, <4>3
    <3> QED
      BY <3>3, <3>5, <3>6
  <2> QED
    BY <2>1, <2>2
<1>9. \A i \in 1..(Len(a) - Len(c)) : MayDrop(arrived[h], i)'
  BY <1>8 DEF MayDrop, a
<1> QED
  BY <1>7, <1>9 DEF a, c

(* A store without events has the shape and has dropped nothing. *)
LEMMA EmptyDropInv ==
  (\A h \in Hosts : events[h] = <<>> /\ arrived[h] = <<>>) => DropInv
<1>1. Len(<<>>) = 0
  BY EmptySeq
<1>2. TailOf(<<>>, <<>>)
  BY <1>1 DEF TailOf
<1>3. 1..(Len(<<>>) - Len(<<>>)) = {}
  BY <1>1
<1> QED
  BY <1>2, <1>3 DEF DropInv

(* An add, returned or raised, keeps the tail invariant. *)
LEMMA AddKeepsDrops ==
  ASSUME WindowTypeOK, DropInv, NEW f \in Flow, AddReturns(f) \/ AddRaises(f)
  PROVE  DropInv'
<1>1. ASSUME NEW h \in Hosts
      PROVE  /\ TailOf(events[h], arrived[h])'
             /\ \A i \in 1..(Len(arrived'[h]) - Len(events'[h])) :
                  MayDrop(arrived[h], i)'
  BY <1>1, AddKeepsDropInv
<1> QED
  BY <1>1 DEF DropInv

(* A new store, as a session reset installs it, satisfies both invariants. *)
LEMMA NewWindowProperties ==
  ASSUME NewWindow
  PROVE  WindowTypeOK' /\ DropInv'
<1>1. WindowTypeOK'
  BY EmptySeq DEF NewWindow, WindowTypeOK, EmptyStore, Elements
<1>2. (\A h \in Hosts : events[h] = <<>> /\ arrived[h] = <<>>)'
  BY DEF NewWindow, EmptyStore
<1>3. DropInv'
  BY <1>2, EmptyDropInv, PTL
<1> QED
  BY <1>1, <1>3

(* The tail invariant holds of the store on every path. *)
LEMMA DropInvCorrect == WindowSpec => []DropInv
<1>1. WindowInit => DropInv
  BY EmptyDropInv DEF WindowInit, EmptyStore
<1>2. WindowTypeOK /\ DropInv /\ [WindowNext]_windowVars => DropInv'
  <2> SUFFICES ASSUME WindowTypeOK, DropInv, [WindowNext]_windowVars
               PROVE  DropInv'
    OBVIOUS
  <2>1. CASE UNCHANGED windowVars
    <3>1. events' = events /\ arrived' = arrived
      BY <2>1 DEF windowVars
    <3> QED
      BY <3>1 DEF DropInv, MayDrop
  <2>2. CASE WindowNext
    BY <2>2, AddKeepsDrops DEF WindowNext
  <2> QED
    BY <2>1, <2>2
<1> QED
  BY <1>1, <1>2, WindowTypeCorrect, PTL DEF WindowSpec

(* The tail invariant says that only outdated events and surplus are missing. *)
LEMMA DropInvMeans ==
  ASSUME WindowTypeOK, DropInv
  PROVE  OnlyOutdatedOrSurplusDropped
<1> SUFFICES ASSUME NEW h \in Hosts
             PROVE  /\ Dropped(h) \in 0..Len(arrived[h])
                    /\ events[h] = SubSeq(arrived[h], Dropped(h) + 1, Len(arrived[h]))
                    /\ \A i \in 1..Dropped(h) :
                         \/ Len(arrived[h]) - i >= MaxEventsPerKey
                         \/ \E g \in Hosts : \E now \in Elements(arrived[g]) :
                              Outdated(arrived[h][i], now)
  BY DEF OnlyOutdatedOrSurplusDropped
<1>1. /\ events[h] \in Seq(Flow)
      /\ arrived[h] \in Seq(Flow)
  BY DEF WindowTypeOK
<1>2. Len(events[h]) \in Nat /\ Len(arrived[h]) \in Nat
  BY <1>1, LenProperties
<1>3. TailOf(events[h], arrived[h])
  BY DEF DropInv
<1>4. Len(events[h]) <= Len(arrived[h])
  BY <1>3 DEF TailOf
<1>5. Dropped(h) \in 0..Len(arrived[h])
  BY <1>2, <1>4, TailPosition DEF Dropped
<1> DEFINE t == SubSeq(arrived[h], Dropped(h) + 1, Len(arrived[h]))
<1>6. /\ t \in Seq(Flow)
      /\ Len(t) = Len(arrived[h]) - Dropped(h)
      /\ \A i \in 1..(Len(arrived[h]) - Dropped(h)) : t[i] = arrived[h][Dropped(h) + i]
  BY <1>1, <1>5, DropFirst
<1>7. Len(arrived[h]) - Dropped(h) = Len(events[h])
  BY <1>2 DEF Dropped
<1>8. \A i \in 1..Len(events[h]) : events[h][i] = arrived[h][Dropped(h) + i]
  BY <1>3 DEF TailOf, Dropped
<1>9. events[h] = t
  <2> HIDE DEF t
  <2> QED
    BY <1>1, <1>6, <1>7, <1>8, SeqEqual
<1>10. \A i \in 1..Dropped(h) : MayDrop(arrived[h], i)
  BY DEF DropInv, Dropped
<1> QED
  BY <1>5, <1>9, <1>10 DEF MayDrop

(* No fresh event is ever lost: a bucket is the tail of its host's arrivals,   *)
(* and what is missing was outdated by an event that arrived, or in surplus.   *)
THEOREM NothingFreshLost == WindowSpec => []OnlyOutdatedOrSurplusDropped
<1>1. WindowTypeOK /\ DropInv => OnlyOutdatedOrSurplusDropped
  BY DropInvMeans
<1> QED
  BY <1>1, DropInvCorrect, WindowTypeCorrect, PTL

(* Where every source agrees on naive or aware timestamps no add ever raises.  *)
THEOREM RaisesNeedMixedKinds == WindowSpec => []RaisesOnlyWhenMixed
<1>1. WindowInit => RaisesOnlyWhenMixed
  BY DEF WindowInit, RaisesOnlyWhenMixed
<1>2. WindowTypeOK /\ DropInv /\ RaisesOnlyWhenMixed /\ [WindowNext]_windowVars
        => RaisesOnlyWhenMixed'
  <2> SUFFICES ASSUME WindowTypeOK, DropInv, RaisesOnlyWhenMixed,
                      [WindowNext]_windowVars,
                      NEW h \in Hosts, overdue'[h] > 0
               PROVE  ~OneKind'
    BY DEF RaisesOnlyWhenMixed
  <2>1. CASE UNCHANGED windowVars
    BY <2>1 DEF windowVars, RaisesOnlyWhenMixed, OneKind, Elements
  <2>2. ASSUME NEW f \in Flow, Arrive(f), ~OneKind
        PROVE  ~OneKind'
    <3>1. \A g \in Hosts : Elements(arrived[g]) \subseteq Elements(arrived'[g])
      BY <2>2, ArrivalsGrow
    <3> QED
      BY <2>2, <3>1 DEF OneKind
  <2>3. ASSUME NEW f \in Flow, AddReturns(f)
        PROVE  ~OneKind'
    <3>1. overdue' = [overdue EXCEPT ![f.src] = 0] /\ overdue \in [Hosts -> Nat]
      BY <2>3 DEF AddReturns, WindowTypeOK
    <3>2. overdue[h] > 0
      BY <3>1, FlowAssumption
    <3>3. ~OneKind
      BY <3>2 DEF RaisesOnlyWhenMixed
    <3> QED
      BY <2>2, <2>3, <3>3 DEF AddReturns
  <2>4. ASSUME NEW f \in Flow, AddRaises(f)
        PROVE  ~OneKind'
    <3>1. PICK g \in Hosts : SweepRaises(Appended(f)[g], f)
      BY <2>4 DEF AddRaises
    <3>2. Appended(f)[g] \in Seq(Flow)
      BY AppendedProperties
    <3>3. PICK i \in 1..Len(Appended(f)[g]) : Appended(f)[g][i].aware # f.aware
      BY <3>1, <3>2, RaisesMeetsOtherKind
    <3>4. Arrive(f) /\ f.src \in Hosts
      BY <2>4, FlowAssumption DEF AddRaises
    <3>5. TailOf(Appended(f)[g], arrived'[g])
      BY <3>4, AppendedTail DEF DropInv
    <3>6. arrived'[g] \in Seq(Flow) /\ f \in Elements(arrived'[f.src])
      BY <3>4, ArrivalsGrow
    <3>7. /\ Len(arrived'[g]) \in Nat
          /\ Len(Appended(f)[g]) \in Nat
          /\ DOMAIN arrived'[g] = 1..Len(arrived'[g])
      BY <3>2, <3>6, LenProperties
    <3>8. (Len(arrived'[g]) - Len(Appended(f)[g])) + i \in 1..Len(arrived'[g])
      BY <3>5, <3>7, TailPosition DEF TailOf
    <3>9. Appended(f)[g][i] \in Elements(arrived'[g])
      BY <3>5, <3>7, <3>8 DEF TailOf, Elements
    <3> QED
      BY <3>3, <3>4, <3>6, <3>9 DEF OneKind
  <2> QED
    BY <2>1, <2>3, <2>4 DEF WindowNext
<1> QED
  BY <1>1, <1>2, DropInvCorrect, WindowTypeCorrect, PTL DEF WindowSpec

(* Both together: a bucket is within its capacity unless an add of its host has *)
(* raised since one returned, for which sources must disagree on the kind of     *)
(* their timestamps.                                                             *)
THEOREM CapacityOfOneKind == WindowSpec => []CapacityRespected
<1>1. BoundedUpToRaises /\ RaisesOnlyWhenMixed => CapacityRespected
  BY DEF CapacityRespected, BoundedUpToRaises, RaisesOnlyWhenMixed
<1> QED
  BY <1>1, CapacityUpToRaises, RaisesNeedMixedKinds, PTL

-------------------------------------------------------------------------------
(* What an add leaves behind *)

(* Where a bucket is in timestamp order, a sweep that does not raise leaves no  *)
(* outdated event: the head it stops at is comparable and fresh, and the others *)
(* are no older than the head.                                                  *)
LEMMA SweptFresh ==
  ASSUME NEW b \in Seq(Flow), NEW now \in Flow, InOrder(b), ~SweepRaises(b, now)
  PROVE  \A g \in Elements(Swept(b, now)) : ~Outdated(g, now)
<1> DEFINE s == Swept(b, now)
           p == Popped(b, now)
<1>1. /\ p \in 0..Len(b)
      /\ p < Len(b) => ~Stale(b[p + 1], now)
      /\ ShortensBy(b, s, now, p)
  BY PoppedProperties, SweptShortens
<1>2. /\ s \in Seq(Flow)
      /\ Len(s) = Len(b) - p
      /\ \A i \in 1..Len(s) : s[i] = b[p + i]
  BY <1>1 DEF ShortensBy
<1>3. /\ Len(b) \in Nat /\ Len(s) \in Nat
      /\ DOMAIN b = 1..Len(b) /\ DOMAIN s = 1..Len(s)
  BY <1>2, LenProperties
<1>4. s # <<>> => s[1].aware = now.aware
  BY DEF SweepRaises
<1> HIDE DEF s, p
<1> SUFFICES ASSUME NEW i \in 1..Len(s), Outdated(s[i], now)
             PROVE  FALSE
  BY <1>3 DEF Elements, s
<1>5. /\ 1 \in 1..Len(s) /\ s # <<>>
      /\ p + 1 \in 1..Len(b) /\ p + i \in 1..Len(b) /\ p < Len(b)
  BY <1>1, <1>2, <1>3, EmptySeq
<1>6. s[1] = b[p + 1] /\ s[i] = b[p + i]
  BY <1>2, <1>5
<1>7. b[p + 1] \in Flow /\ b[p + i] \in Flow
  BY <1>5, ElementOfSeq
<1>8. /\ b[p + 1].ts \in Int /\ b[p + i].ts \in Int
      /\ now.ts \in Int /\ Window \in Nat
  BY <1>7, FlowAssumption, WindowAssumption
<1>9. b[p + 1].ts <= b[p + i].ts
  <2>1. CASE i = 1
    BY <1>8, <2>1
  <2>2. CASE i # 1
    <3>1. p + 1 < p + i
      BY <1>1, <2>2
    <3> QED
      BY <1>3, <1>5, <3>1 DEF InOrder
  <2> QED
    BY <2>1, <2>2
<1>10. ~(b[p + 1].ts < now.ts - Window)
  BY <1>1, <1>4, <1>5, <1>6 DEF Stale
<1>11. now.ts - b[p + i].ts > Window
  BY <1>6 DEF Outdated
<1>12. \A x, y, n, w \in Int : x <= y /\ ~(x < n - w) => ~(n - y > w)
  OBVIOUS
<1>13. Window \in Int
  BY <1>8
<1> QED
  BY <1>8, <1>9, <1>10, <1>11, <1>12, <1>13

(* A tail of arrivals that are in order is in order. *)
LEMMA TailInOrder ==
  ASSUME NEW b \in Seq(Flow), NEW a \in Seq(Flow), TailOf(b, a), InOrder(a)
  PROVE  InOrder(b)
<1>1. /\ Len(b) \in Nat /\ Len(a) \in Nat /\ Len(b) <= Len(a)
      /\ DOMAIN b = 1..Len(b) /\ DOMAIN a = 1..Len(a)
  BY LenProperties DEF TailOf
<1> SUFFICES ASSUME NEW i \in 1..Len(b), NEW j \in 1..Len(b), i < j
             PROVE  b[i].ts <= b[j].ts
  BY <1>1 DEF InOrder
<1> DEFINE d == Len(a) - Len(b)
<1>2. b[i] = a[d + i] /\ b[j] = a[d + j]
  BY DEF TailOf
<1>3. d + i \in 1..Len(a) /\ d + j \in 1..Len(a) /\ d + i < d + j
  BY <1>1
<1> HIDE DEF d
<1> QED
  BY <1>1, <1>2, <1>3 DEF InOrder

(* An add that returned has swept the bucket of every host; of one that raised  *)
(* nothing is claimed.                                                           *)
LEMMA AddLeavesFresh ==
  ASSUME WindowTypeOK, DropInv, NEW f \in Flow, AddReturns(f) \/ AddRaises(f)
  PROVE  OrderedBucketsFresh'
<1>1. CASE AddRaises(f)
  <2>1. Elements(last)' = {}
    BY <1>1, EmptySeq DEF AddRaises, Elements
  <2> QED
    BY <2>1 DEF OrderedBucketsFresh
<1>2. CASE AddReturns(f)
  <2>1. Elements(last') = {f}
    <3>1. last' = <<f>>
      BY <1>2 DEF AddReturns
    <3> QED
      BY <3>1 DEF Elements
  <2>2. ASSUME NEW h \in Hosts, InOrder(arrived'[h])
        PROVE  \A g \in Elements(events'[h]) : ~Outdated(g, f)
    <3> DEFINE b == Appended(f)[h]
    <3>1. Arrive(f) /\ ~SweepRaises(b, f)
      BY <1>2 DEF AddReturns
    <3>2. b \in Seq(Flow) /\ (h # f.src => b = events[h])
      BY AppendedProperties
    <3>3. arrived'[h] \in Seq(Flow) /\ TailOf(b, arrived'[h])
      BY <3>1, ArrivalsGrow, AppendedTail DEF DropInv
    <3>4. InOrder(b)
      BY <2>2, <3>2, <3>3, TailInOrder
    <3>5. \A g \in Elements(Swept(b, f)) : ~Outdated(g, f)
      BY <3>1, <3>2, <3>4, SweptFresh
    <3>6. Swept(b, f) \in Seq(Flow)
      BY <3>2, SweptShortens DEF ShortensBy
    <3>7. Elements(events'[h]) \subseteq Elements(Swept(b, f))
      <4>1. \/ events'[h] = Swept(b, f)
            \/ events'[h] = Recent(Swept(b, f), MaxEventsPerKey)
        BY <1>2, <3>2 DEF AddReturns
      <4> QED
        BY <3>6, <4>1, RecentElements, WindowAssumption
    <3> QED
      BY <3>5, <3>7
  <2>3. Elements(last)' = {f}
    BY <2>1 DEF Elements
  <2> QED
    BY <2>2, <2>3 DEF OrderedBucketsFresh, Elements, InOrder
<1> QED
  BY <1>1, <1>2

(* An add that returned has swept the bucket of every host, not only its own:  *)
(* where a host's events arrive in order, none outside the window is left.     *)
THEOREM SweepReachesEveryHost == WindowSpec => []OrderedBucketsFresh
<1>1. WindowInit => OrderedBucketsFresh
  <2>1. Elements(<<>>) = {}
    BY EmptySeq DEF Elements
  <2> QED
    BY <2>1 DEF WindowInit, OrderedBucketsFresh
<1>2. WindowTypeOK /\ DropInv /\ OrderedBucketsFresh /\ [WindowNext]_windowVars
        => OrderedBucketsFresh'
  <2> SUFFICES ASSUME WindowTypeOK, DropInv, OrderedBucketsFresh,
                      [WindowNext]_windowVars
               PROVE  OrderedBucketsFresh'
    OBVIOUS
  <2>1. CASE UNCHANGED windowVars
    BY <2>1 DEF windowVars, OrderedBucketsFresh
  <2>2. CASE WindowNext
    BY <2>2, AddLeavesFresh DEF WindowNext
  <2> QED
    BY <2>1, <2>2
<1> QED
  BY <1>1, <1>2, DropInvCorrect, WindowTypeCorrect, PTL DEF WindowSpec

-------------------------------------------------------------------------------
(* The pipeline *)

Hows == {"window", "features", "engine", "store", "accepted"}
FlowIds == {f.id : f \in Flow}
AlertIds == [flow : FlowIds, threat : Threats] \cup Persisted
AlertSets == SUBSET AlertIds
Marks == {Nothing} \cup {<<x>> : x \in FlowIds}
Outcome == [flow : Flow, how : Hows, alert : AlertSets, learned : BOOLEAN]

\* The shape of the pipeline's state.
PipelineTypeOK ==
  /\ WindowTypeOK
  /\ stats \in [received : Nat, accepted : Nat, failed : Nat]
  /\ DOMAIN observations \subseteq Hosts
  /\ observations \in [DOMAIN observations -> Nat]
  /\ alerts \in Seq(AlertIds) /\ Len(alerts) <= MaxItems
  /\ lastOf \in [features : Marks, deviation : Marks, results : Marks]
  /\ outcomes \in Seq(Outcome)

\* A host gets its baseline no later than its first accepted event.
NoBaselineNoneAccepted ==
  \A h \in Hosts \ DOMAIN observations : Count(h, {"accepted"}) = 0

\* The p-th arrival of a host was its call with Len(arrived[h]) - p later ones.
ArrivalsAreCalls ==
  \A h \in Hosts : \A p \in DOMAIN arrived[h] :
    \E j \in CallsOf(h, 1, Len(outcomes)) :
      /\ outcomes[j].flow = arrived[h][p]
      /\ Cardinality(CallsOf(h, j + 1, Len(outcomes))) = Len(arrived[h]) - p

-------------------------------------------------------------------------------
(* Counting *)

\* How many positions of t hold an element of T.
Number(t, T) == Cardinality({i \in DOMAIN t : t[i] \in T})

(* Appending e counts one more position, if e is among what is counted. *)
LEMMA CountOfAppend ==
  ASSUME NEW S, NEW s \in Seq(S), NEW e \in S, NEW T
  PROVE  /\ Number(s, T) \in Nat
         /\ Number(Append(s, e), T) = Number(s, T) + (IF e \in T THEN 1 ELSE 0)
<1> DEFINE t == Append(s, e)
           A == {i \in DOMAIN s : s[i] \in T}
           B == {i \in DOMAIN t : t[i] \in T}
<1>1. /\ DOMAIN s = 1..Len(s) /\ Len(s) \in Nat
      /\ DOMAIN t = 1..(Len(s) + 1)
      /\ \A i \in 1..Len(s) : t[i] = s[i]
      /\ t[Len(s) + 1] = e
  BY AppendElements, LenProperties
<1>2. IsFiniteSet(A) /\ Cardinality(A) \in Nat
  <2>1. IsFiniteSet(1..Len(s))
    <3>1. 1 \in Int /\ Len(s) \in Int
      BY <1>1
    <3> QED
      BY <3>1, FS_Interval, Zenon
  <2>2. A \in SUBSET (1..Len(s))
    BY <1>1
  <2> QED
    BY <2>1, <2>2, FS_Subset, FS_CardinalityType
<1> HIDE DEF t
<1>3. B = IF e \in T THEN A \cup {Len(s) + 1} ELSE A
  <2>1. \A i \in 1..(Len(s) + 1) : i \in 1..Len(s) \/ i = Len(s) + 1
    BY <1>1
  <2>2. \A i \in 1..Len(s) : i \in 1..(Len(s) + 1)
    BY <1>1
  <2>3. Len(s) + 1 \in 1..(Len(s) + 1) /\ Len(s) + 1 \notin 1..Len(s)
    BY <1>1
  <2> QED
    BY <1>1, <2>1, <2>2, <2>3
<1>4. Len(s) + 1 \notin A
  BY <1>1
<1>5. Cardinality(B) = Cardinality(A) + (IF e \in T THEN 1 ELSE 0)
  <2>1. Cardinality(A \cup {Len(s) + 1}) = Cardinality(A) + 1
    <3> HIDE DEF A
    <3> QED
      BY <1>2, <1>4, FS_AddElement
  <2> HIDE DEF A, B
  <2> QED
    BY <1>2, <1>3, <2>1
<1> QED
  BY <1>2, <1>5 DEF t, Number

(* A set of positions grows by the new last one, if that belongs to it. *)
LEMMA IntervalGrows ==
  ASSUME NEW a \in Nat \ {0}, NEW n \in Nat, a <= n + 1
  PROVE  /\ a..(n + 1) = (a..n) \cup {n + 1}
         /\ n + 1 \notin a..n
         /\ IsFiniteSet(a..n)
<1>1. IsFiniteSet(a..n)
  BY FS_Interval
<1> QED
  BY <1>1

-------------------------------------------------------------------------------
(* The parts of a call *)

(* Ends counts the call and records its outcome behind the earlier ones. *)
LEMMA EndsProperties ==
  ASSUME PipelineTypeOK, NEW f \in Flow, NEW how \in Hows,
         NEW alert \in AlertSets, NEW learned \in BOOLEAN,
         Ends(f, how, alert, learned)
  PROVE  /\ stats' \in [received : Nat, accepted : Nat, failed : Nat]
         /\ outcomes' = Append(outcomes, [flow |-> f, how |-> how, alert |-> alert,
                                          learned |-> learned])
         /\ [flow |-> f, how |-> how, alert |-> alert, learned |-> learned] \in Outcome
         /\ outcomes' \in Seq(Outcome)
         /\ Len(outcomes) \in Nat
         /\ DOMAIN outcomes = 1..Len(outcomes)
         /\ DOMAIN outcomes' = 1..(Len(outcomes) + 1)
         /\ Len(outcomes') = Len(outcomes) + 1
         /\ \A i \in 1..Len(outcomes) : outcomes'[i] = outcomes[i]
         /\ outcomes'[Len(outcomes) + 1] =
              [flow |-> f, how |-> how, alert |-> alert, learned |-> learned]
<1> DEFINE e == [flow |-> f, how |-> how, alert |-> alert, learned |-> learned]
<1>1. e \in Outcome
  BY DEF Outcome
<1>2. outcomes \in Seq(Outcome) /\ outcomes' = Append(outcomes, e)
  BY DEF PipelineTypeOK, Ends
<1>3. /\ outcomes' \in Seq(Outcome)
      /\ Len(outcomes') = Len(outcomes) + 1
      /\ \A i \in 1..Len(outcomes) : outcomes'[i] = outcomes[i]
      /\ outcomes'[Len(outcomes) + 1] = e
  BY <1>1, <1>2, AppendElements
<1>4. /\ Len(outcomes) \in Nat
      /\ DOMAIN outcomes = 1..Len(outcomes)
      /\ DOMAIN outcomes' = 1..(Len(outcomes) + 1)
  BY <1>2, <1>3, LenProperties
<1>5. stats' \in [received : Nat, accepted : Nat, failed : Nat]
  BY DEF PipelineTypeOK, Ends
<1> QED
  BY <1>1, <1>2, <1>3, <1>4, <1>5

(* Scoring a host creates its baseline; learning adds at most one to it. *)
LEMMA BaselineUpdates ==
  ASSUME PipelineTypeOK, NEW h \in Hosts, NEW deviation
  PROVE  /\ Touched(h) \in [DOMAIN observations \cup {h} -> Nat]
         /\ Learned(h, deviation) \in [DOMAIN observations \cup {h} -> Nat]
         /\ \A x \in DOMAIN observations : Touched(h)[x] = observations[x]
         /\ h \notin DOMAIN observations => Touched(h)[h] = 0
         /\ \A x \in DOMAIN observations \cup {h} :
              Learned(h, deviation)[x] =
                Touched(h)[x] + (IF x = h /\ deviation # "high" THEN 1 ELSE 0)
<1>1. Touched(h) \in [DOMAIN observations \cup {h} -> Nat]
  BY DEF Touched, PipelineTypeOK
<1>2. /\ \A x \in DOMAIN observations : Touched(h)[x] = observations[x]
      /\ h \notin DOMAIN observations => Touched(h)[h] = 0
  BY DEF Touched
<1> QED
  BY <1>1, <1>2 DEF Learned

(* A call raises no alert or one of its event's own. *)
LEMMA AlertsOfTyped ==
  /\ {} \in AlertSets
  /\ \A f \in Flow : \A a \in AlertsOf(f) : a \in AlertIds /\ {a} \in AlertSets
BY DEF AlertsOf, AlertIds, AlertSets, FlowIds

(* Adding an alert shows no alert but the old ones and the new one, no id twice, *)
(* and the old ones in their order; it forgets one only for a full deque.        *)
LEMMA WithAlertProperties ==
  ASSUME PipelineTypeOK, NEW a \in AlertIds,
         \A i, j \in DOMAIN alerts : alerts[i] = alerts[j] => i = j
  PROVE  /\ WithAlert(a) \in Seq(AlertIds)
         /\ Len(WithAlert(a)) <= MaxItems
         /\ Elements(WithAlert(a)) \subseteq Elements(alerts) \cup {a}
         /\ \/ Elements(alerts) \cup {a} \subseteq Elements(WithAlert(a))
            \/ Len(WithAlert(a)) = MaxItems
         /\ \A i, j \in DOMAIN WithAlert(a) : WithAlert(a)[i] = WithAlert(a)[j] => i = j
         /\ \A i, j \in DOMAIN WithAlert(a) : i < j =>
              \/ WithAlert(a)[j] = a
              \/ \E p, q \in DOMAIN alerts :
                   /\ p < q
                   /\ WithAlert(a)[i] = alerts[p]
                   /\ WithAlert(a)[j] = alerts[q]
<1>1. alerts \in Seq(AlertIds) /\ MaxItems \in Nat /\ Len(alerts) <= MaxItems
  BY PipelineAssumption DEF PipelineTypeOK
<1>2. CASE a \in Elements(alerts)
  <2>1. WithAlert(a) = alerts
    BY <1>2 DEF WithAlert
  <2> QED
    BY <1>1, <1>2, <2>1
<1>3. CASE a \notin Elements(alerts)
  <2> DEFINE t == Append(alerts, a)
             r == Recent(t, MaxItems)
  <2>1. WithAlert(a) = r
    BY <1>3 DEF WithAlert
  <2>2. /\ t \in Seq(AlertIds)
        /\ Len(t) = Len(alerts) + 1
        /\ \A i \in 1..Len(alerts) : t[i] = alerts[i]
        /\ t[Len(alerts) + 1] = a
        /\ Elements(t) = Elements(alerts) \cup {a}
    BY <1>1, AppendElements, AppendAddsElement
  <2>3. Len(alerts) \in Nat /\ DOMAIN alerts = 1..Len(alerts)
    BY <1>1, LenProperties
  <2>4. \A i \in 1..Len(alerts) : alerts[i] # a
    BY <1>3, <2>3 DEF Elements
  <2> HIDE DEF t
  <2>5. ASSUME NEW i \in 1..Len(t), NEW j \in 1..Len(t), t[i] = t[j]
        PROVE  i = j
    <3>1. CASE i \in 1..Len(alerts) /\ j \in 1..Len(alerts)
      BY <2>2, <2>3, <2>5, <3>1
    <3>2. CASE i = Len(alerts) + 1 \/ j = Len(alerts) + 1
      BY <2>2, <2>3, <2>4, <2>5, <3>2
    <3> QED
      BY <2>2, <2>3, <2>5, <3>1, <3>2
  <2>6. PICK k \in 0..Len(t) :
          /\ r \in Seq(AlertIds)
          /\ Len(r) = Len(t) - k
          /\ Len(r) <= MaxItems
          /\ \A i \in 1..(Len(t) - k) : r[i] = t[k + i]
          /\ k > 0 => Len(t) - k = MaxItems
    BY <1>1, <2>2, RecentProperties
  <2>7. Elements(r) \subseteq Elements(t)
    BY <1>1, <2>2, RecentElements
  <2> HIDE DEF r
  <2>8. /\ DOMAIN r = 1..(Len(t) - k) /\ Len(t) \in Nat
        /\ DOMAIN t = 1..Len(t)
    BY <2>2, <2>6, LenProperties
  <2>9. ASSUME NEW i \in 1..(Len(t) - k), NEW j \in 1..(Len(t) - k), r[i] = r[j]
        PROVE  i = j
    <3>1. t[k + i] = t[k + j] /\ k + i \in 1..Len(t) /\ k + j \in 1..Len(t)
      BY <2>6, <2>8, <2>9
    <3>2. k + i = k + j
      BY <2>5, <3>1
    <3> QED
      BY <2>8, <3>2
  <2>10. Elements(t) \subseteq Elements(r) \/ Len(r) = MaxItems
    <3>1. CASE k > 0
      BY <2>6, <3>1
    <3>2. CASE ~(k > 0)
      <4>1. k = 0 /\ Len(t) - k = Len(t)
        BY <2>6, <2>8, <3>2
      <4>2. \A i \in 1..Len(t) : k + i = i
        BY <2>8, <4>1
      <4>3. \A i \in 1..Len(t) : r[i] = t[i]
        BY <2>6, <4>1, <4>2
      <4>4. DOMAIN r = DOMAIN t
        BY <2>8, <4>1
      <4> QED
        BY <2>8, <4>3, <4>4 DEF Elements
    <3> QED
      BY <3>1, <3>2
  <2>11. ASSUME NEW i \in 1..(Len(t) - k), NEW j \in 1..(Len(t) - k), i < j
         PROVE  \/ r[j] = a
                \/ \E p, q \in DOMAIN alerts :
                     p < q /\ r[i] = alerts[p] /\ r[j] = alerts[q]
    <3>1. r[i] = t[k + i] /\ r[j] = t[k + j]
      BY <2>6, <2>11
    <3>2. CASE k + j = Len(alerts) + 1
      BY <2>2, <3>1, <3>2
    <3>3. CASE k + j # Len(alerts) + 1
      <4>1. /\ k + i \in 1..Len(alerts) /\ k + j \in 1..Len(alerts)
            /\ k + i < k + j
        BY <2>2, <2>3, <2>11, <3>3
      <4>2. r[i] = alerts[k + i] /\ r[j] = alerts[k + j]
        BY <2>2, <3>1, <4>1
      <4> QED
        BY <2>3, <4>1, <4>2
    <3> QED
      BY <3>2, <3>3
  <2>12. /\ \A i, j \in DOMAIN r : r[i] = r[j] => i = j
         /\ \A i, j \in DOMAIN r : i < j =>
              \/ r[j] = a
              \/ \E p, q \in DOMAIN alerts : p < q /\ r[i] = alerts[p] /\ r[j] = alerts[q]
    BY <2>8, <2>9, <2>11
  <2> QED
    BY <2>1, <2>2, <2>6, <2>7, <2>10, <2>12
<1> QED
  BY <1>2, <1>3

(* A deque that was full stays full. *)
LEMMA WithAlertKeepsFull ==
  ASSUME PipelineTypeOK, NEW a \in AlertIds, Len(alerts) = MaxItems
  PROVE  Len(WithAlert(a)) = MaxItems
<1>1. alerts \in Seq(AlertIds) /\ MaxItems \in Nat
  BY PipelineAssumption DEF PipelineTypeOK
<1> DEFINE t == Append(alerts, a)
<1>2. t \in Seq(AlertIds) /\ Len(t) = MaxItems + 1
  BY <1>1, AppendElements
<1>3. PICK k \in 0..Len(t) :
        /\ Len(Recent(t, MaxItems)) = Len(t) - k
        /\ Len(Recent(t, MaxItems)) <= MaxItems
        /\ k > 0 => Len(t) - k = MaxItems
  BY <1>1, <1>2, RecentProperties
<1> HIDE DEF t
<1>4. Len(Recent(t, MaxItems)) = MaxItems
  BY <1>1, <1>2, <1>3
<1> QED
  BY <1>4 DEF WithAlert, t

-------------------------------------------------------------------------------
(* The shape of the state *)

(* Every outcome of process() leaves the pipeline's state well formed. *)
LEMMA ProcessKeepsType ==
  ASSUME PipelineTypeOK, \A i, j \in DOMAIN alerts : alerts[i] = alerts[j] => i = j,
         NEW f \in Flow, Process(f)
  PROVE  PipelineTypeOK'
<1>1. f.src \in Hosts /\ <<f.id>> \in Marks /\ AlertsOf(f) \subseteq AlertIds
  BY FlowAssumption DEF Marks, FlowIds, AlertsOf, AlertIds
<1>2. AddReturns(f) \/ AddRaises(f)
  BY DEF Process, RejectedByWindow, RejectedByFeatures, RejectedByEngine,
         RejectedByStore, Accepted
<1>3. WindowTypeOK'
  BY <1>2, AddKeepsWindowType DEF PipelineTypeOK
<1>4. \E how \in Hows, alert \in AlertSets, learned \in BOOLEAN :
        Ends(f, how, alert, learned)
  BY AlertsOfTyped DEF Process, RejectedByWindow, RejectedByFeatures, RejectedByEngine,
         RejectedByStore, Accepted, Hows
<1>5. /\ stats' \in [received : Nat, accepted : Nat, failed : Nat]
      /\ outcomes' \in Seq(Outcome)
  BY <1>4, EndsProperties
<1>6. /\ DOMAIN observations' \subseteq Hosts
      /\ observations' \in [DOMAIN observations' -> Nat]
  <2>1. \/ observations' = observations
        \/ observations' = Touched(f.src)
        \/ \E deviation \in Deviations(f.src) : observations' = Learned(f.src, deviation)
    BY DEF Process, RejectedByWindow, RejectedByFeatures, RejectedByEngine,
           RejectedByStore, Accepted
  <2>2. CASE observations' = observations
    BY <2>2 DEF PipelineTypeOK
  <2>3. CASE \/ observations' = Touched(f.src)
             \/ \E deviation \in Deviations(f.src) :
                  observations' = Learned(f.src, deviation)
    <3> DEFINE T == [DOMAIN observations \cup {f.src} -> Nat]
    <3>0. f.src \in Hosts
      BY <1>1
    <3>1. observations' \in T
      <4>1. ASSUME NEW deviation \in Deviations(f.src)
            PROVE  Learned(f.src, deviation) \in T
        BY <3>0, BaselineUpdates
      <4>2. Touched(f.src) \in T
        BY <3>0, BaselineUpdates
      <4> HIDE DEF T
      <4> QED
        BY <2>3, <4>1, <4>2
    <3> QED
      BY <1>1, <3>1 DEF PipelineTypeOK
  <2> QED
    BY <2>1, <2>2, <2>3
<1>7. alerts' \in Seq(AlertIds) /\ Len(alerts') <= MaxItems
  <2>1. alerts' = alerts \/ \E a \in AlertsOf(f) : alerts' = WithAlert(a)
    BY DEF Process, RejectedByWindow, RejectedByFeatures, RejectedByEngine,
           RejectedByStore, Accepted
  <2> QED
    BY <1>1, <2>1, WithAlertProperties DEF PipelineTypeOK
<1>8. lastOf' \in [features : Marks, deviation : Marks, results : Marks]
  <2>1. \/ lastOf' = lastOf
        \/ lastOf' = Described(f)
        \/ lastOf' = [Described(f) EXCEPT !.results = <<f.id>>]
    BY DEF Process, RejectedByWindow, RejectedByFeatures, RejectedByEngine,
           RejectedByStore, Accepted
  <2> QED
    BY <1>1, <2>1 DEF PipelineTypeOK, Described
<1> QED
  BY <1>3, <1>5, <1>6, <1>7, <1>8 DEF PipelineTypeOK

(* A reset, whether it returns or raises, installs well-formed empty state. *)
LEMMA ResetKeepsType ==
  ASSUME PipelineTypeOK, NewSession, UNCHANGED lastOf \/ lastOf' = NoLast
  PROVE  PipelineTypeOK'
<1>1. WindowTypeOK'
  BY NewWindowProperties DEF NewSession
<1>2. lastOf' \in [features : Marks, deviation : Marks, results : Marks]
  BY DEF PipelineTypeOK, NoLast, Marks
<1>3. alerts' \in Seq(AlertIds) /\ Len(alerts') <= MaxItems
  BY EmptySeq, PipelineAssumption DEF NewSession
<1> QED
  BY <1>1, <1>2, <1>3, EmptySeq DEF NewSession, PipelineTypeOK, NoStats, NoBaselines

-------------------------------------------------------------------------------
(* The counters and the baselines *)

\* How often e is counted by Count(h, {"accepted"}).
AcceptedOf(h) == {o \in Outcome : o.flow.src = h /\ o.how = "accepted"}

(* Ends adds to the counts of accepted events exactly what it adds to stats. *)
LEMMA EndsCounts ==
  ASSUME PipelineTypeOK, NEW f \in Flow, NEW how \in Hows,
         NEW alert \in AlertSets, NEW learned \in BOOLEAN,
         Ends(f, how, alert, learned)
  PROVE  /\ EveryEventCounted => EveryEventCounted'
         /\ \A h \in Hosts :
              /\ Count(h, {"accepted"}) \in Nat
              /\ Count(h, {"accepted"})' =
                   Count(h, {"accepted"})
                   + (IF h = f.src /\ how = "accepted" THEN 1 ELSE 0)
<1> DEFINE e == [flow |-> f, how |-> how, alert |-> alert, learned |-> learned]
           AllAccepted == {o \in Outcome : o.how = "accepted"}
<1>1. /\ outcomes \in Seq(Outcome)
      /\ e \in Outcome
      /\ outcomes' \in Seq(Outcome)
      /\ outcomes' = Append(outcomes, e)
      /\ Len(outcomes) \in Nat
      /\ Len(outcomes') = Len(outcomes) + 1
  BY EndsProperties DEF PipelineTypeOK
<1>2. ASSUME NEW T
      PROVE  /\ Number(outcomes, T) \in Nat
             /\ Number(outcomes', T) = Number(outcomes, T) + (IF e \in T THEN 1 ELSE 0)
  <2> HIDE DEF e
  <2>0. outcomes \in Seq(Outcome) /\ e \in Outcome
    BY <1>1
  <2>1. /\ Number(outcomes, T) \in Nat
        /\ Number(Append(outcomes, e), T) =
             Number(outcomes, T) + (IF e \in T THEN 1 ELSE 0)
    BY <2>0, CountOfAppend
  <2> QED
    BY <1>1, <2>1
<1>3. /\ \A i \in DOMAIN outcomes : outcomes[i] \in Outcome
      /\ \A i \in DOMAIN outcomes' : outcomes'[i] \in Outcome
  BY <1>1, ElementOfSeq, LenProperties
<1>4. ASSUME NEW h \in Hosts
      PROVE  /\ Count(h, {"accepted"}) = Number(outcomes, AcceptedOf(h))
             /\ Count(h, {"accepted"})' = Number(outcomes', AcceptedOf(h))
             /\ e \in AcceptedOf(h) <=> h = f.src /\ how = "accepted"
  <2>1. {i \in DOMAIN outcomes : outcomes[i].flow.src = h /\ outcomes[i].how \in {"accepted"}}
          = {i \in DOMAIN outcomes : outcomes[i] \in AcceptedOf(h)}
    BY <1>3 DEF AcceptedOf
  <2>2. {i \in DOMAIN outcomes' : outcomes'[i].flow.src = h /\ outcomes'[i].how \in {"accepted"}}
          = {i \in DOMAIN outcomes' : outcomes'[i] \in AcceptedOf(h)}
    BY <1>3 DEF AcceptedOf
  <2>3. e \in AcceptedOf(h) <=> h = f.src /\ how = "accepted"
    BY <1>1 DEF AcceptedOf
  <2> QED
    BY <2>1, <2>2, <2>3 DEF Count, Number
<1>5. ASSUME EveryEventCounted
      PROVE  EveryEventCounted'
  <2>1. {i \in DOMAIN outcomes : outcomes[i].how = "accepted"}
          = {i \in DOMAIN outcomes : outcomes[i] \in AllAccepted}
    BY <1>3
  <2>2. {i \in DOMAIN outcomes' : outcomes'[i].how = "accepted"}
          = {i \in DOMAIN outcomes' : outcomes'[i] \in AllAccepted}
    BY <1>3
  <2>3. e \in AllAccepted <=> how = "accepted"
    BY <1>1
  <2>4. /\ Number(outcomes, AllAccepted) \in Nat
        /\ Number(outcomes', AllAccepted) =
             Number(outcomes, AllAccepted) + (IF how = "accepted" THEN 1 ELSE 0)
    <3> HIDE DEF AllAccepted, e
    <3> QED
      BY <1>2, <2>3
  <2>5. /\ stats.received = Len(outcomes)
        /\ stats.accepted = Number(outcomes, AllAccepted)
        /\ stats.failed = stats.received - stats.accepted
    BY <1>5, <2>1 DEF EveryEventCounted, Number
  <2>6. /\ stats'.received = stats.received + 1
        /\ stats'.accepted = stats.accepted + (IF how = "accepted" THEN 1 ELSE 0)
        /\ stats'.failed = stats.failed + (IF how = "accepted" THEN 0 ELSE 1)
    BY DEF Ends
  <2>7. /\ stats'.received = Len(outcomes')
        /\ stats'.accepted = Number(outcomes', AllAccepted)
        /\ stats'.failed = stats'.received - stats'.accepted
    <3> HIDE DEF AllAccepted, e
    <3> DEFINE a == Number(outcomes, AllAccepted)
               b == Number(outcomes', AllAccepted)
               one == IF how = "accepted" THEN 1 ELSE 0
    <3>1. a \in Nat /\ b = a + one
      BY <2>4
    <3>2. /\ stats.received = Len(outcomes) /\ stats.accepted = a
          /\ stats.failed = stats.received - stats.accepted
      BY <2>5
    <3>3. /\ stats'.received = Len(outcomes')
          /\ stats'.accepted = b
      <4> HIDE DEF a, b
      <4> QED
        BY <1>1, <2>6, <3>1, <3>2
    <3>4. stats'.failed = stats'.received - stats'.accepted
      <4> HIDE DEF a, b
      <4> QED
        BY <1>1, <2>6, <3>1, <3>2
    <3> QED
      BY <3>3, <3>4
  <2> QED
    BY <2>2, <2>7 DEF EveryEventCounted, Number
<1>6. ASSUME NEW h \in Hosts
      PROVE  /\ Count(h, {"accepted"}) \in Nat
             /\ Count(h, {"accepted"})' =
                  Count(h, {"accepted"})
                  + (IF h = f.src /\ how = "accepted" THEN 1 ELSE 0)
  <2> HIDE DEF e
  <2> QED
    BY <1>2, <1>4
<1> QED
  BY <1>5, <1>6

(* Whichever stage raises, a call changes the baselines as it changes the counts. *)
LEMMA ProcessKeepsCounts ==
  ASSUME PipelineTypeOK, CountsMatchOutcomes, NoBaselineNoneAccepted,
         NEW f \in Flow, Process(f)
  PROVE  CountsMatchOutcomes' /\ NoBaselineNoneAccepted'
<1> DEFINE N(h) == Count(h, {"accepted"})
           Known(h) == IF h \in DOMAIN observations THEN observations[h] ELSE 0
<1>0. /\ f.src \in Hosts
      /\ DOMAIN observations \subseteq Hosts
      /\ observations \in [DOMAIN observations -> Nat]
  BY FlowAssumption DEF PipelineTypeOK
<1>1. PICK how \in Hows, alert \in AlertSets, learned \in BOOLEAN :
        /\ Ends(f, how, alert, learned)
        /\ \/ observations' = observations /\ how # "accepted"
           \/ observations' = Touched(f.src) /\ how # "accepted"
           \/ /\ \E deviation \in Deviations(f.src) :
                   observations' = Learned(f.src, deviation)
              /\ how = "accepted"
  BY AlertsOfTyped DEF Process, RejectedByWindow, RejectedByFeatures, RejectedByEngine,
         RejectedByStore, Accepted, Hows
<1>2. EveryEventCounted'
  BY <1>1, EndsCounts DEF CountsMatchOutcomes
<1>3. \A h \in Hosts :
        /\ N(h) \in Nat
        /\ N(h)' = N(h) + (IF h = f.src /\ how = "accepted" THEN 1 ELSE 0)
  BY <1>1, EndsCounts
<1>4. \A h \in Hosts :
        /\ Known(h) \in Nat
        /\ Known(h) <= N(h)
        /\ Known(h) >= 2 \/ Known(h) = N(h)
  <2> HIDE DEF N
  <2>1. /\ \A h \in DOMAIN observations :
             /\ observations[h] <= N(h)
             /\ observations[h] >= 2 \/ observations[h] = N(h)
        /\ \A h \in Hosts \ DOMAIN observations : N(h) = 0
    BY DEF CountsMatchOutcomes, BaselineCountsAccepted, NoBaselineNoneAccepted, N
  <2> QED
    BY <1>0, <1>3, <2>1
<1>5. Touched(f.src)[f.src] = Known(f.src)
  BY <1>0, BaselineUpdates
<1>6. \A h \in DOMAIN observations' :
        /\ h \in Hosts
        /\ observations'[h] <= N(h)'
        /\ observations'[h] >= 2 \/ observations'[h] = N(h)'
  <2>1. CASE observations' = observations /\ how # "accepted"
    <3> HIDE DEF N
    <3> QED
      BY <1>0, <1>3, <1>4, <2>1
  <2>2. CASE observations' = Touched(f.src) /\ how # "accepted"
    <3>1. /\ DOMAIN Touched(f.src) = DOMAIN observations \cup {f.src}
          /\ \A h \in DOMAIN observations \cup {f.src} : Touched(f.src)[h] = Known(h)
      BY <1>0, <1>5, BaselineUpdates
    <3> HIDE DEF N, Known
    <3> QED
      BY <1>0, <1>3, <1>4, <2>2, <3>1
  <2>3. ASSUME NEW deviation \in Deviations(f.src),
               observations' = Learned(f.src, deviation), how = "accepted"
        PROVE  \A h \in DOMAIN observations' :
                 /\ h \in Hosts
                 /\ observations'[h] <= N(h)'
                 /\ observations'[h] >= 2 \/ observations'[h] = N(h)'
    <3> DEFINE L == Learned(f.src, deviation)
               Step(h) == IF h = f.src /\ deviation # "high" THEN 1 ELSE 0
    <3>0. /\ DOMAIN L = DOMAIN observations \cup {f.src}
          /\ \A h \in DOMAIN observations : Touched(f.src)[h] = observations[h]
          /\ \A h \in DOMAIN observations \cup {f.src} : L[h] = Touched(f.src)[h] + Step(h)
      <4>1. f.src \in Hosts
        BY <1>0
      <4>2. L \in [DOMAIN observations \cup {f.src} -> Nat]
        BY <4>1, BaselineUpdates
      <4>3. \A h \in DOMAIN observations : Touched(f.src)[h] = observations[h]
        BY <4>1, BaselineUpdates
      <4>4. \A h \in DOMAIN observations \cup {f.src} : L[h] = Touched(f.src)[h] + Step(h)
        <5>1. Touched(f.src) \in [DOMAIN observations \cup {f.src} -> Nat]
          BY <4>1, BaselineUpdates
        <5>2. CASE deviation = "high"
          BY <5>1, <5>2 DEF Learned
        <5>3. CASE deviation # "high"
          BY <5>1, <5>3 DEF Learned
        <5> QED
          BY <5>2, <5>3
      <4> HIDE DEF L, Step
      <4> QED
        BY <4>2, <4>3, <4>4
    <3>1. /\ DOMAIN observations' = DOMAIN observations \cup {f.src}
          /\ \A h \in DOMAIN observations : h # f.src => observations'[h] = Known(h)
          /\ observations'[f.src] =
               Known(f.src) + (IF deviation # "high" THEN 1 ELSE 0)
      <4>1. observations' = L
        BY <2>3
      <4> HIDE DEF L
      <4> QED
        BY <1>0, <1>5, <3>0, <4>1
    <3>2. deviation = "high" => Known(f.src) >= 2
      BY <1>0, <1>4, <1>5 DEF Deviations
    <3> HIDE DEF N, Known
    <3> QED
      BY <1>0, <1>3, <1>4, <2>3, <3>1, <3>2
  <2> QED
    BY <1>1, <2>1, <2>2, <2>3
<1>7. ASSUME NEW h \in Hosts \ DOMAIN observations'
      PROVE  N(h)' = 0
  <2>1. h \notin DOMAIN observations /\ (how = "accepted" => h # f.src)
    <3>1. DOMAIN Touched(f.src) = DOMAIN observations \cup {f.src}
      BY <1>0, BaselineUpdates
    <3>2. \A deviation \in Deviations(f.src) :
            DOMAIN Learned(f.src, deviation) = DOMAIN observations \cup {f.src}
      BY <1>0, BaselineUpdates
    <3> QED
      BY <1>1, <3>1, <3>2
  <2>2. N(h) = 0
    BY <2>1 DEF NoBaselineNoneAccepted
  <2> HIDE DEF N
  <2> QED
    BY <1>3, <2>1, <2>2
<1> QED
  BY <1>2, <1>6, <1>7 DEF CountsMatchOutcomes, BaselineCountsAccepted,
                          NoBaselineNoneAccepted

-------------------------------------------------------------------------------
(* The alerts *)

(* A call adds what it has raised to what the session has raised. *)
LEMMA RaisedGrows ==
  ASSUME PipelineTypeOK, NEW f \in Flow, NEW how \in Hows,
         NEW alert \in AlertSets, NEW learned \in BOOLEAN,
         Ends(f, how, alert, learned)
  PROVE  Raised' = Raised \cup alert
<1> DEFINE n == Len(outcomes)
<1>1. /\ DOMAIN outcomes = 1..n /\ n \in Nat
      /\ DOMAIN outcomes' = 1..(n + 1)
      /\ \A i \in 1..n : outcomes'[i] = outcomes[i]
      /\ outcomes'[n + 1].alert = alert
  <2>1. /\ DOMAIN outcomes = 1..n /\ n \in Nat
        /\ DOMAIN outcomes' = 1..(n + 1)
        /\ \A i \in 1..n : outcomes'[i] = outcomes[i]
        /\ outcomes'[n + 1] =
             [flow |-> f, how |-> how, alert |-> alert, learned |-> learned]
    BY EndsProperties
  <2> QED
    BY <2>1
<1> HIDE DEF n
<1>2. \A i \in 1..(n + 1) : i \in 1..n \/ i = n + 1
  BY <1>1
<1>3. n + 1 \in 1..(n + 1) /\ \A i \in 1..n : i \in 1..(n + 1)
  BY <1>1
<1>4. ASSUME NEW b \in Raised'
      PROVE  b \in Raised \cup alert
  BY <1>1, <1>2 DEF Raised
<1>5. ASSUME NEW b \in Raised
      PROVE  b \in Raised'
  BY <1>1, <1>3 DEF Raised
<1>6. ASSUME NEW b \in alert
      PROVE  b \in Raised'
  BY <1>1, <1>3 DEF Raised
<1> QED
  BY <1>4, <1>5, <1>6

(* Only a call that raised an alert adds one, it adds its own, and behind the  *)
(* others; and it forgets one only when the deque is full.                     *)
LEMMA ProcessKeepsAlerts ==
  ASSUME PipelineTypeOK, AlertsExplained, NEW f \in Flow, Process(f)
  PROVE  AlertsExplained'
<1>1. PICK how \in Hows, alert \in AlertSets, learned \in BOOLEAN :
        /\ Ends(f, how, alert, learned)
        /\ \/ alerts' = alerts /\ alert = {}
           \/ \E a \in AlertsOf(f) : alerts' = WithAlert(a) /\ alert = {a}
  BY AlertsOfTyped DEF Process, RejectedByWindow, RejectedByFeatures, RejectedByEngine,
                       RejectedByStore, Accepted, Hows
<1>2. Raised' = Raised \cup alert /\ loaded' = loaded
  <2>1. Raised' = Raised \cup alert
    BY <1>1, RaisedGrows
  <2> QED
    BY <1>1, <2>1 DEF Ends
<1>3. /\ Elements(alerts) \subseteq loaded \cup Raised
      /\ \A i, j \in DOMAIN alerts : alerts[i] = alerts[j] => i = j
      /\ loaded \cup Raised \subseteq Elements(alerts) \/ Len(alerts) = MaxItems
      /\ \A i, j \in DOMAIN alerts :
           i < j /\ alerts[i] \notin loaded => alerts[j] \in Raised
  BY DEF AlertsExplained
<1>4. CASE alerts' = alerts /\ alert = {}
  <2>1. Raised' = Raised /\ Elements(alerts)' = Elements(alerts)
    BY <1>2, <1>4 DEF Elements
  <2> QED
    BY <1>2, <1>3, <1>4, <2>1 DEF AlertsExplained
<1>5. ASSUME NEW a \in AlertsOf(f), alerts' = WithAlert(a), alert = {a}
      PROVE  AlertsExplained'
  <2>1. a \in AlertIds
    BY AlertsOfTyped
  <2> DEFINE w == WithAlert(a)
  <2>2. /\ Len(w) <= MaxItems
        /\ Elements(w) \subseteq Elements(alerts) \cup {a}
        /\ Elements(alerts) \cup {a} \subseteq Elements(w) \/ Len(w) = MaxItems
        /\ \A i, j \in DOMAIN w : w[i] = w[j] => i = j
        /\ \A i, j \in DOMAIN w : i < j =>
             \/ w[j] = a
             \/ \E p, q \in DOMAIN alerts :
                  p < q /\ w[i] = alerts[p] /\ w[j] = alerts[q]
    BY <1>3, <2>1, WithAlertProperties
  <2>3. alerts' = w
    BY <1>5
  <2>4. Len(w) \in Nat /\ Len(alerts) \in Nat /\ MaxItems \in Nat
    <3>1. w \in Seq(AlertIds) /\ alerts \in Seq(AlertIds)
      BY <1>3, <2>1, WithAlertProperties DEF PipelineTypeOK
    <3> QED
      BY <3>1, LenProperties, PipelineAssumption
  <2>5. Len(alerts) = MaxItems => Len(w) = MaxItems
    BY <2>1, WithAlertKeepsFull
  <2> HIDE DEF w
  <2>6. Elements(w) \subseteq loaded \cup Raised'
    BY <1>2, <1>3, <1>5, <2>2
  <2>7. loaded \cup Raised' \subseteq Elements(w) \/ Len(w) = MaxItems
    BY <1>2, <1>3, <1>5, <2>2, <2>5
  <2>8. ASSUME NEW i \in DOMAIN w, NEW j \in DOMAIN w, i < j, w[i] \notin loaded
        PROVE  w[j] \in Raised'
    <3>1. CASE w[j] = a
      BY <1>2, <1>5, <3>1
    <3>2. ASSUME NEW p \in DOMAIN alerts, NEW q \in DOMAIN alerts,
                 p < q, w[i] = alerts[p], w[j] = alerts[q]
          PROVE  w[j] \in Raised'
      BY <1>2, <1>3, <2>8, <3>2
    <3> QED
      BY <2>2, <2>8, <3>1, <3>2
  <2>9. Elements(alerts)' = Elements(w)
    BY <2>3 DEF Elements
  <2> QED
    BY <1>2, <2>2, <2>3, <2>6, <2>7, <2>8, <2>9 DEF AlertsExplained
<1> QED
  BY <1>1, <1>4, <1>5

-------------------------------------------------------------------------------
(* The last_* fields *)

(* An event the extractors passed is described by all that was computed for it. *)
LEMMA ProcessKeepsLast ==
  ASSUME PipelineTypeOK, LastDescribesOneEvent, NEW f \in Flow, Process(f)
  PROVE  LastDescribesOneEvent'
<1> DEFINE Through == {"accepted", "engine", "store"}
           Early == {"window", "features"}
<1>1. PICK how \in Hows, alert \in AlertSets, learned \in BOOLEAN :
        /\ Ends(f, how, alert, learned)
        /\ \/ how \in Early /\ lastOf' = lastOf
           \/ how = "engine" /\ lastOf' = Described(f)
           \/ /\ how \in {"store", "accepted"}
              /\ lastOf' = [Described(f) EXCEPT !.results = <<f.id>>]
  BY AlertsOfTyped DEF Process, RejectedByWindow, RejectedByFeatures, RejectedByEngine,
         RejectedByStore, Accepted, Hows
<1>2. /\ DOMAIN outcomes = 1..Len(outcomes) /\ Len(outcomes) \in Nat
      /\ DOMAIN outcomes' = 1..(Len(outcomes) + 1)
      /\ \A i \in 1..Len(outcomes) : outcomes'[i] = outcomes[i]
      /\ outcomes'[Len(outcomes) + 1] =
           [flow |-> f, how |-> how, alert |-> alert, learned |-> learned]
  BY <1>1, EndsProperties
<1>3. CASE how \in Early /\ lastOf' = lastOf
  <2>1. ASSUME NEW i \in LastThrough'
        PROVE  i \in LastThrough /\ outcomes'[i] = outcomes[i]
    <3>1. /\ i \in 1..(Len(outcomes) + 1)
          /\ outcomes'[i].how \in Through
          /\ \A j \in 1..(Len(outcomes) + 1) : j > i => outcomes'[j].how \in Early
      BY <1>2, <2>1 DEF LastThrough
    <3>2. outcomes'[Len(outcomes) + 1].how \in Early
      BY <1>2, <1>3
    <3>3. i # Len(outcomes) + 1
      BY <3>1, <3>2
    <3>4. i \in 1..Len(outcomes) /\ outcomes'[i] = outcomes[i]
      BY <1>2, <3>1, <3>3
    <3>5. \A j \in 1..Len(outcomes) : j > i => outcomes[j].how \in Early
      <4>1. \A j \in 1..Len(outcomes) :
              j \in 1..(Len(outcomes) + 1) /\ outcomes'[j] = outcomes[j]
        BY <1>2
      <4> QED
        BY <3>1, <4>1
    <3> QED
      BY <1>2, <3>1, <3>4, <3>5 DEF LastThrough
  <2> QED
    BY <1>3, <2>1 DEF LastDescribesOneEvent
<1>4. CASE how \in Through
  <2>1. ASSUME NEW i \in LastThrough'
        PROVE  i = Len(outcomes) + 1
    <3>1. /\ i \in 1..(Len(outcomes) + 1)
          /\ \A j \in 1..(Len(outcomes) + 1) : j > i => outcomes'[j].how \in Early
      BY <1>2, <2>1 DEF LastThrough
    <3>2. outcomes'[Len(outcomes) + 1].how \notin Early
      BY <1>2, <1>4
    <3>3. ~(Len(outcomes) + 1 > i)
      BY <1>2, <3>1, <3>2
    <3> QED
      BY <1>2, <3>1, <3>3
  <2>2. /\ lastOf'.features = <<f.id>>
        /\ lastOf'.deviation = <<f.id>>
        /\ how # "engine" => lastOf'.results = <<f.id>>
    BY <1>1, <1>4 DEF Described, PipelineTypeOK
  <2>3. /\ outcomes'[Len(outcomes) + 1].flow.id = f.id
        /\ outcomes'[Len(outcomes) + 1].how = how
    BY <1>2
  <2> QED
    BY <2>1, <2>2, <2>3 DEF LastDescribesOneEvent
<1> QED
  BY <1>1, <1>3, <1>4 DEF Hows

-------------------------------------------------------------------------------
(* The causes of a rejection *)

(* The calls for a host in a range are finitely many, and a call adds itself. *)
LEMMA CallsGrow ==
  ASSUME PipelineTypeOK, NEW f \in Flow, NEW how \in Hows,
         NEW alert \in AlertSets, NEW learned \in BOOLEAN,
         Ends(f, how, alert, learned),
         NEW n, n = Len(outcomes), NEW h \in Hosts, NEW a \in 1..(n + 1)
  PROVE  /\ \A i \in 0..n : CallsOf(h, a, i)' = CallsOf(h, a, i)
         /\ CallsOf(h, a, n + 1)' =
              CallsOf(h, a, n) \cup (IF h = f.src THEN {n + 1} ELSE {})
         /\ Cardinality(CallsOf(h, a, n)) \in Nat
         /\ Cardinality(CallsOf(h, a, n + 1)') =
              Cardinality(CallsOf(h, a, n)) + (IF h = f.src THEN 1 ELSE 0)
<1> DEFINE C == CallsOf(h, a, n)
<1>1. /\ n \in Nat
      /\ \A i \in 1..n : outcomes'[i] = outcomes[i]
      /\ outcomes'[n + 1].flow = f
  <2>1. /\ n \in Nat
        /\ \A i \in 1..n : outcomes'[i] = outcomes[i]
        /\ outcomes'[n + 1] =
             [flow |-> f, how |-> how, alert |-> alert, learned |-> learned]
    BY EndsProperties
  <2> QED
    BY <2>1
<1>2. ASSUME NEW i \in 0..n
      PROVE  CallsOf(h, a, i)' = CallsOf(h, a, i)
  <2>1. \A k \in a..i : k \in 1..n
    BY <1>1
  <2> QED
    BY <1>1, <2>1 DEF CallsOf
<1>3. /\ a..(n + 1) = (a..n) \cup {n + 1}
      /\ n + 1 \notin a..n
      /\ IsFiniteSet(a..n)
      /\ a..n \subseteq 1..n
  <2>1. a \in Nat \ {0} /\ n \in Nat /\ a <= n + 1
    BY <1>1
  <2>2. \A i \in a..n : i \in 1..n
    BY <2>1
  <2> QED
    BY <2>1, <2>2, IntervalGrows
<1>4. CallsOf(h, a, n + 1)' = C \cup (IF h = f.src THEN {n + 1} ELSE {})
  BY <1>1, <1>3 DEF CallsOf
<1>5. IsFiniteSet(C) /\ n + 1 \notin C /\ Cardinality(C) \in Nat
  <2>1. C \in SUBSET (a..n)
    BY DEF CallsOf
  <2> HIDE DEF C
  <2> QED
    BY <1>3, <2>1, FS_Subset, FS_CardinalityType
<1>6. Cardinality(CallsOf(h, a, n + 1)') = Cardinality(C) + (IF h = f.src THEN 1 ELSE 0)
  <2>1. Cardinality(C \cup {n + 1}) = Cardinality(C) + 1
    <3> HIDE DEF C
    <3> QED
      BY <1>5, FS_AddElement
  <2>2. CASE h = f.src
    <3>1. CallsOf(h, a, n + 1)' = C \cup {n + 1}
      BY <1>4, <2>2
    <3> QED
      BY <2>1, <2>2, <3>1
  <2>3. CASE h # f.src
    <3>1. CallsOf(h, a, n + 1)' = C
      BY <1>4, <2>3
    <3> HIDE DEF C
    <3> QED
      BY <1>5, <2>3, <3>1
  <2> QED
    BY <2>2, <2>3
<1> QED
  BY <1>1, <1>2, <1>4, <1>5, <1>6

(* Every call is one arrival of its host, so the correspondence is kept. *)
LEMMA ProcessKeepsArrivals ==
  ASSUME PipelineTypeOK, ArrivalsAreCalls, NEW f \in Flow, Arrive(f),
         NEW how \in Hows, NEW alert \in AlertSets, NEW learned \in BOOLEAN,
         Ends(f, how, alert, learned)
  PROVE  ArrivalsAreCalls'
<1> DEFINE Behind(h, j, m) == Cardinality(CallsOf(h, j + 1, m))
<1>0. PICK n : n = Len(outcomes)
  OBVIOUS
<1>1. /\ n \in Nat
      /\ Len(outcomes') = n + 1
      /\ \A i \in 1..n : outcomes'[i] = outcomes[i]
      /\ outcomes'[n + 1].flow = f
  <2>1. /\ n \in Nat
        /\ Len(outcomes') = n + 1
        /\ \A i \in 1..n : outcomes'[i] = outcomes[i]
        /\ outcomes'[n + 1] =
             [flow |-> f, how |-> how, alert |-> alert, learned |-> learned]
    BY <1>0, EndsProperties
  <2> QED
    BY <2>1
<1> SUFFICES ASSUME NEW h \in Hosts, NEW p \in DOMAIN arrived'[h]
             PROVE  \E j \in CallsOf(h, 1, n + 1)' :
                      /\ outcomes'[j].flow = arrived'[h][p]
                      /\ Behind(h, j, n + 1)' = Len(arrived'[h]) - p
  BY <1>1 DEF ArrivalsAreCalls
<1>2. WindowTypeOK /\ f.src \in Hosts
  BY FlowAssumption DEF PipelineTypeOK
<1>3. /\ arrived'[h] = IF h = f.src THEN Append(arrived[h], f) ELSE arrived[h]
      /\ arrived[h] \in Seq(Flow)
      /\ arrived'[h] \in Seq(Flow)
      /\ \A i \in 1..Len(arrived[h]) : arrived'[h][i] = arrived[h][i]
  BY <1>2, ArrivalsGrow DEF WindowTypeOK
<1>4. /\ Len(arrived[h]) \in Nat
      /\ DOMAIN arrived[h] = 1..Len(arrived[h])
      /\ DOMAIN arrived'[h] = 1..Len(arrived'[h])
      /\ h = f.src => /\ Len(arrived'[h]) = Len(arrived[h]) + 1
                      /\ arrived'[h][Len(arrived[h]) + 1] = f
      /\ h # f.src => Len(arrived'[h]) = Len(arrived[h])
  <2>1. /\ Append(arrived[h], f) \in Seq(Flow)
        /\ Len(Append(arrived[h], f)) = Len(arrived[h]) + 1
        /\ Append(arrived[h], f)[Len(arrived[h]) + 1] = f
    BY <1>3, AppendElements
  <2>2. /\ Len(arrived[h]) \in Nat
        /\ DOMAIN arrived[h] = 1..Len(arrived[h])
        /\ DOMAIN arrived'[h] = 1..Len(arrived'[h])
    BY <1>3, LenProperties
  <2> QED
    BY <1>3, <2>1, <2>2
<1>5. 1 \in 1..(n + 1)
  BY <1>1
<1>6. CallsOf(h, 1, n + 1)' =
        CallsOf(h, 1, n) \cup (IF h = f.src THEN {n + 1} ELSE {})
  BY <1>0, <1>5, CallsGrow
<1>7. CASE p \in 1..Len(arrived[h])
  <2>1. PICK j \in CallsOf(h, 1, n) :
          /\ outcomes[j].flow = arrived[h][p]
          /\ Behind(h, j, n) = Len(arrived[h]) - p
    BY <1>0, <1>4, <1>7 DEF ArrivalsAreCalls
  <2>2. j \in 1..n /\ j + 1 \in 1..(n + 1)
    BY <1>1 DEF CallsOf
  <2>3. Behind(h, j, n + 1)' = Behind(h, j, n) + (IF h = f.src THEN 1 ELSE 0)
    BY <1>0, <2>2, CallsGrow
  <2>4. outcomes'[j].flow = arrived'[h][p]
    BY <1>1, <1>3, <1>7, <2>1, <2>2
  <2>5. Behind(h, j, n + 1)' = Len(arrived'[h]) - p
    <3> HIDE DEF Behind
    <3> QED
      BY <1>4, <1>7, <2>1, <2>3
  <2> QED
    BY <1>6, <2>1, <2>4, <2>5
<1>8. CASE p \notin 1..Len(arrived[h])
  <2>1. h = f.src /\ p = Len(arrived[h]) + 1 /\ Len(arrived'[h]) - p = 0
    BY <1>4, <1>8
  <2>2. CallsOf(h, (n + 1) + 1, n + 1)' = {}
    <3>1. ((n + 1) + 1)..(n + 1) = {}
      BY <1>1
    <3> QED
      BY <3>1 DEF CallsOf
  <2>3. Behind(h, n + 1, n + 1)' = Len(arrived'[h]) - p
    BY <2>1, <2>2, FS_EmptySet
  <2>4. outcomes'[n + 1].flow = arrived'[h][p]
    BY <1>1, <1>4, <2>1
  <2> QED
    BY <1>6, <2>1, <2>3, <2>4
<1> QED
  BY <1>7, <1>8

(* What the feature window shows is among the last FeatureCap of the arrivals. *)
LEMMA RecentOfTail ==
  ASSUME NEW b \in Seq(Flow), NEW a \in Seq(Flow), TailOf(b, a), NEW n \in Nat,
         NEW g \in Elements(Recent(b, n))
  PROVE  \E p \in DOMAIN a : a[p] = g /\ Len(a) - p < n
<1>1. /\ Len(b) \in Nat /\ Len(a) \in Nat /\ Len(b) <= Len(a)
      /\ DOMAIN a = 1..Len(a)
  BY LenProperties DEF TailOf
<1>2. PICK k \in 0..Len(b) :
        /\ Recent(b, n) = SubSeq(b, k + 1, Len(b))
        /\ Recent(b, n) \in Seq(Flow)
        /\ Len(Recent(b, n)) = Len(b) - k
        /\ Len(Recent(b, n)) <= n
        /\ \A i \in 1..(Len(b) - k) : Recent(b, n)[i] = b[k + i]
        /\ k > 0 => Len(b) - k = n
  BY RecentProperties, Zenon
<1>3. DOMAIN Recent(b, n) = 1..(Len(b) - k)
  BY <1>2, LenProperties
<1>4. PICK i \in 1..(Len(b) - k) : g = Recent(b, n)[i]
  BY <1>3 DEF Elements
<1> DEFINE p == (Len(a) - Len(b)) + (k + i)
<1>5. k + i \in 1..Len(b) /\ p \in 1..Len(a) /\ Len(a) - p < n
  BY <1>1, <1>2, <1>4
<1>6. g = a[p]
  BY <1>2, <1>4, <1>5 DEF TailOf
<1> QED
  BY <1>1, <1>5, <1>6

(* An event the extractors reject has its cause among the last FeatureCap of its *)
(* host; and what was recent for an earlier call stays so.                       *)
LEMMA ProcessKeepsCauses ==
  ASSUME PipelineTypeOK, DropInv, ArrivalsAreCalls, RejectionHasRecentCause,
         NEW f \in Flow, Process(f)
  PROVE  ArrivalsAreCalls' /\ RejectionHasRecentCause'
<1>0. PICK n : n = Len(outcomes)
  OBVIOUS
<1>1. PICK how \in Hows, alert \in AlertSets, learned \in BOOLEAN :
        /\ Ends(f, how, alert, learned)
        /\ AddReturns(f) \/ AddRaises(f)
        /\ how = "features" => AddReturns(f) /\ ExtractorsRaise(FeatureWindow(f))
  BY AlertsOfTyped DEF Process, RejectedByWindow, RejectedByFeatures, RejectedByEngine,
         RejectedByStore, Accepted, Hows
<1>2. /\ n \in Nat
      /\ DOMAIN outcomes = 1..n
      /\ DOMAIN outcomes' = 1..(n + 1)
      /\ Len(outcomes') = n + 1
      /\ \A i \in 1..n : outcomes'[i] = outcomes[i]
      /\ outcomes'[n + 1] =
           [flow |-> f, how |-> how, alert |-> alert, learned |-> learned]
      /\ outcomes \in Seq(Outcome)
  BY <1>0, <1>1, EndsProperties DEF PipelineTypeOK
<1>3. Arrive(f) /\ f.src \in Hosts /\ WindowTypeOK
  BY <1>1, FlowAssumption DEF AddReturns, AddRaises, PipelineTypeOK
<1>4. ArrivalsAreCalls'
  BY <1>1, <1>3, ProcessKeepsArrivals
<1>5. ASSUME NEW i \in 1..n
      PROVE  RecentOfHost(i)' = RecentOfHost(i)
  <2>0. PICK h : h = outcomes[i].flow.src
    OBVIOUS
  <2>1. h \in Hosts /\ outcomes'[i] = outcomes[i]
    <3>1. outcomes[i] \in Outcome
      BY <1>2, ElementOfSeq
    <3> QED
      BY <1>2, <2>0, <3>1, FlowAssumption DEF Outcome
  <2>2. i \in 0..n /\ 1 \in 1..(n + 1)
    BY <1>2
  <2>3. \A a \in 1..(n + 1) : CallsOf(h, a, i)' = CallsOf(h, a, i)
    BY <1>0, <1>1, <2>1, <2>2, CallsGrow
  <2>4. CallsOf(h, 1, i)' = CallsOf(h, 1, i)
    BY <2>2, <2>3
  <2>5. ASSUME NEW j \in CallsOf(h, 1, i)
        PROVE  /\ outcomes'[j] = outcomes[j]
               /\ CallsOf(h, j + 1, i)' = CallsOf(h, j + 1, i)
    <3>1. j \in 1..n /\ j + 1 \in 1..(n + 1)
      BY <1>2, <2>2 DEF CallsOf
    <3> QED
      BY <1>2, <2>3, <3>1
  <2>6. RecentOfHost(i) =
          {outcomes[j].flow : j \in
             {j \in CallsOf(h, 1, i) : Cardinality(CallsOf(h, j + 1, i)) < FeatureCap}}
    BY <2>0 DEF RecentOfHost
  <2>7. RecentOfHost(i)' =
          {outcomes'[j].flow : j \in
             {j \in CallsOf(h, 1, i)' : Cardinality(CallsOf(h, j + 1, i)') < FeatureCap}}
    BY <2>0, <2>1 DEF RecentOfHost
  <2> QED
    BY <2>4, <2>5, <2>6, <2>7
<1>6. ASSUME how = "features"
      PROVE  Elements(FeatureWindow(f)) \subseteq RecentOfHost(n + 1)'
  <2> DEFINE h == f.src
  <2>1. DropInv' /\ WindowTypeOK'
    BY <1>1, <1>3, AddKeepsDrops, AddKeepsWindowType
  <2>2. /\ events'[h] \in Seq(Flow)
        /\ arrived'[h] \in Seq(Flow)
        /\ TailOf(events'[h], arrived'[h])
    BY <1>3, <2>1 DEF DropInv, WindowTypeOK
  <2> SUFFICES ASSUME NEW g \in Elements(FeatureWindow(f))
               PROVE  g \in RecentOfHost(n + 1)'
    OBVIOUS
  <2>3. PICK p \in DOMAIN arrived'[h] :
          arrived'[h][p] = g /\ Len(arrived'[h]) - p < FeatureCap
    BY <2>2, RecentOfTail, PipelineAssumption DEF FeatureWindow
  <2>4. PICK c \in CallsOf(h, 1, n + 1)' :
          /\ outcomes'[c].flow = g
          /\ Cardinality(CallsOf(h, c + 1, n + 1)') = Len(arrived'[h]) - p
    BY <1>2, <1>3, <1>4, <2>3 DEF ArrivalsAreCalls
  <2>5. outcomes'[n + 1].flow.src = h
    BY <1>2
  <2>6. RecentOfHost(n + 1)' =
          {outcomes'[j].flow : j \in
             {j \in CallsOf(h, 1, n + 1)' :
                Cardinality(CallsOf(h, j + 1, n + 1)') < FeatureCap}}
    BY <2>5 DEF RecentOfHost
  <2> QED
    BY <2>3, <2>4, <2>6
<1>7. ASSUME NEW i \in DOMAIN outcomes', outcomes'[i].how = "features"
      PROVE  \/ \E g \in RecentOfHost(i)' : g.bad
             \/ \E g1, g2 \in RecentOfHost(i)' : g1.aware # g2.aware
  <2>1. CASE i \in 1..n
    BY <1>2, <1>5, <1>7, <2>1 DEF RejectionHasRecentCause
  <2>2. CASE i = n + 1
    <3>1. how = "features"
      BY <1>2, <1>7, <2>2
    <3>2. ExtractorsRaise(FeatureWindow(f))
      BY <1>1, <3>1
    <3> QED
      BY <1>6, <2>2, <3>1, <3>2 DEF ExtractorsRaise
  <2> QED
    BY <1>2, <1>7, <2>1, <2>2
<1>8. RejectionHasRecentCause'
  BY <1>7 DEF RejectionHasRecentCause
<1> QED
  BY <1>4, <1>8

-------------------------------------------------------------------------------
(* The invariants *)

PipelineInv ==
  /\ PipelineTypeOK
  /\ DropInv
  /\ CountsMatchOutcomes
  /\ NoBaselineNoneAccepted
  /\ AlertsExplained
  /\ LastDescribesOneEvent
  /\ ArrivalsAreCalls
  /\ RejectionHasRecentCause

(* A session without events satisfies every part but the types, with the alerts it *)
(* has loaded and no other.                                                         *)
LEMMA EmptySession ==
  ASSUME outcomes = <<>>, stats = NoStats, observations = NoBaselines,
         arrived = EmptyStore, loaded = Elements(alerts),
         \A i, j \in DOMAIN alerts : alerts[i] = alerts[j] => i = j
  PROVE  /\ CountsMatchOutcomes
         /\ NoBaselineNoneAccepted
         /\ AlertsExplained
         /\ LastDescribesOneEvent
         /\ ArrivalsAreCalls
         /\ RejectionHasRecentCause
<1>1. DOMAIN <<>> = {} /\ Len(<<>>) = 0 /\ Cardinality({}) = 0
  BY EmptySeq, FS_EmptySet
<1>2. CountsMatchOutcomes
  BY <1>1 DEF CountsMatchOutcomes, EveryEventCounted, BaselineCountsAccepted,
              NoStats, NoBaselines
<1>3. NoBaselineNoneAccepted
  BY <1>1 DEF NoBaselineNoneAccepted, Count
<1>4. AlertsExplained
  <2>1. Raised = {}
    BY <1>1 DEF Raised
  <2>2. \A i \in DOMAIN alerts : alerts[i] \in loaded
    BY DEF Elements
  <2> QED
    BY <2>1, <2>2 DEF AlertsExplained
<1>5. LastDescribesOneEvent
  BY <1>1 DEF LastDescribesOneEvent, LastThrough
<1>6. ArrivalsAreCalls
  BY <1>1 DEF ArrivalsAreCalls, EmptyStore
<1>7. RejectionHasRecentCause
  BY <1>1 DEF RejectionHasRecentCause
<1> QED
  BY <1>2, <1>3, <1>4, <1>5, <1>6, <1>7

(* One call of process(), however it ends, keeps the invariant. *)
LEMMA ProcessKeepsInv ==
  ASSUME PipelineInv, NEW f \in Flow, Process(f)
  PROVE  PipelineInv'
<1>1. AddReturns(f) \/ AddRaises(f)
  BY DEF Process, RejectedByWindow, RejectedByFeatures, RejectedByEngine,
         RejectedByStore, Accepted
<1>2. \A i, j \in DOMAIN alerts : alerts[i] = alerts[j] => i = j
  BY DEF PipelineInv, AlertsExplained
<1>3. PipelineTypeOK'
  BY <1>2, ProcessKeepsType DEF PipelineInv
<1>4. DropInv'
  BY <1>1, AddKeepsDrops DEF PipelineInv, PipelineTypeOK
<1>5. CountsMatchOutcomes' /\ NoBaselineNoneAccepted'
  BY ProcessKeepsCounts DEF PipelineInv
<1>6. AlertsExplained'
  BY ProcessKeepsAlerts DEF PipelineInv
<1>7. LastDescribesOneEvent'
  BY ProcessKeepsLast DEF PipelineInv
<1>8. ArrivalsAreCalls' /\ RejectionHasRecentCause'
  BY ProcessKeepsCauses DEF PipelineInv
<1> QED
  BY <1>3, <1>4, <1>5, <1>6, <1>7, <1>8 DEF PipelineInv

(* A session reset starts from nothing, also when clearing the alerts raises. *)
LEMMA ResetKeepsInv ==
  ASSUME PipelineInv, ResetReturns \/ ResetRaises
  PROVE  PipelineInv'
<1>1. NewSession /\ (UNCHANGED lastOf \/ lastOf' = NoLast)
  BY DEF ResetReturns, ResetRaises
<1>2. PipelineTypeOK'
  BY <1>1, ResetKeepsType DEF PipelineInv
<1>3. DropInv'
  BY <1>1, NewWindowProperties DEF NewSession
<1>4. /\ outcomes' = <<>> /\ stats' = NoStats /\ observations' = NoBaselines
      /\ arrived' = EmptyStore
      /\ loaded' = Elements(alerts')
      /\ \A i, j \in DOMAIN alerts' : alerts'[i] = alerts'[j] => i = j
  BY <1>1, EmptySeq DEF NewSession, NewWindow, Elements
<1>5. /\ CountsMatchOutcomes'
      /\ NoBaselineNoneAccepted'
      /\ AlertsExplained'
      /\ LastDescribesOneEvent'
      /\ ArrivalsAreCalls'
      /\ RejectionHasRecentCause'
  <2>1. (/\ outcomes = <<>> /\ stats = NoStats /\ observations = NoBaselines
         /\ arrived = EmptyStore /\ loaded = Elements(alerts)
         /\ \A i, j \in DOMAIN alerts : alerts[i] = alerts[j] => i = j)'
    BY <1>4 DEF NoStats, NoBaselines, EmptyStore, Elements
  <2> QED
    BY <2>1, EmptySession, PTL
<1> QED
  BY <1>2, <1>3, <1>5 DEF PipelineInv

(* The inductive invariant of the pipeline. *)
LEMMA PipelineInvCorrect == PipelineSpec => []PipelineInv
<1>1. PipelineInit => PipelineInv
  <2> SUFFICES ASSUME PipelineInit
               PROVE  PipelineInv
    OBVIOUS
  <2>1. PipelineTypeOK
    <3>1. PICK n \in 0..MaxItems : alerts \in [1..n -> Persisted]
      BY DEF PipelineInit
    <3>2. n \in Nat /\ n <= MaxItems
      BY PipelineAssumption
    <3>3. alerts \in [1..n -> AlertIds]
      BY <3>1 DEF AlertIds
    <3>4. alerts \in Seq(AlertIds) /\ Len(alerts) = n
      BY <3>2, <3>3
    <3>5. WindowTypeOK
      BY EmptySeq DEF PipelineInit, WindowInit, WindowTypeOK, EmptyStore, Elements
    <3> QED
      BY <3>2, <3>4, <3>5, EmptySeq
      DEF PipelineInit, PipelineTypeOK, NoStats, NoBaselines, NoLast, Marks
  <2>2. DropInv
    BY EmptyDropInv DEF PipelineInit, WindowInit, EmptyStore
  <2> QED
    BY <2>1, <2>2, EmptySession DEF PipelineInit, WindowInit, PipelineInv
<1>2. PipelineInv /\ [PipelineNext]_pipelineVars => PipelineInv'
  <2> SUFFICES ASSUME PipelineInv, [PipelineNext]_pipelineVars
               PROVE  PipelineInv'
    OBVIOUS
  <2>1. ASSUME NEW f \in Flow, Process(f)
        PROVE  PipelineInv'
    BY <2>1, ProcessKeepsInv
  <2>2. CASE ResetReturns \/ ResetRaises
    BY <2>2, ResetKeepsInv
  <2>3. CASE UNCHANGED pipelineVars
    <3>1. /\ keys' = keys /\ events' = events /\ arrived' = arrived
          /\ overdue' = overdue /\ last' = last
          /\ stats' = stats /\ observations' = observations /\ alerts' = alerts
          /\ loaded' = loaded /\ lastOf' = lastOf /\ outcomes' = outcomes
      BY <2>3 DEF pipelineVars, windowVars, ownVars
    <3>2. PipelineTypeOK'
      BY <3>1 DEF PipelineInv, PipelineTypeOK, WindowTypeOK, Elements
    <3>3. DropInv'
      BY <3>1 DEF PipelineInv, DropInv, MayDrop
    <3>4. CountsMatchOutcomes' /\ NoBaselineNoneAccepted'
      BY <3>1 DEF PipelineInv, CountsMatchOutcomes, EveryEventCounted,
                  BaselineCountsAccepted, NoBaselineNoneAccepted, Count
    <3>5. AlertsExplained' /\ LastDescribesOneEvent'
      BY <3>1 DEF PipelineInv, AlertsExplained, Raised, Elements,
                  LastDescribesOneEvent, LastThrough
    <3>6. ArrivalsAreCalls' /\ RejectionHasRecentCause'
      <4>1. \A h, a, i : CallsOf(h, a, i)' = CallsOf(h, a, i)
        BY <3>1 DEF CallsOf
      <4>2. \A i : RecentOfHost(i)' = RecentOfHost(i)
        BY <3>1 DEF RecentOfHost, CallsOf
      <4>3. ArrivalsAreCalls'
        BY <3>1, <4>1 DEF PipelineInv, ArrivalsAreCalls
      <4>4. RejectionHasRecentCause'
        BY <3>1, <4>2 DEF PipelineInv, RejectionHasRecentCause
      <4> QED
        BY <4>3, <4>4
    <3> QED
      BY <3>2, <3>3, <3>4, <3>5, <3>6 DEF PipelineInv
  <2> QED
    BY <2>1, <2>2, <2>3 DEF PipelineNext
<1> QED
  BY <1>1, <1>2, PTL DEF PipelineSpec

(* The counters of PipelineStats and the baselines agree with how the calls of  *)
(* the session ended, whichever stage of process() raised.                      *)
THEOREM CountersAgree == PipelineSpec => []CountsMatchOutcomes
<1>1. PipelineInv => CountsMatchOutcomes
  BY DEF PipelineInv
<1> QED
  BY <1>1, PipelineInvCorrect, PTL

(* Every alert shown was loaded when the process began or raised in this        *)
(* session, none twice and the loaded ones first; and none is forgotten before  *)
(* the deque is full.                                                           *)
THEOREM AlertsHaveACause == PipelineSpec => []AlertsExplained
<1>1. PipelineInv => AlertsExplained
  BY DEF PipelineInv
<1> QED
  BY <1>1, PipelineInvCorrect, PTL

(* The last_* fields never mix two events, but for the detector results of an   *)
(* engine that raised.                                                          *)
THEOREM LastFieldsAgree == PipelineSpec => []LastDescribesOneEvent
<1>1. PipelineInv => LastDescribesOneEvent
  BY DEF PipelineInv
<1> QED
  BY <1>1, PipelineInvCorrect, PTL

(* A host is blocked by a malformed event for at most FeatureCap of its events. *)
THEOREM RejectionsEnd == PipelineSpec => []RejectionHasRecentCause
<1>1. PipelineInv => RejectionHasRecentCause
  BY DEF PipelineInv
<1> QED
  BY <1>1, PipelineInvCorrect, PTL

(* The window store keeps its promises inside the pipeline: also over session   *)
(* resets, and whatever a later stage does with the event that was added.       *)
THEOREM SessionsKeepWindows ==
  PipelineSpec => [](OnlyOutdatedOrSurplusDropped /\ OrderedBucketsFresh)
<1>1. PipelineInit => OrderedBucketsFresh
  <2>1. Elements(<<>>) = {}
    BY EmptySeq DEF Elements
  <2> QED
    BY <2>1 DEF PipelineInit, WindowInit, OrderedBucketsFresh
<1>2. PipelineInv /\ OrderedBucketsFresh /\ [PipelineNext]_pipelineVars
        => OrderedBucketsFresh'
  <2> SUFFICES ASSUME PipelineInv, OrderedBucketsFresh, [PipelineNext]_pipelineVars
               PROVE  OrderedBucketsFresh'
    OBVIOUS
  <2>1. ASSUME NEW f \in Flow, Process(f)
        PROVE  OrderedBucketsFresh'
    <3>1. AddReturns(f) \/ AddRaises(f)
      BY <2>1 DEF Process, RejectedByWindow, RejectedByFeatures, RejectedByEngine,
                  RejectedByStore, Accepted
    <3> QED
      BY <3>1, AddLeavesFresh DEF PipelineInv, PipelineTypeOK
  <2>2. CASE ResetReturns \/ ResetRaises
    <3>1. Elements(last)' = {}
      BY <2>2, EmptySeq DEF ResetReturns, ResetRaises, NewSession, NewWindow, Elements
    <3> QED
      BY <3>1 DEF OrderedBucketsFresh
  <2>3. CASE UNCHANGED pipelineVars
    BY <2>3 DEF pipelineVars, windowVars, OrderedBucketsFresh, Elements, InOrder
  <2> QED
    BY <2>1, <2>2, <2>3 DEF PipelineNext
<1>3. PipelineInv => OnlyOutdatedOrSurplusDropped
  BY DropInvMeans DEF PipelineInv, PipelineTypeOK
<1> QED
  BY <1>1, <1>2, <1>3, PipelineInvCorrect, PTL DEF PipelineSpec
===============================================================================
