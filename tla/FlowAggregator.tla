---------------------------- MODULE FlowAggregator -----------------------------
(***************************************************************************)
(* FlowAggregator of backend/processing/flow_aggregator.py, which          *)
(* replay/pcap_replay.py puts between a capture and the pipeline.          *)
(*                                                                         *)
(* A packet is its 5-tuple and its timestamp, and is known by its number   *)
(* in the capture.  What a flow accumulates (packets, bytes, flags, the    *)
(* first DNS, TLS and QUIC metadata) is abstracted to the set of numbers   *)
(* of its packets.  _flows is a dict, and its order decides ties and the   *)
(* order of a flush: it is a sequence here.                                *)
(***************************************************************************)
EXTENDS Integers, Sequences

CONSTANTS Keys,         \* the 5-tuples
          Times,        \* the timestamps of the packets, seconds since 1970
          IdleTimeout,  \* idle_timeout_s
          MaxFlows,     \* max_flows
          MaxPackets    \* bound: packets in the capture

ASSUME AggregatorAssumption ==
  /\ Times \subseteq Nat
  /\ IdleTimeout \in Nat \ {0} /\ MaxFlows \in Nat \ {0} /\ MaxPackets \in Nat

VARIABLES open,     \* _flows
          emitted,  \* what add and flush returned, oldest first; its length is _seq
          added,    \* history: the packets, in order of arrival
          cuts      \* history: <<k, n>>, the flow of k was emitted after packet n
                    \* though it was not idle

aggregatorVars == <<open, emitted, added, cuts>>

Packets == [key : Keys, time : Times]
Flows == [key : Keys, first : Times, last : Times, packets : SUBSET (1..MaxPackets)]

AggregatorInit == open = <<>> /\ emitted = <<>> /\ added = <<>> /\ cuts = {}

-------------------------------------------------------------------------------
(* add *)

IsOpen(k) == \E i \in DOMAIN open : open[i].key = k

\* The place of the flow of k in the dict.
At(k) == CHOOSE i \in DOMAIN open : open[i].key = k

\* Variant for the mutation runs: a gap of exactly the timeout ends a flow as well.
IsIdleAtTimeout(p) == IsOpen(p.key) /\ p.time - open[At(p.key)].last >= IdleTimeout

\* The flow of p has been silent for too long when p arrives.  A late p is never.
IsIdle(p) == IsOpen(p.key) /\ p.time - open[At(p.key)].last > IdleTimeout

\* Variant for the mutation runs: the flow that was emitted as idle goes on.
StateGoesOn(p) ==
  IF IsOpen(p.key) THEN open[At(p.key)]
  ELSE [key |-> p.key, first |-> p.time, last |-> p.time, packets |-> {}]

\* The flow that takes p: the one that is open, unless it is idle, or a new one.
State(p) ==
  IF IsOpen(p.key) /\ ~IsIdle(p) THEN open[At(p.key)]
  ELSE [key |-> p.key, first |-> p.time, last |-> p.time, packets |-> {}]

\* Variant for the mutation runs: a late packet sets the flow's end back.
UpdatedLate(p) ==
  [State(p) EXCEPT !.last = p.time, !.packets = @ \cup {Len(added) + 1}]

Updated(p) ==
  [State(p) EXCEPT !.last = IF p.time > @ THEN p.time ELSE @,
                   !.packets = @ \cup {Len(added) + 1}]

\* A new flow under a key the dict has takes the place of the old one.
Placed(p) ==
  IF IsOpen(p.key) THEN [open EXCEPT ![At(p.key)] = Updated(p)]
  ELSE Append(open, Updated(p))

Expired(p) == IF IsIdle(p) THEN <<open[At(p.key)]>> ELSE <<>>

\* min over the dict: of the flows that were silent the longest the first one.
Oldest(flows) ==
  CHOOSE i \in DOMAIN flows : \A j \in DOMAIN flows :
    \/ flows[i].last < flows[j].last
    \/ flows[i].last = flows[j].last /\ i <= j

Without(flows, i) ==
  [j \in 1..Len(flows) - 1 |-> IF j < i THEN flows[j] ELSE flows[j + 1]]

\* Variant for the mutation runs: the capacity is exceeded by one.
OverfullByMore(flows) == Len(flows) > MaxFlows + 1

Overfull(flows) == Len(flows) > MaxFlows

AddKeeps(p) ==
  /\ Len(added) < MaxPackets
  /\ ~Overfull(Placed(p))
  /\ added' = Append(added, p)
  /\ open' = Placed(p)
  /\ emitted' = emitted \o Expired(p)
  /\ UNCHANGED cuts

\* There is a flow too many, and the oldest is emitted: p's own when p is late.
AddEvicts(p) ==
  /\ Len(added) < MaxPackets
  /\ Overfull(Placed(p))
  /\ added' = Append(added, p)
  /\ LET flows == Placed(p)
         i == Oldest(flows)
     IN  /\ open' = Without(flows, i)
         /\ emitted' = emitted \o Expired(p) \o <<flows[i]>>
         /\ cuts' = cuts \cup {<<flows[i].key, Len(added) + 1>>}

-------------------------------------------------------------------------------
(* flush *)

\* Every flow is emitted, in the order of the dict.
Flush ==
  /\ open # <<>>
  /\ emitted' = emitted \o open
  /\ open' = <<>>
  /\ cuts' = cuts \cup {<<open[i].key, Len(added)>> : i \in DOMAIN open}
  /\ UNCHANGED added

AggregatorNext ==
  \/ \E p \in Packets : AddKeeps(p) \/ AddEvicts(p)
  \/ Flush

AggregatorSpec == AggregatorInit /\ [][AggregatorNext]_aggregatorVars

-------------------------------------------------------------------------------
(* Properties *)

\* The dict has one flow per key, at most max_flows of them between two calls, and
\* none without a packet (add).
AggregatorTypeOK ==
  /\ open \in Seq(Flows) /\ emitted \in Seq(Flows) /\ added \in Seq(Packets)
  /\ cuts \subseteq Keys \X (0..MaxPackets)
  /\ Len(added) <= MaxPackets
  /\ \A i, j \in DOMAIN open : open[i].key = open[j].key => i = j
  /\ \A i \in DOMAIN open : open[i].packets # {}
  /\ Len(open) <= MaxFlows

\* Every flow there is or was.
AllFlows == emitted \o open

\* Every packet of the capture is counted in exactly one flow, emitted or open, and
\* that is a flow of its 5-tuple: nothing is lost or counted twice when a flow
\* expires, makes room or is flushed (add, flush).
EveryPacketOnce ==
  \A n \in DOMAIN added :
    \E i \in DOMAIN AllFlows :
      /\ AllFlows[i].key = added[n].key
      /\ \A j \in DOMAIN AllFlows : n \in AllFlows[j].packets <=> i = j

\* The flow of packet m's key was emitted early after m and before n.
CutBetween(m, n) ==
  \E c \in cuts : c[1] = added[m].key /\ m <= c[2] /\ c[2] < n

\* What the flows of a capture should be, without the dict: a packet begins a burst
\* when every earlier packet of its 5-tuple is further back than the timeout or on
\* the other side of an early emission.
BeginsBurst(n) ==
  \A m \in 1..n - 1 :
    added[m].key = added[n].key =>
      CutBetween(m, n) \/ added[n].time - added[m].time > IdleTimeout

SameBurst(m, n) ==
  /\ added[m].key = added[n].key
  /\ ~CutBetween(m, n)
  /\ \A l \in m + 1..n : added[l].key = added[n].key => ~BeginsBurst(l)

\* The flows are the bursts: two packets are in one flow if and only if they belong
\* to one burst, in whatever order the timestamps come (add).
FlowsAreBursts ==
  \A n \in DOMAIN added : \A m \in 1..n - 1 :
    SameBurst(m, n) <=>
      \E i \in DOMAIN AllFlows : {m, n} \subseteq AllFlows[i].packets

\* A flow is stamped with its first packet to arrive and ends with its latest
\* timestamp, also when packets come late; what _emit turns into the timestamp and
\* the duration of the event (add, _emit).
StampsOfItsPackets ==
  \A i \in DOMAIN AllFlows :
    LET flow == AllFlows[i] IN
    /\ \A n \in flow.packets : added[n].time <= flow.last
    /\ \E n \in flow.packets : added[n].time = flow.last
    /\ \E n \in flow.packets :
         added[n].time = flow.first /\ \A m \in flow.packets : n <= m

===============================================================================
