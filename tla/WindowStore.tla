----------------------------- MODULE WindowStore ------------------------------
(***************************************************************************)
(* backend/processing/windows.py: one bucket of recent flow events per     *)
(* source host.  An add appends to the host's own bucket, then sweeps      *)
(* EVERY bucket in the order the hosts were first seen, popping heads      *)
(* older than the added event minus the window, and finally trims its own  *)
(* bucket to the capacity.                                                 *)
(*                                                                         *)
(* Python refuses to compare a naive datetime with an aware one.  A flow   *)
(* therefore carries, next to its timestamp, whether it is aware.  A sweep *)
(* that meets a head of the other kind raises TypeError: the buckets       *)
(* before it stay swept, those after it are not reached, the trim is       *)
(* skipped, and the event that was being added stays in its bucket.        *)
(***************************************************************************)
EXTENDS BoundedSeq, FiniteSets

CONSTANTS Hosts,            \* source addresses
          Flow,             \* the events that may arrive
          Window,           \* window_seconds
          MaxEventsPerKey,  \* max_events_per_key
          MaxAdds           \* bound on the number of adds that is explored

\* WindowStore.__init__ rejects a non-positive window or capacity.
ASSUME WindowAssumption ==
  /\ Window \in Nat \ {0}
  /\ MaxEventsPerKey \in Nat \ {0}

ASSUME FlowAssumption ==
  \A f \in Flow : f.src \in Hosts /\ f.ts \in Int /\ f.aware \in BOOLEAN

VARIABLES keys,      \* the hosts of _events in dict (insertion) order
          events,    \* host -> its bucket, oldest arrival first
          arrived,   \* history: host -> every event ever passed to add
          overdue,   \* history: host -> adds that raised since one succeeded
          last       \* history: <<f>> if the last add was of f and returned

windowVars == <<keys, events, arrived, overdue, last>>

-------------------------------------------------------------------------------
(* The sweep *)

\* Variants for the mutation runs: <= for <, if for while, no test for an empty
\* bucket, and a dict that gains a key with every event.
StaleAtCutoff(g, now) == g.aware = now.aware /\ g.ts <= now.ts - Window
PoppedAtMostOne(b, now) == IF b # <<>> /\ StaleAtCutoff(b[1], now) THEN 1 ELSE 0
SweepRaisesOnEmpty(b, now) == ~\E i \in DOMAIN b : b[i].ts >= now.ts - Window
KeysRepeated(h) == Append(keys, h)

\* bucket[0].timestamp < cutoff, where cutoff = now - window (lines 27 and 29)
Stale(g, now) == g.aware = now.aware /\ g.ts < now.ts - Window

\* How many heads the while loop pops: it stops at the first event that is not
\* stale, and also at one it cannot compare, because there it raises.
Popped(b, now) ==
  CHOOSE n \in 0..Len(b) :
    /\ \A i \in 1..n : Stale(b[i], now)
    /\ n < Len(b) => ~Stale(b[n + 1], now)

Swept(b, now) == SubSeq(b, Popped(b, now) + 1, Len(b))

\* The loop over this bucket ends in a comparison of naive with aware.
SweepRaises(b, now) ==
  LET rest == Swept(b, now)
  IN  rest # <<>> /\ rest[1].aware # now.aware

\* self._events[event.src_ip] creates the bucket; append never fails.
KeysWith(h) == IF h \in Elements(keys) THEN keys ELSE Append(keys, h)
Appended(f) == [events EXCEPT ![f.src] = Append(@, f)]

\* The sweep gets as far as the bucket of h: no bucket before it raises.
Reached(h, f) ==
  LET order == KeysWith(f.src)
  IN  \A i \in 1..Len(order) : order[i] = h =>
        \A j \in 1..(i - 1) : ~SweepRaises(Appended(f)[order[j]], f)

-------------------------------------------------------------------------------
EmptyStore == [h \in Hosts |-> <<>>]

WindowInit ==
  /\ keys = <<>>
  /\ events = EmptyStore
  /\ arrived = EmptyStore
  /\ overdue = [h \in Hosts |-> 0]
  /\ last = <<>>

Arrive(f) ==
  /\ keys' = KeysWith(f.src)
  /\ arrived' = [arrived EXCEPT ![f.src] = Append(@, f)]

\* add() returns: every bucket is swept and the event's own is trimmed.
AddReturns(f) ==
  /\ \A h \in Hosts : ~SweepRaises(Appended(f)[h], f)
  /\ Arrive(f)
  /\ events' = [h \in Hosts |->
       IF h = f.src THEN Recent(Swept(Appended(f)[h], f), MaxEventsPerKey)
                    ELSE Swept(events[h], f)]
  /\ overdue' = [overdue EXCEPT ![f.src] = 0]
  /\ last' = <<f>>

\* add() raises TypeError out of _evict: a partial sweep and no trim.
AddRaises(f) ==
  /\ \E h \in Hosts : SweepRaises(Appended(f)[h], f)
  /\ Arrive(f)
  /\ events' = [h \in Hosts |->
       IF Reached(h, f) THEN Swept(Appended(f)[h], f) ELSE Appended(f)[h]]
  /\ overdue' = [overdue EXCEPT ![f.src] = @ + 1]
  /\ last' = <<>>

\* WindowStore(window_seconds): Pipeline.reset_session starts a new store.
NewWindow ==
  /\ keys' = <<>>
  /\ events' = EmptyStore
  /\ arrived' = EmptyStore
  /\ overdue' = [h \in Hosts |-> 0]
  /\ last' = <<>>

\* active_keys
ActiveKeys == {h \in Elements(keys) : events[h] # <<>>}

Arrivals == UNION {{<<h, i>> : i \in DOMAIN arrived[h]} : h \in Hosts}

WindowNext ==
  /\ Cardinality(Arrivals) < MaxAdds
  /\ \E f \in Flow : AddReturns(f) \/ AddRaises(f)

WindowSpec == WindowInit /\ [][WindowNext]_windowVars

-------------------------------------------------------------------------------
(* Properties *)

\* The shape of the store: the dict lists no host twice, and a bucket that holds
\* events belongs to a host of the dict, so that the sweep can reach it.
WindowTypeOK ==
  /\ keys \in Seq(Hosts)
  /\ events \in [Hosts -> Seq(Flow)]
  /\ arrived \in [Hosts -> Seq(Flow)]
  /\ overdue \in [Hosts -> Nat]
  /\ last \in {<<>>} \cup {<<f>> : f \in Flow}
  /\ \A h \in Hosts : events[h] # <<>> => h \in Elements(keys)
  /\ \A i, j \in DOMAIN keys : keys[i] = keys[j] => i = j

\* The capacity of _events holds up to the adds that raised before their trim:
\* a bucket exceeds max_events_per_key by at most the number of adds of its host
\* that raised since one returned, and the next one that returns restores it.
BoundedUpToRaises ==
  \A h \in Hosts : Len(events[h]) <= MaxEventsPerKey + overdue[h]

\* Every timestamp that arrived has the same kind.
OneKind ==
  \A h1, h2 \in Hosts :
    \A f \in Elements(arrived[h1]), g \in Elements(arrived[h2]) :
      f.aware = g.aware

\* As long as all sources agree on naive or aware timestamps no add raises, for
\* any order of hosts and timestamps.
RaisesOnlyWhenMixed == (\E h \in Hosts : overdue[h] > 0) => ~OneKind

\* The bounded window of windows.py, to the extent that it is bounded: the capacity
\* is exceeded only by adds that raised, and only after naive and aware timestamps
\* have met (add, _evict).
CapacityRespected == BoundedUpToRaises /\ RaisesOnlyWhenMixed

\* An event is outside the window of another one of the same kind.
Outdated(g, now) == g.aware = now.aware /\ now.ts - g.ts > Window

\* Index of the first arrival of h that is still retained, minus one.
Dropped(h) == Len(arrived[h]) - Len(events[h])

\* A bucket holds exactly the latest arrivals of its host, in arrival order, and
\* an arrival it no longer holds was either outdated by some event of some host
\* or followed by max_events_per_key later arrivals of its own host: neither the
\* sweep, nor a sweep that raised halfway, nor the trim loses a fresh event.
OnlyOutdatedOrSurplusDropped ==
  \A h \in Hosts :
    /\ Dropped(h) \in 0..Len(arrived[h])
    /\ events[h] = SubSeq(arrived[h], Dropped(h) + 1, Len(arrived[h]))
    /\ \A i \in 1..Dropped(h) :
         \/ Len(arrived[h]) - i >= MaxEventsPerKey
         \/ \E g \in Hosts : \E now \in Elements(arrived[g]) :
              Outdated(arrived[h][i], now)

InOrder(b) == \A i, j \in DOMAIN b : i < j => b[i].ts <= b[j].ts

\* After an add that returned, no bucket of ANY host whose events arrived in
\* timestamp order holds an event outside the window of the added one.  (That
\* the retained events are in order is not enough: the trim runs after the sweep
\* and can uncover an outdated event that stood behind a newer head.)
OrderedBucketsFresh ==
  \A now \in Elements(last) :
    \A h \in Hosts : InOrder(arrived[h]) =>
      \A g \in Elements(events[h]) : ~Outdated(g, now)

===============================================================================
