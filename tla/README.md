# IPXDR: TLA+ models and proofs

TLA+ models of the core of IPXDR: the pipeline that turns flow events into alerts,
the stores it keeps, the API that runs it on one event loop, the models it trains,
the rules and the fusion that decide on an alert, the baseline of a host, the
aggregation of packets into flows, and the IPFIX decoder. TLC checks each module on
a small instance, and TLAPS proves what holds for every size. Line numbers below are
of the files under `src/`.

Run from this directory:

    tlc -workers 2 -config windows.cfg MCWindowStore
    tlapm PipelineProofs.tla

`PROJECT.json` lists the runs, the mutants, the source lines of each definition,
the hazards, the findings and the theorems.

## 1. Inventory

| Component | State | Operations | Used by |
| --- | --- | --- | --- |
| Window store `backend/processing/windows.py` | `_events`: dict of deques, one per source address | `add` (append, sweep of *all* buckets, trim of its own), `get`, `active_keys` | Pipeline |
| Alert store `backend/alerts/store.py` | `items`: `deque(maxlen)`; table `alerts`; the open transaction | `add`, `clear`, load at start | Pipeline, API |
| Pipeline `backend/processing/pipeline.py` | `stats`, `windows`, `behavior`, `alerts`, `last_*` | `process`, `reset_session` | API, replay |
| Behavioural baseline `backend/features/behavioral.py` | per host: running statistics, observation count | `score`, `learn` | Pipeline |
| API and feed `backend/api/main.py` | `_subscribers`, `latest_analysis`, the pipeline | `ingest`, `upload_pcap`, `alerts_ws`, `_broadcast`, GET handlers, training endpoints | clients |
| Engine and models `backend/detection/engine.py`, `backend/anomaly/isolation_forest.py`, `ml/models/supervised.py` | `feature_names`, `model`, `fitted` of two detectors; two files | `fit_*`, `save_models`, `load_models`, `analyze` | Pipeline, API |
| Flow aggregator `backend/processing/flow_aggregator.py`, `replay/pcap_replay.py` | `_flows`: dict by 5-tuple; `_seq` | `add`, `flush` | replay |
| IPFIX decoder `backend/ingestion/ipfix.py` | `templates` by (domain, id); inside a call, where it is and `ordinal` | `decode`, a generator | a collector |
| Rules `backend/detection/rules.py`, `backend/features/temporal.py` | none | `detect`: a score per rule over one window | Engine |
| Fusion `backend/fusion/risk.py` | none | `fuse`: results to an alert or none | Engine |
| Extractors, graph features, sFlow, file ingestors | none | pure functions | Engine, Pipeline |
| Dashboard, benchmarks, scripts | none the back end depends on | | |

How they interact. `Pipeline.process` calls, in one thread and without an await:
normalize, `windows.add`, the extractors on the host's last 256 events,
`behavior.score`, `engine.analyze`, `behavior.learn`, `alerts.add`. Any of them can
raise; `process` then counts a failure and raises again, and what the stages before
have changed stays changed. The coroutines of the API share one pipeline on one
event loop. They are separated only by their awaits: reading an uploaded body, and
each `send_json` of a broadcast. Handlers that are plain functions (`GET /metrics`,
`GET /hosts`, the training endpoints) run in threads of a pool, in the middle of
anything. SQLite and the model files survive a restart; all else is memory, so a
process starts with the alerts an earlier one persisted and with nothing else.

What is hard, and what makes each component correct:

- *Window store*: a sweep looks at the heads only, one event may arrive late, in
  the future, or with a timestamp that cannot be compared with a head, in which
  case `add` raises half-way. Correct: nothing is dropped that is neither
  outdated nor surplus; capacity; freshness.
- *Alert store*: the deque, the open transaction and the committed table change
  one after the other; any SQLite call may raise and the process may die in
  between. Correct: an alert whose `add` returned survives, a cleared one does
  not come back, a restart shows what was shown.
- *Pipeline*: a stage that raises leaves the effects of those before it.
  Correct: counters, baselines, alerts and `last_*` agree with how each call
  ended.
- *API*: interleavings at the awaits, threads that read counters one by one,
  subscribers that come and go during a broadcast. Correct: no torn or mixed
  figures, no client that misses an alert because of another one.
- *Models*: names and model of a detector are replaced one after the other in a
  thread while the loop scores; files are written in place. Correct: a score
  uses one training; files match memory; the process can start again.
- *Baseline*: what is compared is the mean of a window in which what was learned
  is found again, and what deviates is not learned. Correct: the incremental
  statistics are exact; the host's own past is accepted; it is known how far off
  an event must be to be refused.
- *Rules and fusion*: a dozen thresholds in two files decide together, and each
  window is of one source. Correct: every rule can be heard; detectors that
  corroborate each other are independent; a class does not silence an anomaly
  that is stronger than it.
- *IPFIX decoder*: datagrams are lost, repeated, reordered and cut; exporters
  restart and share domains; the caller may stop half-way. Correct: a record is
  read with the layout it was written with; an id is one event's.
- *Aggregator*: late packets, expiry, capacity. Correct: the flows are the
  bursts of the capture, and every packet is in exactly one of them.

## 2. Modules

| Module | Models | Checked by | Proofs |
| --- | --- | --- | --- |
| `BoundedSeq` | "keep the newest n" (bucket trim, `w[-256:]`, `deque(maxlen)`, `LIMIT`) | with its users | `BoundedSeqProofs` |
| `WindowStore` | windows.py | `MCWindowStore` | `PipelineProofs` |
| `AlertLog` | what the alert store promises: one sequence of alerts, changed atomically | | |
| `AlertStore` | store.py, one step per SQLite call; refines `AlertLog` | `MCAlertStore` | `AlertStoreProofs` |
| `Pipeline` | pipeline.py; extends `WindowStore` | `MCPipeline` | `PipelineProofs` |
| `Api` | main.py | `MCApi` | `ApiProofs` |
| `ModelLifecycle` | engine.py and the two detectors | `MCModelLifecycle` | `EngineProofs` |
| `FlowAggregator` | flow_aggregator.py | `MCFlowAggregator` | `FlowAggregatorProofs` |
| `IpfixDecoder` | ipfix.py, with exporters and a collector | `MCIpfixDecoder` | `IpfixDecoderProofs` |
| `BehavioralBaseline` | behavioral.py for one host, with exact numbers | `MCBehavioralBaseline` | `BaselineProofs` |
| `Rules` | rules.py and the temporal features it reads | with `Detection` | `EngineProofs` |
| `Fusion` | risk.py | with `Detection` | `EngineProofs` |
| `Detection` | analyze in engine.py; extends `Rules` and `Fusion` | `MCDetection` | `EngineProofs` |

**WindowStore.** `keys` is the insertion order of `_events`, `events` the
buckets. `AddReturns` and `AddRaises` are the two ends of `add`: the whole
append, sweep and trim, or the append and a sweep as far as the first head whose
timestamp is of the other kind (naive, aware). `arrived`, `overdue` and `last`
are history.

**AlertStore.** `items` is the deque, `rows` the table as the connection sees it,
`durable` the committed one. An `add` is `AddAppends`, `InsertRow`, `CommitAdd`;
a `clear` is `ClearItems`, `DeleteRows`, `CommitClear`. With `DbFails` each
SQLite call may raise instead (`AddRaises`, `ClearRaises`). `Crash` is possible
at any step; `Restart` loads the newest rows. The refinement maps the store to
`AlertLog` by its committed table plus, while it runs, what it shows.

**Pipeline.** An event is its id, source, timestamp kind and whether an extractor
can convert it. `Process` is one call of `process` with the outcome of each
stage that can raise: the disjuncts `RejectedByWindow`, `RejectedByFeatures`,
`RejectedByEngine`, `RejectedByStore` and `Accepted`. `ResetReturns` and
`ResetRaises` are `reset_session`. What the detectors compute is left open: an
event raises an alert or not. The baseline is the number of events a host's
statistics have learned; the deviation is zero, low or high. `PipelineInit` starts
with any alerts of `Persisted`, as `AlertStore.__init__` does with the rows it finds;
`loaded` remembers which.

**Api.** `loop` names the coroutine that runs. Between an event's `Receive` and its
`Accept` or `Reject` the loop is held, so no coroutine interferes, but a polling
thread does. `Send` is one `await send_json` and may give the loop away; `Resume`
takes it back. An upload runs from `UploadRead`, its last await, to its end without
giving the loop away. `Poll` and `Read` are a thread's reads of the three counters,
`CountWindows` and `Counted` its iteration over the windows (`buckets`, which a host
enters in the step of its `Score` or `Reject`); `ListHosts`, `NextHost`,
`ListRaises` and `ReadColumn` its iteration over `behavior.hosts`, to which `Score`
adds, while `baseline_ready` is looked up in the session of the moment. A baseline
is the number of events it has learned. The order in which a broadcast takes the
subscribers is arbitrary, as the iteration order of a Python set is.

**ModelLifecycle.** A detector is its names, its model (the schema it was fitted
on, or `Partial` inside a fit) and its flag. `FitNames`, `FitModel`,
`FitReturns`, then per file `SaveOpens` and `SaveWrites`, run in one thread per
training; `ScoreReads` and `ScoreUses` on the loop. `FitRaises` and `SaveRaises`
are the failures, `Crash`, `Load` and `LoadRaises` the process. Two fits of one
detector at once, or two writers of one file, may leave a mixture.

**FlowAggregator.** A packet is its 5-tuple and timestamp; a flow accumulates the
set of its packets, which stands for the counts, bytes and flags. The dict is a
sequence, because its order decides ties and the order of a flush. `AddKeeps`
and `AddEvicts` are whole calls of `add`.

**IpfixDecoder.** Outside the repository: exporters (`Send`, `Restart`) that
announce templates, number their records and never learn what became of a
message, and a collector that hands over messages in any order, some never, some
again (`Call` of a batch). The decoder itself: `TemplateSet`, `DataSet`,
`Refused` (an invalid header, set or template raises ValueError) and
`Abandoned` (the caller drops the generator after some events). A layout is the
size of its records and whether they have both addresses; a set is its exporter's
layout and its number of records, from which the decoder, with another layout,
computes another number. All messages are sent before the first call, which
loses no behaviour, as nothing flows back to an exporter.

**BehavioralBaseline.** One host and one feature that varies; features that never
vary have a deviation of zero variance and drop out of the mean of the z-scores. The
numbers are exact fractions, so that `z / (1 + z) >= 0.8` is decided as `off^2 >= 16
* variance`. `Enters` leaves open how many of the older events of the window are
outdated, which the times of all hosts' events decide. `Process` is a call in which
every stage returns, `ProcessRaises` one that fails after the window took the event.

**Rules, Fusion, Detection.** A window is a bag of kinds of events, since but for
its first gap no rule depends on the order. A kind says whether its events are SYNs,
UDP, DNS queries, independently of each other, and whether they go to one
destination, or one port, or to a new one each. `Detect` yields a score for each of
the seven rules over counts, rates, gaps and bytes, with the thresholds of the code,
in thousandths. `Fuse` groups, chooses, weighs and cuts. `Detection` moves events
into the window of their source and runs both: `Detected` (the event is in and the
rules have looked at `WindowOf` its source), `Fused` (results of the metadata rules
and of the trained models have come to it), `Returned`; `Expired` is a minute of
silence.

## 3. Runs

| Run | States | What it shows |
| --- | --- | --- |
| `windows` | 77 thousand | In every order of 5 adds by 2 hosts, with naive, aware, late and future timestamps: only outdated or surplus events are dropped; while a host's events arrive in order, its bucket holds nothing outdated after an add that returned; the capacity is exceeded only by adds that raised since the last one that did not, and only mixed kinds make an add raise. |
| `alerts` | 3 thousand | SQLite does not fail, the process may die at any step: acknowledged alerts are durable, a restart is invisible, and the store implements `AlertLog`. |
| `alerts_dbfails` | 946 thousand | Every SQLite call may raise: no id twice, an unsaved alert is one whose `add` raised or runs, nothing comes back from before a `clear` that returned. |
| `alerts_retry` | violation | see findings |
| `pipeline` | 393 thousand | After a start with persisted alerts, every way a call of `process` can end, with resets: every event is counted once; a baseline learns only accepted events and always the first two; every alert shown was raised in this session or was there at its start, none twice, and none is forgotten while there is room; a rejection by the extractors has its cause among the host's recent arrivals; the `last_*` fields describe one event. |
| `api` | 3.0 million | An ingest, two uploads, a client and a thread that serves polls: metrics that go out are never taken inside an event; polled metrics lag by at most one event; a list of hosts is complete or an error, and calls a host that has learned enough unready only across a reset; an analysis is of one capture; it is out of date only after an upload that failed. |
| `api_feed` | 74 thousand | Two ingests broadcasting to two clients that come and go, with fairness: the answer carries the alert of its own event; subscribers are the connected clients; every ingest is answered; every client that stays gets the alert. |
| `models` | 280 thousand | Three trainings of two detectors, scoring, deaths: a score is spoiled only for a detector trained again or twice at once; after a training that ran alone and was answered the files are what is in memory and the process can start. |
| `flows` | 338 thousand | Five packets of three 5-tuples into a dict of two flows, in every order of timestamps, flushed at any point: the flows are exactly the bursts of a definition that knows no dict; each packet is in one flow; stamps are right. |
| `ipfix` | 2.2 million | Three messages of two exporters, in two calls of up to two messages: once the decoder has taken the template a data set was written with, later than any other of that domain and id, it reads the set right; ids repeat only across exporters, restarts, wraps of the sequence number, or a message decoded in two calls. |
| `baseline` | 274 thousand | Values 0, 1 and 9 in any order through windows of up to four and up to 18 learned events: count, mean and sum of squares are the exact ones; a window within the range learned is never refused before the 18th observation (at 18 it is: the bound is tight); how far off an event must be to be refused grows with the window. |
| `detection` | 836 thousand | Four kinds of traffic of one source (SYNs to ever new hosts and ports, large UDP packets, UDP flows that carry the flag of a SYN, regular DNS polls), up to 16 events: two rules corroborate each other only on a window half of which is UDP with that flag, and do so there; an anomaly is silenced only by classes below 0.634 and only up to 0.8. Or six sources, large UDP packets to one destination, 20 events: the rules for spoofing and reflection never count; in one common window they would (the mutant). |

**Bounds and why they are enough.** *windows*: two hosts suffice for a sweep that
crosses buckets; `MaxAdds` is 5 with a capacity of 2, so that a bucket can
overflow, outgrow its capacity by failed adds, and recover. *alerts*: three ids
for a deque of two, one id with two contents, so that ids are pushed out and
raised again; the number of calls is not bounded. *pipeline*: four events per
behaviour, a feature window of two, six event shapes of which one is malformed,
one naive, and one expires all others; the persisted alerts are one of an event that
may be sent again and one of an older capture. *api*: two uploads, so that one can spoil
what the other left; the second capture repeats an event id of the first; its
two packets are of two hosts, one of them that of the ingest, so that a host is
added during a listing and reaches the `Warmup` of 2. No event raises an alert in
`api`: its properties do not depend on one, and `api_feed` has them.
*models*: the fewest trainings that give a detector a failed refit and another
one a training after it. *flows*: gaps below, at and above the timeout; three
keys for a capacity of two. *ipfix*: two exporters in one domain or two, one
template id, two layouts of which a record of one is not a whole number of the
other's, a sequence number that wraps after 8; three messages let one template
overtake another and a data set stand between them. *baseline*: 18 observations
are where `LearnedRangeAccepted` ends; a window of four is left by old
events. *detection*: 16 events reach the thresholds on a count that a window of one
source can pass (8, 10, 12), with ports and hosts enough for a scan;
the scores of the trained models are at and beside the thresholds of `fuse`.
20 events and six sources are what spoofing and reflection need. Only one of the two
`Mixtures` is in the windows at a time.
`MaxAdds`, `MaxPackets`, `MaxObservations`, `MaxEvents`, `Mixtures` and the finite sets of
calls and messages are the only bounds, and only because of those the runs that set
`CHECK_DEADLOCK FALSE` stop (in `models` also because a process that cannot load
its files is gone).

**Fairness.** Only `FairApiSpec` assumes any: weak fairness, per call, of "the
call takes its next step or gets the loop back". asyncio runs its ready queue in
FIFO order, so a coroutine that can go on does, provided each `send_json`
finishes. That holds for a client that reads or whose connection breaks, not for
one that does neither; the code sets no timeout, and a client of that kind
blocks every ingest that serves it. Nobody is obliged to call, to connect or to
leave.

## 4. Proofs

All theorems are of the form `Spec => []Inv`, `Spec => [][A]_vars` or a
refinement, for every value of the constants that satisfies the named
assumptions. Every inductive invariant was checked by TLC on the instance of the
run before it was proved.

- `BoundedSeqProofs`, which the others extend: `Recent` keeps a suffix and at most n
  elements, and keeps distinctness; every non-empty set of naturals has a least
  element. A sum over a finite set is a recursive function over its subsets; that
  one exists (`SumExists`) and that the order of the terms does not matter
  (`OrderIrrelevant`) is by descent on the size (`NoDescent`).
- `PipelineProofs`, about the window store alone, from `WindowAssumption` (positive
  window and capacity, which `__init__` enforces) and `FlowAssumption` (the shape of
  an event). Both ends of `add` are instances of one fact, that each bucket loses
  some of its oldest elements, each stale or surplus (`Shortens`).
  `WindowTypeCorrect`, `CapacityUpToRaises`, `NothingFreshLost`,
  `RaisesNeedMixedKinds` and `CapacityOfOneKind` follow. For the second, `overdue`
  is what makes the capacity inductive: the capacity alone is not an invariant,
  since a raising add skips the trim. `SweepReachesEveryHost` also needs where a
  sweep stops: at the first head that is fresh, so that in a bucket in order nothing
  behind it is stale.
- `AlertStoreProofs`, from `AlertStoreAssumption`. `StoreTypeCorrect`,
  `UnsavedAlertsWereRefused` and `ClearedStaysCleared` hold whatever SQLite does.
  `AcknowledgedAlertsAreDurable`, `RestartIsInvisible` and `StoreImplementsLog`
  assume `~DbFails`. The inductive invariant says, for each `pc`, how `items`,
  `rows` and `durable` differ: between calls not at all, inside a call by the
  alert being added or the clear being done. Without it `CommitAdd` could commit
  rows nobody had accounted for.
- `PipelineProofs`, about the pipeline, from `PipelineAssumption` (positive feature
  window and alert limit; nothing of the persisted alerts) and those of the window
  store. `CountersAgree`, `AlertsHaveACause`, `LastFieldsAgree` and `RejectionsEnd`
  are parts of one invariant, `PipelineInv`. Two of its parts are there to make it
  inductive. `NoBaselineNoneAccepted`: a host without a baseline has no accepted
  event, without which the first learned event of a host could follow accepted ones
  that were never counted. `ArrivalsAreCalls`: the calls of a host in this session
  are its arrivals at the window store, in order, which carries a cause from the
  arrivals, where an extractor finds it, to the calls, of which
  `RejectionHasRecentCause` speaks. `SessionsKeepWindows` reuses the theorems about
  the window store inside the pipeline, where a later stage may raise and a session
  may end.
- `EngineProofs`, about the trained models, from `ModelAssumption` (the detectors
  are distinct, and no schema is one of the two markers; a record is not a marker
  either). `TogetherInv`: for a detector trained once, every place its names and
  model pass through (fields, rows of the training, a record being written, the
  file, an event being scored) has both from that training. `CalmInv`: while the
  last training is calm, it runs alone, the files of the detectors that
  `save_models` has been through are what is in memory, and the names it is writing
  are those in memory. The conclusion `SavedWhenCalm` alone says nothing of a
  training that has not returned, from which it must follow. `ModelsTypeCorrect` is
  the first part.
- `ApiProofs`, from `ApiAssumption` (a captured event has a sender, an ingest has
  one event, the persisted alerts are no more than the deque holds). `ApiInv` has
  eight parts, each kept by every step with the help of those before it: the shape
  (a call inside its handler holds the loop or is suspended in a broadcast:
  `ApiTypeCorrect`); every session's counters add up but for the one event that the
  holder of the loop is inside (`SessionsBalanced`); what was sent adds up
  (`FeedMetricsBalanced`); how far a poller's reads are behind its own session's
  counters (`PollersLagByOne`); who is connected, subscribed and served
  (`ConnectedAreSubscribed`); where the alert of an ingest is from
  (`OwnAlertAttached`); what an upload has processed and whose the session is
  (`AnalysisOfWholeCapture`, `AnalysisOfItsSession`); and, for each row of a
  listing, that its host has its place in the session, and that no row has more
  observations than its host while its readiness is yet to be read
  (`ReadyWhenEnough`). `ListingsComplete` is an action property that follows from
  the same invariant. They hold for any number of requests, sockets and pollers,
  captures of any length, and any `Warmup` and `MaxItems`.
- `FlowAggregatorProofs`, from `AggregatorAssumption` (positive limits, which
  `__init__` enforces; timestamps are naturals). `AggregatorTypeCorrect` bounds the
  dict; the existence of an oldest flow is the least-element lemma, applied to the
  timestamps and then to the positions. `PacketsConserved` rests on the
  strengthening `Counts`: each packet so far is counted once in the dict or once
  among the emitted flows and not in the other, and packets to come in neither. An
  add is then a placement (`PlacedCounts`) and at most one move (`OnceAfterMove`).
  `StampsFollowPackets` has `StampInv`: of every flow, open or emitted, `first` is
  the time of the packet that arrived first and `last` the latest time.
  `FlowsAreTheBursts` has `BurstInv`: two packets are of one burst exactly if they
  are in one flow, an open flow is the current burst of its key, and a key without
  an open flow was cut off by an eviction or a flush. That the silence the code
  measures, from `last`, is the one the definition measures, from the packets, is
  `StampInv`.
- `EngineProofs`, about the detection, from `DetectionAssumption` (finitely many
  kinds of events; scores between 0 and 1; finite sets of results, one per detector,
  those of a metadata rule with its class). `SpoofingUnheard` rests on `OwnEvents`:
  every event in the window of a source is of that source, so a window has one
  source at most, and a rule that needs five scores 0; without it a step of
  `Detected` could start from a mixed window. `AnomalyNeedsNoClass` is arithmetic.
  `AnomalySilencedOnlyByWeakClasses`: if results count, a class is chosen (the
  least-element lemma, twice, for the strongest score and the largest group), and
  its confidence is below 0.5 only if 0.65 S + 0.2 d + 0.15 a < 0.5; with 0.85 a +
  0.15 d >= 0.5 that bounds the strongest score S by 0.634, and the bonus excludes a
  > 0.8. The invariant is that the results of the call are finitely many scores
  between 0 and 1, for which every rule is bounded (`ScoresInRange`).
  `CorroborationNeedsBoth`: a SYN flood that counts takes 0.675 of a window, a UDP
  flood 0.85, which is 0.525 more than there is, so that many events are of both
  (`FloodsNeedBoth`). That the sums of the parts of a bag are no more than that of
  the whole (`SumsOfParts`) is by descent on the size. The invariant adds that,
  before the other detectors have answered, no result is of a metadata rule's class.
- `IpfixDecoderProofs`, from `IpfixAssumption` (records and sets are not empty).
  `IpfixInv` relates what the exporters keep to what the decoder keeps, which
  share nothing but the messages. Of the exporters: `CountsInv` (within one start
  the counts of messages with data grow), `InForceInv` and `WrittenInv` (a data
  set is written with the layout announced last before it). Of the decoder:
  `TemplatesInv` (under a key it has the layout it took last, and had when it read
  a set), `YieldInv` (a set yields all its events or is the last of its call) and
  `IdsInv` (ordinals grow within a call and ids carry the count of their message).
  `DecoderRecovers` joins `WrittenInv` to `TemplatesInv`: after the right
  template both are the same layout, and the records found are those written,
  `(rows * size) \div size`. `IdsTellEventsApart`: equal ids less than a wrap
  apart have equal counts (`SameRemainder`), so one message by `CountsInv`, and two
  calls by `IdsInv`. They hold for any number of exporters, messages, sets and
  calls and every loss, repetition and order. The sets of a call are a
  `FlattenSeq`, whose recursive function is shown to exist and to keep the
  type by least counterexample (`PartialConcatenations`, `FlattenKeepsType`).

- `BaselineProofs`, from `BaselineAssumption` (finitely many natural values, since
  a feature is a field of finite width; a positive window). A fraction is a pair in
  lowest terms and `gcd` a recursive function, so there is first what it computes.
  That a function with its recursion exists is by descent on the second argument,
  with the number whose divisors are the common ones as the witness
  (`GcdRecursion`); that it divides both arguments and scales with them follows
  (`GcdDivides`, `GcdOfMultiples`). So fractions of one value are one pair
  (`SameFraction`), and `Plus`, `Minus`, `Times`, `Over` and `LessEq` stand for the
  operations on values (`PlusStands` and the like). Learning an event changes each
  sum over the values by its one term (`MomentsOfLearning`), which is what `Updated`
  does to count, mean and spread (`UpdatedFirst`, `UpdatedLater`). `BaselineInv` is
  `StatsOfLearned`, the type of `learned`, and that nothing learned means the
  initial statistics: `StatsOfLearned` says nothing of mean and spread at a count
  of 0, from which the first update starts. For `YoungBaselineAcceptsLearned`, no
  value among n is further from their mean than the square root of n - 1 standard
  deviations of the n (`LearnedValueWithin`, from count * squares >= sum * sum of the
  others), which in those of a sample is (n - 1)^2 / n of their variance, below 16
  for n < 18; a window between two such values is no further off than one of them
  (`BetweenIsNear`). For `GuardWeakens`, the sum over a window of just the events
  learned is the sum over the values (`MomentsOfWindow`), so that one more event at a
  distance d from the mean moves the window's mean by d / (n + 1).

Only model-checked. Liveness (`IngestAnswered`, `AlertReachesClients`): the provers
do not handle fairness and ENABLED. Every other property of the passing runs is a
theorem. `MaxObservations`, `MaxAdds`,
`MaxPackets`, `MaxEvents`, `Mixtures` and the other bounds are constants of the
specifications, and the proofs hold for all their values.

## 5. Findings

A property that a document of the repository states, and a run in which
the code breaks it.

- `alerts_retry`: `add` appends to the deque before the INSERT. When SQLite
  raises, the alert stays there, and a retry of it counts as a duplicate and
  returns with no row written (store.py:19-20; README.md:82, docs/TRD.md:393).

Seen while modelling. These are not violations of a run; where a passing run
states the exact extent, it is named.

- A bucket exceeds `max_events_per_key` by the adds that raised
  (`CapacityRespected`; windows.py:7 says "Bounded").
- An event whose metadata an extractor cannot convert stays in its host's window,
  and well-formed events after it fail as well, until it has left the last 256
  (`RejectionHasRecentCause`; pipeline.py:36-37; docs/TRD.md:391
  "isolate/count and continue").
- `learn` looks at the deviation only, which is zero for the first two events of
  a host, so an event that raised an alert is learned (behavioral.py:77;
  docs/PRD.md:147). Later the guard weakens with the window
  (`GuardWeakensWithWindow`), and a host whose traffic changes for good is not
  learned again.
- A detector that is trained again is used, meanwhile, with its new names and its
  old or half-fitted model (`SpoiledNeedsRefit`; isolation_forest.py:14;
  docs/TRD.md:392 "never fabricate a score").
- A half-written model file keeps the process from importing (`SavedWhenCalm`
  says when that cannot happen).
- `GET /hosts` and `GET /metrics` are answered with 500 when an event of a new host
  arrives during their iteration (`ListedHostsComplete`, `Counted`; main.py:56,
  windows.py:34), and a row read across a reset
  contradicts itself (`EnoughMeansReady`).
- A failed upload leaves `/analysis/latest` with a capture whose session is gone
  (`AnalysisStaleOnlyByFailure`).
- README.md and docs/PRD.md list spoofed sources and reflection among the threats
  detected. Their rules need five and six sources, and `process` hands them the
  window of one (`OneSourceSilent`; rules.py:41, 48; pipeline.py:34).
- The SYN and the UDP flood are rules of one class, but they corroborate each other
  only on flows that are UDP and carry a SYN flag, which nothing in models.py
  excludes (`RulesCorroborateOnBoth`; rules.py:22, 30).
- Two exporters that count from the same number, and a message decoded again,
  give one event id to two events; the alert of the second is then taken for a
  duplicate (`IdsRepeatOnlyAcross`; ipfix.py:57, store.py:19).

## 6. Abstractions, and what is not modelled

- In `Pipeline`, numbers computed by extractors, rules, models and fusion decide
  no control beyond "alert or not" and "deviation below 0.8 or not".
  `BehavioralBaseline`, `Rules` and `Fusion` compute them, without the rounding of
  floating point; `Rules` rounds down to thousandths, and logarithms to whole
  bits, but the entropy of sources to half a bit.
- `Rules` takes the sources of a bag as equally busy where it needs their entropy,
  which bounds it from above.
- The rules on DNS names and TLS and QUIC metadata, and what the trained models
  answer, are inputs of `Detection` (`Findings`, `Anomalies`).
- `IpfixDecoder` does not parse octets: `_value` and the parsing of a template's
  fields are what a layout stands for.
- `Api` does not contain the stages of `process`; `Pipeline` does. A failing
  `alerts.clear` inside an upload's reset is folded into the reset.
- Of the GET handlers, those that make a single read are left out, and so are
  `/hosts/{src_ip}`, which reads what a row of `/hosts` does, and
  `window_events`. `alerts.list` is one such read, and so are, in `/metrics`, the
  number of alerts, of hosts, and the two fitted flags.
- In `Api` a new host gets its bucket of the window store in the step that gives it
  its baseline. Nothing is between the two for a request that reads, in this order,
  the number of hosts and the windows.
- Between the pipeline's alert store and `AlertStore` there is one simplification:
  in `Pipeline` an add that fails keeps its alert shown, as `AlertStore` proves
  it does, and the table is left out.
- `ModelLifecycle` takes the two detectors as alike. The order in which `analyze`
  asks them and the rules that run in between are left out.
- Not modelled: graph features and sFlow decoding (pure functions of one window,
  one datagram), file ingestors (pure input processing), benchmarks, scripts,
  dashboard.

## 7. Plan

Done, in this order: `WindowStore`, `AlertStore` with `AlertLog`, `Pipeline`,
`Api`, `ModelLifecycle`, `FlowAggregator`, `IpfixDecoder`, `BehavioralBaseline`,
`Rules`, `Fusion`, `Detection`; proofs of the safety and action properties and of
the refinement of all of them.

Next modules: graph features and sFlow, if they come to keep state; nothing else
of the repository keeps any.

Next proofs: none of safety. The two liveness properties wait for a prover of
fairness and ENABLED.
