---------------------------------- MODULE Api ----------------------------------
(***************************************************************************)
(* backend/api/main.py: the coroutines that share one Pipeline on one      *)
(* event loop, and the request handlers that read it from other threads.   *)
(*                                                                         *)
(*   - ingest and upload_pcap call pipeline.process, which never awaits:   *)
(*     no other coroutine runs meanwhile, but the thread-pool handlers do; *)
(*   - _broadcast awaits one send after the other, and every one of them   *)
(*     may let other coroutines run before it returns;                     *)
(*   - the WebSocket handler adds a subscriber and removes it when its     *)
(*     client has left;                                                    *)
(*   - GET /metrics and GET /hosts are plain functions, run in a thread of *)
(*     the pool: they read the counters one by one, and iterate over the   *)
(*     baselines and the windows, while the loop goes on.                  *)
(*                                                                         *)
(* The variable loop says which coroutine holds the event loop.  What      *)
(* happens inside process is module Pipeline; here it begins, and ends by  *)
(* returning or by raising.                                                *)
(***************************************************************************)
EXTENDS BoundedSeq

CONSTANTS Ingests,   \* calls of POST /ingest
          Uploads,   \* calls of POST /upload/pcap
          Sockets,   \* WebSocket connections, each used once
          Pollers,   \* threads that serve GET /metrics and GET /hosts
          Body,      \* the ids of the events a call carries, in order
          Sender,    \* the source address of an event
          Warmup,    \* observations after which a baseline is ready
          Threats,   \* threat classes an alert can have
          MaxItems,  \* capacity of the alert store's deque
          Persisted, \* the alerts an earlier process has left, oldest first
          Free       \* no coroutine holds the loop

Calls == Ingests \cup Uploads

ASSUME ApiAssumption ==
  /\ Ingests \cap Uploads = {} /\ Free \notin Calls
  /\ \A t \in Calls : Body[t] \in Seq(Elements(Body[t]))
  /\ \A t \in Ingests : Len(Body[t]) = 1
  /\ \A t \in Calls : Elements(Body[t]) \subseteq DOMAIN Sender
  /\ Warmup \in Nat \ {0} /\ MaxItems \in Nat \ {0}
  /\ Persisted \in Seq(Elements(Persisted)) /\ Len(Persisted) <= MaxItems

VARIABLES loop,         \* the call whose coroutine runs, or Free
          pc,           \* where each call is
          left,         \* how many of its events are still to be processed
          statsOf,      \* the PipelineStats object of every session, newest last
          baselines,    \* behavior.hosts of every session, in the order of insertion
          buckets,      \* the hosts in windows._events of every session, likewise
          owner,        \* <<u>> if upload u began the session, <<>> at start-up
          alerts,       \* pipeline.alerts.items of the session
          analysis,     \* latest_analysis: <<[upload, packets, flows]>> or <<>>
          raised,       \* history: <<a>> if the ingested event raised alert a
          attached,     \* the alert an ingest puts in its answer, if any
          metricsOf,    \* the metrics an ingest is broadcasting
          todo, dead,   \* the sockets a _broadcast has yet to serve; that failed
          subscribers,  \* _subscribers
          socket,       \* a connection: "new", "open", "gone" (client left), "closed"
          alertsTo,     \* the alerts a connected client was sent
          metricsTo,    \* the last metrics it was sent
          pollPc,       \* what the running GET has read last
          seen,         \* the metrics it read, and of which session
          listing,      \* the rows it read, of which session, and of how many hosts
          counting      \* the session whose windows it counts, and how many there were

sessionVars == <<statsOf, baselines, buckets, owner, alerts>>
castVars == <<attached, metricsOf, todo, dead>>
feedVars == <<subscribers, socket, alertsTo, metricsTo>>
pollVars == <<pollPc, seen, listing, counting>>
apiVars == <<loop, pc, left, sessionVars, analysis, raised, castVars, feedVars, pollVars>>

NoStats == [received |-> 0, accepted |-> 0, failed |-> 0]

\* Nothing read yet, of session n.
Blank(n) == [session |-> n, received |-> 0, accepted |-> 0, failed |-> 0]

NoListing == [session |-> 1, size |-> 0, rows |-> <<>>]
NoCounting == [session |-> 1, size |-> 0]

\* metrics(): the counters of pipeline.stats, the newest object.
Stats == statsOf[Len(statsOf)]

ApiInit ==
  /\ loop = Free
  /\ pc = [t \in Calls |-> "new"]
  /\ left = [t \in Calls |-> Len(Body[t])]
  /\ statsOf = <<NoStats>> /\ baselines = <<<<>>>> /\ buckets = <<<<>>>>
  /\ owner = <<>> /\ alerts = Persisted /\ analysis = <<>>
  /\ raised = [t \in Ingests |-> <<>>]
  /\ attached = [t \in Ingests |-> <<>>]
  /\ metricsOf = [t \in Ingests |-> NoStats]
  /\ todo = [t \in Ingests |-> {}] /\ dead = [t \in Ingests |-> {}]
  /\ subscribers = {}
  /\ socket = [ws \in Sockets |-> "new"]
  /\ alertsTo = [ws \in Sockets |-> <<>>]
  /\ metricsTo = [ws \in Sockets |-> NoStats]
  /\ pollPc = [r \in Pollers |-> "none"]
  /\ seen = [r \in Pollers |-> Blank(1)]
  /\ listing = [r \in Pollers |-> NoListing]
  /\ counting = [r \in Pollers |-> NoCounting]

-------------------------------------------------------------------------------
(* pipeline.process, as the threads of the pool can see it *)

\* The id of the event a call is processing.
Current(t) == Body[t][Len(Body[t]) - left[t] + 1]

Count(field) == statsOf' = [statsOf EXCEPT ![Len(statsOf)][field] = @ + 1]

\* alerts.add: nothing for an alert that is shown already.
Noted(a) == IF a \in Elements(alerts) THEN alerts ELSE Recent(Append(alerts, a), MaxItems)

\* The baseline of host h in session n, and how many events it has learned.
Known(n, h) == {i \in DOMAIN baselines[n] : baselines[n][i].host = h}
Observed(n, h) ==
  IF Known(n, h) = {} THEN 0
  ELSE LET i == CHOOSE i \in Known(n, h) : TRUE IN baselines[n][i].observations

AlertsOf(t) == {[flow |-> Current(t), threat |-> th] : th \in Threats}

\* process begins: stats.received += 1.
Receive(t) ==
  /\ loop = t /\ pc[t] = "ready" /\ left[t] > 0
  /\ Count("received")
  /\ pc' = [pc EXCEPT ![t] = "inside"]
  /\ UNCHANGED <<loop, left, baselines, buckets, owner, alerts, analysis, raised,
                 castVars, feedVars, pollVars>>

\* windows.add: a host that is new gets a bucket, also when the add raises.
AddsBucket(t) ==
  LET n == Len(buckets)
      h == Sender[Current(t)]
  IN  buckets' = IF h \in Elements(buckets[n]) THEN buckets
                 ELSE [buckets EXCEPT ![n] = Append(@, h)]

\* behavior.score: a host that is new gets a baseline.  (That it got its bucket a
\* little earlier makes no difference to a request, which reads the hosts first.)
Score(t) ==
  /\ loop = t /\ pc[t] = "inside"
  /\ AddsBucket(t)
  /\ LET n == Len(baselines)
         h == Sender[Current(t)]
     IN  baselines' = IF Known(n, h) # {} THEN baselines
                      ELSE [baselines EXCEPT ![n] = Append(@, [host |-> h, observations |-> 0])]
  /\ pc' = [pc EXCEPT ![t] = "scored"]
  /\ UNCHANGED <<loop, left, statsOf, owner, alerts, analysis, raised,
                 castVars, feedVars, pollVars>>

\* behavior.learn, unless the deviation is high, as it can be from the third event on.
Learns(t) ==
  LET n == Len(baselines)
      h == Sender[Current(t)]
      learned == [i \in DOMAIN baselines[n] |->
                    IF i \in Known(n, h) THEN [baselines[n][i] EXCEPT !.observations = @ + 1]
                    ELSE baselines[n][i]]
  IN  \/ baselines' = [baselines EXCEPT ![n] = learned]
      \/ Observed(n, h) >= 2 /\ UNCHANGED baselines

\* Variant for the mutation runs: an await between two events of an upload.
AcceptYields(t) ==
  /\ loop = t /\ pc[t] = "scored"
  /\ Learns(t)
  /\ Count("accepted")
  /\ loop' = IF t \in Uploads THEN Free ELSE t
  /\ pc' = [pc EXCEPT ![t] = "ready"]
  /\ left' = [left EXCEPT ![t] = @ - 1]
  /\ UNCHANGED <<buckets, owner, alerts, analysis, raised, castVars, feedVars, pollVars>>

\* process returns, with or without an alert.
Accept(t) ==
  /\ loop = t /\ pc[t] = "scored"
  /\ \E found \in {<<>>} \cup {<<a>> : a \in AlertsOf(t)} :
       /\ alerts' = IF found = <<>> THEN alerts ELSE Noted(found[1])
       /\ raised' = IF t \in Ingests THEN [raised EXCEPT ![t] = found] ELSE raised
  /\ Learns(t)
  /\ Count("accepted")
  /\ pc' = [pc EXCEPT ![t] = "ready"]
  /\ left' = [left EXCEPT ![t] = @ - 1]
  /\ UNCHANGED <<loop, buckets, owner, analysis, castVars, feedVars, pollVars>>

\* process raises: before the score, or after it, when an alert whose row could not
\* be saved stays in the deque.
Reject(t) ==
  /\ loop = t
  /\ \/ pc[t] = "inside" /\ AddsBucket(t) /\ UNCHANGED alerts
     \/ /\ pc[t] = "scored" /\ UNCHANGED buckets
        /\ alerts' \in {alerts} \cup {Noted(a) : a \in AlertsOf(t)}
  /\ Count("failed")
  /\ pc' = [pc EXCEPT ![t] = "raised"]
  /\ UNCHANGED <<loop, left, baselines, owner, analysis, raised, castVars, feedVars, pollVars>>

-------------------------------------------------------------------------------
(* ingest and _broadcast *)

\* Variants for the mutation runs: the newest alert whatever its flow, a failed
\* send that ends the loop, one that is tried again, and a dead list that is kept.
AttachNewest(t) == IF alerts = <<>> THEN <<>> ELSE <<alerts[Len(alerts)]>>

IngestCalled(t) ==
  /\ t \in Ingests
  /\ loop = Free /\ pc[t] = "new"
  /\ loop' = t
  /\ pc' = [pc EXCEPT ![t] = "ready"]
  /\ UNCHANGED <<left, sessionVars, analysis, raised, castVars, feedVars, pollVars>>

\* process raised out of the handler: the framework answers 500.
IngestRaises(t) ==
  /\ t \in Ingests
  /\ loop = t /\ pc[t] = "raised"
  /\ loop' = Free
  /\ pc' = [pc EXCEPT ![t] = "failed"]
  /\ UNCHANGED <<left, sessionVars, analysis, raised, castVars, feedVars, pollVars>>

\* The newest alert of the store, if it is of this flow.
Attachment(t) ==
  IF alerts # <<>> /\ alerts[Len(alerts)].flow = Body[t][1]
  THEN <<alerts[Len(alerts)]>> ELSE <<>>

\* _broadcast(metrics()): the metrics are read and the members copied at once.
StartsMetrics(t, members) ==
  /\ pc' = [pc EXCEPT ![t] = "metrics"]
  /\ metricsOf' = [metricsOf EXCEPT ![t] = Stats]
  /\ todo' = [todo EXCEPT ![t] = members]

\* process returned: the answer is built and the first broadcast begins.
Publish(t) ==
  /\ t \in Ingests
  /\ loop = t /\ pc[t] = "ready" /\ left[t] = 0
  /\ attached' = [attached EXCEPT ![t] = Attachment(t)]
  /\ IF Attachment(t) = <<>>
     THEN StartsMetrics(t, subscribers)
     ELSE /\ pc' = [pc EXCEPT ![t] = "alert"]
          /\ todo' = [todo EXCEPT ![t] = subscribers]
          /\ UNCHANGED metricsOf
  /\ UNCHANGED <<loop, left, sessionVars, analysis, raised, dead, feedVars, pollVars>>

\* What the client gets, if it is still there.
Delivered(t, ws) ==
  IF socket[ws] = "gone"
  THEN UNCHANGED <<alertsTo, metricsTo>>
  ELSE IF pc[t] = "alert"
  THEN /\ alertsTo' = [alertsTo EXCEPT ![ws] = Append(@, attached[t][1])]
       /\ UNCHANGED metricsTo
  ELSE /\ metricsTo' = [metricsTo EXCEPT ![ws] = metricsOf[t]]
       /\ UNCHANGED alertsTo

\* await ws.send_json: the frame is written, or the send raises.  A connection
\* whose client has left may take the frame as long as its handler has not seen
\* the end.  Either way the coroutine may be suspended before it goes on.
SendsTo(t, ws) ==
  /\ loop = t /\ pc[t] \in {"alert", "metrics"} /\ ws \in todo[t]
  /\ loop' \in {t, Free}
  /\ UNCHANGED <<pc, left, sessionVars, analysis, raised, attached, metricsOf,
                 subscribers, socket, pollVars>>

SendStops(t, ws) ==
  /\ SendsTo(t, ws)
  /\ \/ /\ socket[ws] \in {"open", "gone"}
        /\ Delivered(t, ws)
        /\ todo' = [todo EXCEPT ![t] = @ \ {ws}] /\ UNCHANGED dead
     \/ /\ socket[ws] \in {"gone", "closed"}
        /\ todo' = [todo EXCEPT ![t] = {}]
        /\ dead' = [dead EXCEPT ![t] = @ \cup {ws}]
        /\ UNCHANGED <<alertsTo, metricsTo>>

SendRetries(t, ws) ==
  /\ SendsTo(t, ws)
  /\ \/ /\ socket[ws] \in {"open", "gone"}
        /\ Delivered(t, ws)
        /\ todo' = [todo EXCEPT ![t] = @ \ {ws}] /\ UNCHANGED dead
     \/ /\ socket[ws] \in {"gone", "closed"}
        /\ UNCHANGED <<todo, dead, alertsTo, metricsTo>>

Send(t, ws) ==
  /\ SendsTo(t, ws)
  /\ todo' = [todo EXCEPT ![t] = @ \ {ws}]
  /\ \/ /\ socket[ws] \in {"open", "gone"}
        /\ Delivered(t, ws)
        /\ UNCHANGED dead
     \/ /\ socket[ws] \in {"gone", "closed"}
        /\ dead' = [dead EXCEPT ![t] = @ \cup {ws}]
        /\ UNCHANGED <<alertsTo, metricsTo>>

\* A suspended coroutine goes on when the loop comes round to it.
Resume(t) ==
  /\ loop = Free /\ pc[t] \in {"ready", "alert", "metrics"}
  /\ loop' = t
  /\ UNCHANGED <<pc, left, sessionVars, analysis, raised, castVars, feedVars, pollVars>>

\* The alert is broadcast: the dead sockets are discarded, the metrics follow.
EndOfAlert(t) ==
  /\ loop = t /\ pc[t] = "alert" /\ todo[t] = {}
  /\ subscribers' = subscribers \ dead[t]
  /\ dead' = [dead EXCEPT ![t] = {}]
  /\ StartsMetrics(t, subscribers')
  /\ UNCHANGED <<loop, left, sessionVars, analysis, raised, attached,
                 socket, alertsTo, metricsTo, pollVars>>

EndKeepsDead(t) ==
  /\ loop = t /\ pc[t] = "metrics" /\ todo[t] = {}
  /\ subscribers' = subscribers \ dead[t]
  /\ pc' = [pc EXCEPT ![t] = "returned"]
  /\ loop' = Free
  /\ UNCHANGED <<left, sessionVars, analysis, raised, castVars,
                 socket, alertsTo, metricsTo, pollVars>>

\* The metrics are broadcast, and the request is answered.
EndOfMetrics(t) ==
  /\ loop = t /\ pc[t] = "metrics" /\ todo[t] = {}
  /\ subscribers' = subscribers \ dead[t]
  /\ dead' = [dead EXCEPT ![t] = {}]
  /\ pc' = [pc EXCEPT ![t] = "returned"]
  /\ loop' = Free
  /\ UNCHANGED <<left, sessionVars, analysis, raised, attached, metricsOf, todo,
                 socket, alertsTo, metricsTo, pollVars>>

-------------------------------------------------------------------------------
(* upload_pcap *)

\* pipeline.reset_session, by upload u.  (When alerts.clear raises the deque is
\* empty all the same, and the handler only ends in another error answer.)
ResetBy(u) ==
  /\ statsOf' = Append(statsOf, NoStats)
  /\ baselines' = Append(baselines, <<>>)
  /\ buckets' = Append(buckets, <<>>)
  /\ alerts' = <<>>
  /\ owner' = <<u>>

\* Variant for the mutation runs: the size is checked after the reset.
UploadRefusedLate(u) ==
  /\ u \in Uploads
  /\ loop = Free /\ pc[u] = "new"
  /\ ResetBy(u)
  /\ pc' = [pc EXCEPT ![u] = "refused"]
  /\ UNCHANGED <<loop, left, analysis, raised, castVars, feedVars, pollVars>>

\* An unsupported name (400), or a body over the limit (413): HTTPException.
UploadRefused(u) ==
  /\ u \in Uploads
  /\ loop = Free /\ pc[u] = "new"
  /\ pc' = [pc EXCEPT ![u] = "refused"]
  /\ UNCHANGED <<loop, left, sessionVars, analysis, raised, castVars, feedVars, pollVars>>

\* The last await of the handler: the body has been read, the session is reset,
\* and the loop is held until the answer.
UploadRead(u) ==
  /\ u \in Uploads
  /\ loop = Free /\ pc[u] = "new"
  /\ loop' = u
  /\ ResetBy(u)
  /\ pc' = [pc EXCEPT ![u] = "ready"]
  /\ UNCHANGED <<left, analysis, raised, castVars, feedVars, pollVars>>

\* Reading the body or writing the temporary file raises: nothing was reset yet.
UploadReadRaises(u) ==
  /\ u \in Uploads
  /\ loop = Free /\ pc[u] = "new"
  /\ loop' = u
  /\ pc' = [pc EXCEPT ![u] = "raised"]
  /\ UNCHANGED <<left, sessionVars, analysis, raised, castVars, feedVars, pollVars>>

\* The capture cannot be parsed any further.
ParseRaises(u) ==
  /\ u \in Uploads
  /\ loop = u /\ pc[u] = "ready"
  /\ pc' = [pc EXCEPT ![u] = "raised"]
  /\ UNCHANGED <<loop, left, sessionVars, analysis, raised, castVars, feedVars, pollVars>>

\* except Exception: the session is reset (again), the answer is an error, and
\* latest_analysis stays what it was.
UploadRaises(u) ==
  /\ u \in Uploads
  /\ loop = u /\ pc[u] = "raised"
  /\ ResetBy(u)
  /\ pc' = [pc EXCEPT ![u] = "failed"]
  /\ loop' = Free
  /\ UNCHANGED <<left, analysis, raised, castVars, feedVars, pollVars>>

\* Every event was processed: latest_analysis is updated and the call answered.
Analysed(u) ==
  /\ u \in Uploads
  /\ loop = u /\ pc[u] = "ready" /\ left[u] = 0
  /\ analysis' = <<[upload |-> u, packets |-> Len(Body[u]), flows |-> Stats.accepted]>>
  /\ pc' = [pc EXCEPT ![u] = "returned"]
  /\ loop' = Free
  /\ UNCHANGED <<left, sessionVars, raised, castVars, feedVars, pollVars>>

-------------------------------------------------------------------------------
(* alerts_ws *)

\* Variants for the mutation runs: a handler that does not run on the loop, and
\* one that forgets to remove its socket.
SubscribeOffLoop(ws) ==
  /\ socket[ws] = "new"
  /\ socket' = [socket EXCEPT ![ws] = "open"]
  /\ subscribers' = subscribers \cup {ws}
  /\ metricsTo' = [metricsTo EXCEPT ![ws] = Stats]
  /\ UNCHANGED <<loop, pc, left, sessionVars, analysis, raised, castVars, alertsTo, pollVars>>

HandlerForgets(ws) ==
  /\ loop = Free /\ socket[ws] = "gone"
  /\ socket' = [socket EXCEPT ![ws] = "closed"]
  /\ UNCHANGED <<loop, pc, left, sessionVars, analysis, raised, castVars,
                 subscribers, alertsTo, metricsTo, pollVars>>

\* The connection is accepted, added, and sent the metrics of the moment.
Subscribe(ws) ==
  /\ loop = Free /\ socket[ws] = "new"
  /\ socket' = [socket EXCEPT ![ws] = "open"]
  /\ subscribers' = subscribers \cup {ws}
  /\ metricsTo' = [metricsTo EXCEPT ![ws] = Stats]
  /\ UNCHANGED <<loop, pc, left, sessionVars, analysis, raised, castVars, alertsTo, pollVars>>

\* The client goes away, at any time, and what it has got with it.
ClientLeaves(ws) ==
  /\ socket[ws] = "open"
  /\ socket' = [socket EXCEPT ![ws] = "gone"]
  /\ alertsTo' = [alertsTo EXCEPT ![ws] = <<>>]
  /\ metricsTo' = [metricsTo EXCEPT ![ws] = NoStats]
  /\ UNCHANGED <<loop, pc, left, sessionVars, analysis, raised, castVars,
                 subscribers, pollVars>>

\* receive_text, or the first send, raises: the socket is discarded.
HandlerEnds(ws) ==
  /\ loop = Free /\ socket[ws] = "gone"
  /\ socket' = [socket EXCEPT ![ws] = "closed"]
  /\ subscribers' = subscribers \ {ws}
  /\ UNCHANGED <<loop, pc, left, sessionVars, analysis, raised, castVars,
                 alertsTo, metricsTo, pollVars>>

-------------------------------------------------------------------------------
(* GET /metrics *)

\* Variant for the mutation runs: the fields are read the other way round.
FieldsReversed == [idle |-> "failed", failed |-> "accepted", accepted |-> "received"]

\* The field a poller reads next: received, accepted, failed.
Fields == [idle |-> "received", received |-> "accepted", accepted |-> "failed"]

\* A thread serves one request at a time.
Serving(r) == pollPc[r] \in {"idle", "received", "accepted", "failed", "windows",
                             "hosts", "host", "observations"}

\* s = pipeline.stats: the object is fixed before its fields are read.
Poll(r) ==
  /\ ~Serving(r)
  /\ pollPc' = [pollPc EXCEPT ![r] = "idle"]
  /\ seen' = [seen EXCEPT ![r] = Blank(Len(statsOf))]
  /\ listing' = [listing EXCEPT ![r] = NoListing]
  /\ counting' = [counting EXCEPT ![r] = NoCounting]
  /\ UNCHANGED <<loop, pc, left, sessionVars, analysis, raised, castVars, feedVars>>

Read(r) ==
  /\ pollPc[r] \in DOMAIN Fields
  /\ LET field == Fields[pollPc[r]]
     IN  /\ pollPc' = [pollPc EXCEPT ![r] = field]
         /\ seen' = [seen EXCEPT ![r][field] = statsOf[seen[r].session][field]]
  /\ UNCHANGED <<loop, pc, left, sessionVars, analysis, raised, castVars, feedVars,
                 listing, counting>>

\* The alerts, the fitted models and the hosts are counted, each in one read that no
\* property looks at; then active_keys begins to iterate over the dict of the moment.
CountWindows(r) ==
  /\ pollPc[r] = "failed"
  /\ pollPc' = [pollPc EXCEPT ![r] = "windows"]
  /\ counting' = [counting EXCEPT ![r] = [session |-> Len(buckets),
                                         size |-> Len(buckets[Len(buckets)])]]
  /\ UNCHANGED <<loop, pc, left, sessionVars, analysis, raised, castVars, feedVars,
                 seen, listing>>

\* The iteration ends with the answer, or in a RuntimeError when a host was added.
Counted(r) ==
  /\ pollPc[r] = "windows"
  /\ LET grown == Len(buckets[counting[r].session]) # counting[r].size
     IN  \/ ~grown /\ pollPc' = [pollPc EXCEPT ![r] = "answered"]
         \/ grown /\ pollPc' = [pollPc EXCEPT ![r] = "crashed"]
  /\ counting' = [counting EXCEPT ![r] = NoCounting]
  /\ UNCHANGED <<loop, pc, left, sessionVars, analysis, raised, castVars, feedVars,
                 seen, listing>>

-------------------------------------------------------------------------------
(* GET /hosts *)

\* Variants for the mutation runs: the columns of a row are read the other way
\* round, and the iteration is over a copy of the items.
ColumnsReversed == [host |-> "baseline_ready", baseline_ready |-> "observations"]
ResizedUnseen(r) == FALSE

\* The column of a row that is read next.
Columns == [host |-> "observations", observations |-> "baseline_ready"]

\* behavior.hosts.items(): the dict is fixed, and how many hosts it has.
ListHosts(r) ==
  /\ ~Serving(r)
  /\ pollPc' = [pollPc EXCEPT ![r] = "hosts"]
  /\ listing' = [listing EXCEPT ![r] = [session |-> Len(baselines),
                                       size |-> Len(baselines[Len(baselines)]),
                                       rows |-> <<>>]]
  /\ seen' = [seen EXCEPT ![r] = Blank(1)]
  /\ counting' = [counting EXCEPT ![r] = NoCounting]
  /\ UNCHANGED <<loop, pc, left, sessionVars, analysis, raised, castVars, feedVars>>

\* A host was added since.
Resized(r) == Len(baselines[listing[r].session]) # listing[r].size

\* The iterator looks for a resized dict first, also after the last item.
NextHost(r) ==
  /\ pollPc[r] = "hosts" /\ ~Resized(r)
  /\ LET hosts == baselines[listing[r].session]
         i == Len(listing[r].rows) + 1
     IN  \/ /\ i \in DOMAIN hosts
            /\ pollPc' = [pollPc EXCEPT ![r] = "host"]
            /\ listing' = [listing EXCEPT ![r].rows = Append(@,
                 [host |-> hosts[i].host, observations |-> 0, baseline_ready |-> FALSE])]
         \/ /\ i > listing[r].size
            /\ pollPc' = [pollPc EXCEPT ![r] = "listed"] /\ UNCHANGED listing
  /\ UNCHANGED <<loop, pc, left, sessionVars, analysis, raised, castVars, feedVars,
                 seen, counting>>

\* RuntimeError: the framework answers 500.
ListRaises(r) ==
  /\ pollPc[r] = "hosts" /\ Resized(r)
  /\ pollPc' = [pollPc EXCEPT ![r] = "crashed"]
  /\ UNCHANGED <<loop, pc, left, sessionVars, analysis, raised, castVars, feedVars,
                 seen, listing, counting>>

\* b.observations is of the baseline that is iterated over, and ready(ip) looks the
\* host up in the session of the moment.
ReadColumn(r) ==
  /\ pollPc[r] \in DOMAIN Columns
  /\ LET column == Columns[pollPc[r]]
         i == Len(listing[r].rows)
         h == listing[r].rows[i].host
     IN  /\ pollPc' = [pollPc EXCEPT ![r] = IF column \in DOMAIN Columns THEN column ELSE "hosts"]
         /\ listing' = [listing EXCEPT ![r].rows[i][column] =
              IF column = "observations" THEN Observed(listing[r].session, h)
              ELSE Observed(Len(baselines), h) >= Warmup]
  /\ UNCHANGED <<loop, pc, left, sessionVars, analysis, raised, castVars, feedVars,
                 seen, counting>>

-------------------------------------------------------------------------------
(* A call that holds the loop goes on. *)
Runs(t) ==
  \/ Receive(t) \/ Score(t) \/ Accept(t) \/ Reject(t)
  \/ IngestRaises(t) \/ Publish(t) \/ EndOfAlert(t) \/ EndOfMetrics(t)
  \/ \E ws \in Sockets : Send(t, ws)
  \/ ParseRaises(t) \/ UploadRaises(t) \/ Analysed(t)

ApiNext ==
  \/ \E t \in Calls : Runs(t) \/ Resume(t)
  \/ \E t \in Ingests : IngestCalled(t)
  \/ \E u \in Uploads : UploadRefused(u) \/ UploadRead(u) \/ UploadReadRaises(u)
  \/ \E ws \in Sockets : Subscribe(ws) \/ ClientLeaves(ws) \/ HandlerEnds(ws)
  \/ \E r \in Pollers : Poll(r) \/ Read(r) \/ CountWindows(r) \/ Counted(r)
  \/ \E r \in Pollers : ListHosts(r) \/ NextHost(r) \/ ListRaises(r) \/ ReadColumn(r)

ApiSpec == ApiInit /\ [][ApiNext]_apiVars

\* The event loop runs what is ready in the order it became ready, and every send
\* ends, because the socket drains or fails: a call that can go on, or that waits
\* for a loop that has become free for good, goes on.  Nobody need call or leave.
Fairness == \A t \in Calls : WF_apiVars(Runs(t) \/ Resume(t))

FairApiSpec == ApiSpec /\ Fairness

-------------------------------------------------------------------------------
(* Properties *)

Ended == {"returned", "failed", "refused"}
Broadcasting(t) == pc[t] \in {"alert", "metrics"}

\* The shape of the state.  A call that is neither new nor over either holds the
\* loop or is suspended in a broadcast, and a broadcast leaves nothing behind.
ApiTypeOK ==
  /\ loop \in Calls \cup {Free}
  /\ pc \in [Calls -> {"new", "ready", "inside", "scored", "raised", "alert", "metrics"} \cup Ended]
  /\ left \in [Calls -> Nat]
  /\ statsOf \in Seq([received : Nat, accepted : Nat, failed : Nat]) /\ statsOf # <<>>
  /\ Len(alerts) <= MaxItems
  /\ subscribers \subseteq Sockets
  /\ socket \in [Sockets -> {"new", "open", "gone", "closed"}]
  /\ \A t \in Calls : pc[t] \in {"ready", "inside", "scored", "raised"} => loop = t
  /\ \A t \in Ingests : loop = t => pc[t] \notin {"new"} \cup Ended
  /\ \A t \in Ingests : dead[t] # {} \/ todo[t] # {} => Broadcasting(t)

Balanced(s) == s.received = s.accepted + s.failed

\* Metrics that go out over a WebSocket, from a broadcast or from a new handler,
\* are never taken in the middle of an event, although several calls are open.
LiveMetricsBalanced == \A ws \in Sockets : Balanced(metricsTo[ws])

\* The three counters that GET /metrics reads one by one, while the loop goes on
\* and sessions are reset, may be torn; but at most one event of those it saw
\* received is missing from the other two, because it reads received first.
PolledMetricsLag ==
  \A r \in Pollers : pollPc[r] \notin DOMAIN Fields =>
    seen[r].received <= seen[r].accepted + seen[r].failed + 1

\* A row of GET /hosts reads observations and baseline_ready one after the other, the
\* second perhaps in another session.  A host that has learned enough is never called
\* unready in its own session: only a reset since the request began can do that.
EnoughMeansReady ==
  \A r \in Pollers : ~Serving(r) => \A row \in Elements(listing[r].rows) :
    row.observations >= Warmup /\ ~row.baseline_ready => listing[r].session < Len(baselines)

\* An answer of GET /hosts lists every host that its session has when the iteration
\* ends, each once, although hosts are added meanwhile.
ListedHostsComplete ==
  [][\A r \in Pollers : pollPc[r] = "hosts" /\ pollPc'[r] = "listed" =>
       LET hosts == baselines[listing[r].session]
       IN  [i \in DOMAIN hosts |-> hosts[i].host]
           = [i \in DOMAIN listing[r].rows |-> listing[r].rows[i].host]]_apiVars

\* /analysis/latest describes one whole capture: no event of an ingest or of
\* another upload is counted as a flow of it.
AnalysisOfOneCapture == \A a \in Elements(analysis) : a.flows = a.packets

\* "Dashboard values originate from live backend state" (docs/PRD.md:324): while
\* nothing is being analysed, the analysis shown is of the upload that began the
\* session.  The one exception is an upload that failed after the analysis was made:
\* it began an empty session and left latest_analysis alone.  A refused upload
\* replaces nothing.
AnalysisStaleOnlyByFailure ==
  loop = Free =>
    /\ owner # <<>> => pc[owner[1]] \in {"returned", "failed"}
    /\ \A a \in Elements(analysis) : owner = <<a.upload>> \/ pc[owner[1]] = "failed"

\* No other call carries an event with the id that ingest t was given, and none of
\* an earlier process has left an alert.
UniqueId(t) ==
  /\ \A u \in Calls \ {t} : Body[t][1] \notin Elements(Body[u])
  /\ \A a \in Elements(Persisted) : a.flow # Body[t][1]

\* The answer of an ingest carries the alert its own event raised, and only that
\* one, whatever ran while earlier answers were still being broadcast, provided
\* that the event id is used once.
AttachedIsOwn ==
  \A t \in Ingests :
    UniqueId(t) /\ (Broadcasting(t) \/ pc[t] = "returned") => attached[t] = raised[t]

\* Every client that is connected is subscribed, also after broadcasts that met
\* failed sockets; and no socket stays subscribed when its handler is over.
SubscribersAreConnected ==
  \A ws \in Sockets :
    /\ socket[ws] = "open" => ws \in subscribers
    /\ ws \in subscribers => socket[ws] \in {"open", "gone"}

\* An ingest that was accepted for processing is answered.
IngestAnswered == \A t \in Ingests : pc[t] = "ready" ~> pc[t] \in Ended

\* "live publication": an alert reaches every client that was connected when its
\* broadcast began, unless the client leaves, whatever other sockets do.
AlertReachesClients ==
  \A t \in Ingests, ws \in Sockets :
    (pc[t] = "alert" /\ ws \in todo[t])
      ~> (Elements(attached[t]) \subseteq Elements(alertsTo[ws]) \/ socket[ws] # "open")
===============================================================================
