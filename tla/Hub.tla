-------------------------------- MODULE Hub --------------------------------
(***************************************************************************)
(* The hub (src/ms605/gui/ws.py): what changes in the server is marked by  *)
(* the events and by the routes (src/ms605/gui/server.py), published in    *)
(* one numbered stream, queued for every client, and put together again by *)
(* the page (src/web/src/store/reducer.ts).                                *)
(*                                                                         *)
(* All of it is synchronous but for the routes that release sensors or     *)
(* stop a gather.  Contents nothing here depends on are version numbers:   *)
(* the sites, a sensor's settings and names, an apply job.  The address of *)
(* a sensor is the sensor: a pending import is for it.                     *)
(***************************************************************************)
EXTENDS Integers, Sequences, FiniteSets

CONSTANTS
  Pages,     \* browsers, each with one connection at a time
  Sensors,   \* a set of numbers: the order of their ids
  MaxQueue,  \* queue_size, and more than a client ever falls behind by
  MaxSteps,  \* bound on what happens in the server
  MaxCuts    \* bound on connections lost

ASSUME HubAssumption == Sensors \subseteq Nat /\ IsFiniteSet(Sensors) /\ MaxQueue \in Nat

VARIABLES
  core,      \* the fleet, the registry, the batch and the apply job; `linking` is what the gather
             \* is connecting, `connecting` what the hub has heard of it
  routes,    \* what the awaiting routes are at work on: [release, stop, cancel], cancel the
             \* connects that the end of a gather waits for
  marks,     \* the hub's dirty marks: [topics, sensors, jobs, notices]
  muted,     \* the sensors whose gather failed in the last NOTICE_SUPPRESS_S
  seq,       \* Hub.seq
  scheduled, \* flush() is scheduled
  client,    \* [conn, queue] for each page's connection
  page,      \* [last, view] in each page
  moot,      \* ghost: pending imports were dropped and not marked
  bound      \* [steps, cuts] so far

hubVars == <<core, routes, marks, muted, seq, scheduled, client, page, moot, bound>>

NoMarks == [topics |-> {}, sensors |-> {}, jobs |-> {}, notices |-> 0]
NoRoutes == [release |-> {}, stop |-> FALSE, cancel |-> {}]
NoSensor == [reg |-> FALSE, cached |-> FALSE, ver |-> 0, link |-> "none", busy |-> FALSE]
NoBatch == [id |-> 0, state |-> "none", job |-> [d \in Sensors |-> 0]]

-----------------------------------------------------------------------------
(* Views *)

\* sensor_view(): None for a sensor neither registered nor in the fleet; the cached address is not shown.
SensorView(c, d) ==
  LET s == c.sensor[d] IN
  IF ~s.reg /\ s.link = "none" THEN NoSensor ELSE [s EXCEPT !.cached = FALSE]

GatherStatus(c) == [on |-> c.gathering, connecting |-> c.connecting]

Snapshot(c) == [sites |-> c.sites, pending |-> c.pending, gather |-> GatherStatus(c),
                sensor |-> [d \in Sensors |-> SensorView(c, d)], batch |-> c.batch, apply |-> c.apply]

\* The server at some quiet moment, before anybody looks: a sensor is new, registered (and not
\* seen by this host yet), or connected.
AtFirst == {NoSensor, [NoSensor EXCEPT !.reg = TRUE],
            [NoSensor EXCEPT !.reg = TRUE, !.cached = TRUE, !.link = "up"]}

HubInit ==
  /\ core \in [sites : {0}, pending : {[d \in Sensors |-> 0]}, gathering : BOOLEAN, linking : {{}}, connecting : {{}},
               batch : {NoBatch}, apply : {0}, sensor : [Sensors -> AtFirst]]
  /\ routes = NoRoutes
  /\ marks = NoMarks /\ muted = {} /\ seq = 0 /\ scheduled = FALSE
  /\ client = [p \in Pages |-> [conn |-> "off", queue |-> <<>>]]
  /\ page = [p \in Pages |-> [last |-> -1, view |-> Snapshot(core)]]
  /\ moot = FALSE /\ bound = [steps |-> 0, cuts |-> 0]

-----------------------------------------------------------------------------
(* flush(): marks become messages *)

Message(kind, id, value) == [kind |-> kind, id |-> id, value |-> value]

\* One message for every member, by id.
PerSensor(ds, M(_)) ==
  LET order == CHOOSE o \in [1..Cardinality(ds) -> ds] : \A i, j \in DOMAIN o : i < j => o[i] < o[j]
  IN  [n \in 1..Cardinality(ds) |-> M(order[n])]

If(topic, m, message) == IF topic \in m.topics THEN <<message>> ELSE <<>>

\* Mutant of Messages: the batch does not stand in for its jobs.
MessagesBatchLast(c, m) ==
  If("sites", m, Message("sites", 0, c.sites))
  \o If("pending", m, Message("pending", 0, c.pending))
  \o PerSensor(m.sensors, LAMBDA d : Message("sensor", d, SensorView(c, d)))
  \o (IF m.jobs = {} THEN If("batch", m, Message("batch", 0, c.batch))
      ELSE PerSensor(m.jobs, LAMBDA d : Message("job", d, [id |-> c.batch.id, job |-> c.batch.job[d]])))
  \o If("apply", m, Message("apply", 0, c.apply))
  \o If("gather", m, Message("gather", 0, GatherStatus(c)))
  \o [n \in 1..m.notices |-> Message("notice", 0, 0)]

\* The batch, if it is marked, carries every job.
Messages(c, m) ==
  If("sites", m, Message("sites", 0, c.sites))
  \o If("pending", m, Message("pending", 0, c.pending))
  \o PerSensor(m.sensors, LAMBDA d : Message("sensor", d, SensorView(c, d)))
  \o (IF "batch" \in m.topics THEN <<Message("batch", 0, c.batch)>>
      ELSE PerSensor(m.jobs, LAMBDA d : Message("job", d, [id |-> c.batch.id, job |-> c.batch.job[d]])))
  \o If("apply", m, Message("apply", 0, c.apply))
  \o If("gather", m, Message("gather", 0, GatherStatus(c)))
  \o [n \in 1..m.notices |-> Message("notice", 0, 0)]

\* Mutant of Put: what does not fit is dropped.
PutOrDrop(cl, messages) ==
  IF cl.conn # "open" THEN cl
  ELSE [cl EXCEPT !.queue = SubSeq(@ \o messages, 1, IF Len(@ \o messages) < MaxQueue THEN Len(@ \o messages) ELSE MaxQueue)]

\* Client.put() of one message after another: an overflow closes the connection (1013).
Put(cl, messages) ==
  IF cl.conn # "open" THEN cl
  ELSE IF Len(cl.queue) + Len(messages) > MaxQueue THEN [conn |-> "closing", queue |-> <<>>]
  ELSE [cl EXCEPT !.queue = @ \o messages]

\* The state becomes c, and everything in m is published.
Published(c, m) ==
  LET ms == Messages(c, m)
      numbered == [n \in 1..Len(ms) |-> [seq |-> seq + n, m |-> ms[n]]]
  IN  /\ core' = c
      /\ marks' = NoMarks /\ scheduled' = FALSE
      /\ seq' = seq + Len(ms)
      /\ client' = [p \in Pages |-> Put(client[p], numbered)]
      /\ moot' = (moot /\ "pending" \notin m.topics)

\* The state becomes c, and m waits for the scheduled flush().
Scheduled(c, m) ==
  /\ core' = c
  /\ marks' = m /\ scheduled' = TRUE
  /\ UNCHANGED <<seq, client>>

Marked(topics, ds) == [marks EXCEPT !.topics = @ \cup topics, !.sensors = @ \cup ds]

Step == bound.steps < MaxSteps /\ bound' = [bound EXCEPT !.steps = @ + 1]

\* Events and synchronous routes end one way or the other.
Event(c, m) == Scheduled(c, m) /\ UNCHANGED <<routes, muted, page, moot>>
Route(c, m) == Published(c, m) /\ UNCHANGED <<routes, muted, page>>

Flush == scheduled /\ Route(core, marks) /\ UNCHANGED bound

-----------------------------------------------------------------------------
(* The registry's routes *)

With(d, s) == [core EXCEPT !.sensor[d] = s]
Renewed(s) == [s EXCEPT !.ver = @ + 1]
Linked(d) == core.sensor[d].link # "none"

CreateSite ==
  /\ Step /\ Route([core EXCEPT !.sites = @ + 1], Marked({"sites"}, {}))

\* A sensor named while connected has its address cached, which drops the imports of it.
CreateSensor(d) ==
  /\ Step /\ ~core.sensor[d].reg
  /\ LET c == With(d, [core.sensor[d] EXCEPT !.reg = TRUE, !.cached = Linked(d)]) IN
     IF Linked(d) THEN Route([c EXCEPT !.pending[d] = 0], Marked({"pending"}, {d}))
     ELSE Route(c, Marked({}, {d}))

UpdateSensor(d) ==
  /\ Step /\ core.sensor[d].reg
  /\ Route(With(d, Renewed(core.sensor[d])), Marked({}, {d}))

DeleteSensor(d) ==
  /\ Step /\ core.sensor[d].reg
  /\ Route(With(d, [core.sensor[d] EXCEPT !.reg = FALSE, !.cached = FALSE]), Marked({}, {d}))

\* An import for one of two sites; a sensor whose address is known here is left out.
Import(d, newSite) ==
  /\ Step /\ ~core.sensor[d].cached /\ core.pending[d] < 2
  /\ Route([core EXCEPT !.pending[d] = @ + 1, !.sites = IF newSite THEN @ + 1 ELSE @],
           Marked({"pending"} \cup (IF newSite THEN {"sites"} ELSE {}), {}))

-----------------------------------------------------------------------------
(* Gathering *)

GatherStart ==
  /\ Step /\ ~core.gathering
  /\ Route([core EXCEPT !.gathering = TRUE], Marked({"gather"}, {}))

\* The route, or the batch that fires, waits for the connects under way to be cancelled.
StopBegins ==
  /\ Step /\ ~routes.stop
  /\ core' = [core EXCEPT !.gathering = FALSE]
  /\ routes' = [routes EXCEPT !.stop = TRUE, !.cancel = core.linking]
  /\ UNCHANGED <<marks, muted, seq, scheduled, client, page, moot>>

\* clear_connecting() takes those of a gather started meanwhile as well.
StopEnds ==
  /\ routes.stop /\ routes.cancel = {} /\ routes' = [routes EXCEPT !.stop = FALSE]
  /\ Published([core EXCEPT !.connecting = {}], Marked({"gather"}, {}))
  /\ UNCHANGED <<muted, page, bound>>

\* A link that is not identified yet.
Connecting(d) ==
  /\ Step /\ core.gathering /\ core.sensor[d].link \in {"none", "lost"} /\ d \notin core.linking
  /\ Event([core EXCEPT !.connecting = @ \cup {d}, !.linking = @ \cup {d}], Marked({"gather"}, {}))

\* The end of a link that was never identified; _forget_connecting() marks what it takes away.
Unlinked(d) == [core EXCEPT !.connecting = @ \ {d}, !.linking = @ \ {d}]
Forgotten(d) == IF d \in core.connecting THEN {"gather"} ELSE {}
Uncancelled(d) == routes' = [routes EXCEPT !.cancel = @ \ {d}]

ConnectCancelled(d) ==
  /\ d \in routes.cancel /\ Uncancelled(d)
  /\ Scheduled(Unlinked(d), Marked(Forgotten(d), {}))
  /\ UNCHANGED <<muted, page, moot, bound>>

\* GatherFailed says why: a notice, but not every time.
GatherFails(d) ==
  /\ Step /\ d \in core.linking /\ Uncancelled(d)
  /\ Scheduled(Unlinked(d), [Marked(Forgotten(d), {}) EXCEPT !.notices = IF d \in muted THEN @ ELSE @ + 1])
  /\ muted' = muted \cup {d}
  /\ UNCHANGED <<page, moot>>

NoticeAgain ==
  /\ Step /\ muted # {} /\ muted' = {}
  /\ UNCHANGED <<core, routes, marks, seq, scheduled, client, page, moot>>

\* The imports that match() drops: all of them for a registered sensor, the one that it becomes else.
Matched(d) ==
  IF core.sensor[d].reg THEN [core EXCEPT !.pending[d] = 0]
  ELSE [core EXCEPT !.pending[d] = IF @ > 0 THEN @ - 1 ELSE 0]

Found(d) ==
  LET s == core.sensor[d]
      known == s.reg \/ core.pending[d] > 0 IN
  [Matched(d) EXCEPT !.sensor[d] = [Renewed(s) EXCEPT !.link = "up", !.reg = known, !.cached = known],
                     !.connecting = @ \ {d}, !.linking = @ \ {d}]

Topics(d) == Forgotten(d) \cup (IF ~core.sensor[d].reg /\ core.pending[d] > 0 THEN {"pending"} ELSE {})

Identified(d) == /\ core.sensor[d].link # "up" /\ d \notin routes.release
                 /\ d \in core.linking \/ core.sensor[d].link = "lost"

\* Mutant of Gathered: an import that became a sensor is not marked either.
GatheredUnmarked(d) ==
  /\ Step /\ Identified(d) /\ Uncancelled(d)
  /\ Scheduled(Found(d), Marked(Topics(d) \ {"pending"}, {d}))
  /\ moot' = (moot \/ (core.sensor[d].reg /\ core.pending[d] > 0))
  /\ UNCHANGED <<muted, page>>

\* A new link identified, or a lost one back: SensorGathered.  `resolved_pending` is false for a
\* sensor that was registered, whatever match() dropped.
Gathered(d) ==
  /\ Step /\ Identified(d) /\ Uncancelled(d)
  /\ Scheduled(Found(d), Marked(Topics(d), {d}))
  /\ moot' = (moot \/ (core.sensor[d].reg /\ core.pending[d] > 0))
  /\ UNCHANGED <<muted, page>>

LinkDown(d) ==
  /\ Step /\ core.sensor[d].link = "up"
  /\ Event(With(d, [core.sensor[d] EXCEPT !.link = "lost"]), Marked({}, {d}))

BusyChanges(d) ==
  /\ Step /\ Linked(d) /\ (core.sensor[d].busy \/ core.sensor[d].link = "up")
  /\ Event(With(d, [core.sensor[d] EXCEPT !.busy = ~@]), Marked({}, {d}))

\* ApplyResult, or the result of a calibration that started: config_rev and the last snapshot or
\* calibration change.
ConfigChanges(d) ==
  /\ Step /\ Linked(d)
  /\ Event(With(d, Renewed(core.sensor[d])), Marked({}, {d}))

-----------------------------------------------------------------------------
(* Release *)

InBatch(d) == core.batch.state \in {"waiting", "running"} /\ core.batch.job[d] > 0

\* The links close, with their events, while the sessions are still there; a release of everything
\* stops the gather first.
ReleaseBegins(ds, all) ==
  /\ Step /\ routes.release = {} /\ ds # {}
  /\ \A d \in ds : Linked(d) /\ ~InBatch(d)
  /\ all => core.batch.state \notin {"waiting", "running"} /\ ds = {d \in Sensors : Linked(d)}
  /\ routes' = [routes EXCEPT !.release = ds, !.cancel = IF all THEN {} ELSE @]
  /\ LET c == IF all THEN [core EXCEPT !.gathering = FALSE, !.connecting = {}, !.linking = {}] ELSE core IN
     Scheduled([c EXCEPT !.sensor = [d \in Sensors |-> IF d \in ds THEN [@[d] EXCEPT !.link = "lost"] ELSE @[d]]],
               Marked(IF all /\ core.connecting # {} THEN {"gather"} ELSE {}, ds))
  /\ UNCHANGED <<muted, page, moot>>

\* The sessions leave the fleet; whatever still holds their locks is not shown.
Gone(ds) == [core EXCEPT !.sensor = [d \in Sensors |->
               IF d \in ds THEN [@[d] EXCEPT !.link = "none", !.busy = FALSE] ELSE @[d]]]

\* Mutant of ReleaseEnds: the events of the closing links are trusted to do.
ReleaseEndsUnmarked ==
  /\ routes.release # {} /\ routes' = [routes EXCEPT !.release = {}]
  /\ Published(Gone(routes.release),
               Marked({"gather"}, {}))
  /\ UNCHANGED <<muted, page, bound>>

ReleaseEnds ==
  /\ routes.release # {} /\ routes' = [routes EXCEPT !.release = {}]
  /\ Published(Gone(routes.release),
               Marked({"gather"}, routes.release))
  /\ UNCHANGED <<muted, page, bound>>

-----------------------------------------------------------------------------
(* The batch and the apply job *)

\* A job's state is a number, 0 for a sensor not in the batch.
CreateBatch(ds) ==
  /\ Step /\ core.batch.state \notin {"waiting", "running"} /\ routes.release = {} /\ ds # {}
  /\ \A d \in ds : core.sensor[d].link = "up"
  /\ Route([core EXCEPT !.batch = [id |-> @.id + 1, state |-> "waiting",
                                   job |-> [d \in Sensors |-> IF d \in ds THEN 1 ELSE 0]]],
           Marked({"batch"}, {}))

BatchChanges(new) ==
  /\ Step /\ <<core.batch.state, new>> \in {<<"waiting", "running">>, <<"waiting", "ended">>, <<"running", "ended">>}
  /\ Event([core EXCEPT !.batch.state = new], Marked({"batch"}, {}))

JobChanges(d) ==
  /\ Step /\ InBatch(d)
  /\ Event([core EXCEPT !.batch.job[d] = @ + 1],
           [marks EXCEPT !.jobs = @ \cup {d}])

ApplyStarts == Step /\ Route([core EXCEPT !.apply = @ + 1], Marked({"apply"}, {}))

ApplyChanges ==
  /\ Step /\ core.apply > 0
  /\ Event([core EXCEPT !.apply = @ + 1], Marked({"apply"}, {}))

-----------------------------------------------------------------------------
(* Clients and pages *)

Cut == bound.cuts < MaxCuts /\ bound' = [bound EXCEPT !.cuts = @ + 1]
HubIdle == UNCHANGED <<core, routes, marks, muted, seq, scheduled, moot>>

\* add_client(): the snapshot comes first, and everything later lands in the queue.
AddClient(p) ==
  /\ client[p].conn = "off"
  /\ client' = [client EXCEPT ![p] =
       [conn |-> "open", queue |-> <<[seq |-> seq, m |-> Message("snapshot", 0, Snapshot(core))]>>]]
  /\ HubIdle /\ UNCHANGED <<page, bound>>

\* apply() of the reducer.
Apply(view, m) ==
  CASE m.kind = "snapshot" -> m.value
    [] m.kind = "sites" -> [view EXCEPT !.sites = m.value]
    [] m.kind = "pending" -> [view EXCEPT !.pending = m.value]
    [] m.kind = "sensor" -> [view EXCEPT !.sensor[m.id] = m.value]
    [] m.kind = "batch" -> [view EXCEPT !.batch = m.value]
    [] m.kind = "job" /\ view.batch.id = m.value.id ->
         [view EXCEPT !.batch.job[m.id] = m.value.job]
    [] m.kind = "apply" -> [view EXCEPT !.apply = m.value]
    [] m.kind = "gather" -> [view EXCEPT !.gather = m.value]
    [] OTHER -> view

\* reduce(): a snapshot replaces everything, the next number applies, a gap asks for a snapshot.
Deliver(p) ==
  /\ client[p].conn = "open" /\ client[p].queue # <<>>
  /\ LET n == Head(client[p].queue) IN
     IF n.m.kind = "snapshot" \/ n.seq = page[p].last + 1
     THEN /\ page' = [page EXCEPT ![p] = [last |-> n.seq, view |-> Apply(@.view, n.m)]]
          /\ client' = [client EXCEPT ![p].queue = Tail(@)]
     ELSE /\ client' = IF n.seq <= page[p].last THEN [client EXCEPT ![p].queue = Tail(@)]
                       ELSE [client EXCEPT ![p] = [conn |-> "off", queue |-> <<>>]]
          /\ page' = page
  /\ HubIdle /\ UNCHANGED bound

\* The sender closes the connection of a client that is too slow.
Closed(p) ==
  /\ client[p].conn = "closing"
  /\ client' = [client EXCEPT ![p] = [conn |-> "off", queue |-> <<>>]]
  /\ HubIdle /\ UNCHANGED <<page, bound>>

\* Or a send takes longer than SEND_TIMEOUT_S, or the network goes.
ConnectionLost(p) ==
  /\ Cut /\ client[p].conn = "open"
  /\ client' = [client EXCEPT ![p] = [conn |-> "off", queue |-> <<>>]]
  /\ HubIdle /\ UNCHANGED page

-----------------------------------------------------------------------------
HubNext ==
  \/ Flush \/ CreateSite \/ GatherStart \/ StopBegins \/ StopEnds \/ NoticeAgain
  \/ \E d \in Sensors : \/ CreateSensor(d) \/ UpdateSensor(d) \/ DeleteSensor(d)
                        \/ \E new \in BOOLEAN : Import(d, new)
                        \/ Connecting(d) \/ ConnectCancelled(d) \/ GatherFails(d) \/ Gathered(d) \/ LinkDown(d)
                        \/ BusyChanges(d) \/ ConfigChanges(d) \/ JobChanges(d)
  \/ \E ds \in SUBSET Sensors : CreateBatch(ds) \/ \E all \in BOOLEAN : ReleaseBegins(ds, all)
  \/ ReleaseEnds \/ \E new \in {"running", "ended"} : BatchChanges(new)
  \/ ApplyStarts \/ ApplyChanges
  \/ \E p \in Pages : AddClient(p) \/ Deliver(p) \/ Closed(p) \/ ConnectionLost(p)

HubSpec == HubInit /\ [][HubNext]_hubVars

-----------------------------------------------------------------------------
(* Properties *)

\* A page that has everything it was sent, and no route at work.
UpToDate(p) == /\ client[p].conn = "open" /\ client[p].queue = <<>> /\ ~scheduled
               /\ routes = NoRoutes

\* The server is what the pages show (docs/GUI_API.md:26, G10, D11): a page with nothing more to
\* come shows the server's state, however slow it was and however often it began anew.
PageShowsServer ==
  \A p \in Pages : UpToDate(p) =>
    LET now == Snapshot(core) IN
    page[p].view = IF moot THEN [now EXCEPT !.pending = page[p].view.pending] ELSE now

\* As the line says, pending imports and all.
PendingShown == \A p \in Pages : UpToDate(p) => page[p].view.pending = core.pending

\* A slow client is closed, never sent on with a message missing (ws.py:92, G5): what is queued
\* goes on from what the page has, without a gap, to the last message there is.
NoGap ==
  \A p \in Pages : client[p].conn = "open" =>
    LET q == client[p].queue IN
    /\ \A n \in 2..Len(q) : q[n].seq = q[n - 1].seq + 1
    /\ q # <<>> /\ q[1].m.kind # "snapshot" => q[1].seq = page[p].last + 1
    /\ (IF q = <<>> THEN page[p].last ELSE q[Len(q)].seq) = seq
=============================================================================
