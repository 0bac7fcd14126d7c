------------------------------ MODULE Session ------------------------------
(***************************************************************************)
(* The connection lifecycle of one DeviceSession (src/ms605/session.py)    *)
(* together with the part of the driver it owns (src/ms605/driver.py): who *)
(* may open, keep, lose and drop the BLE link of one sensor.               *)
(*                                                                         *)
(* Everything runs on one asyncio event loop, so an action is the code     *)
(* between two awaits.  Actors: connect attempts (tasks inside connect(),  *)
(* reconnect_once() or reconnect()), callers of close(), keep-alive and    *)
(* PIR-poll tasks, and the radio.                                          *)
(*                                                                         *)
(* Two integer counters of the code are only ever compared for "has it     *)
(* moved since I looked": _closes (a close() ran) and _link_gen (the       *)
(* driver detached).  They are modelled by the answer to that question, a  *)
(* flag of the task that looked: att[a].closed and loop[t].cut.            *)
(***************************************************************************)
CONSTANTS
  Attempts,  \* tasks that call connect() / reconnect_once() / reconnect()
  Closers,   \* tasks that call close()
  KLoops,    \* identities for keep-alive tasks
  PLoops,    \* identities for PIR-poll tasks
  Links,     \* identities for BLE client objects
  None

ASSUME DistinctTasks == /\ KLoops \cap PLoops = {}
                        /\ None \notin KLoops \cup PLoops \cup Links \cup Attempts

VARIABLES
  state,     \* DeviceSession.state
  lock,      \* holder of _connect_lock
  att,       \* the connect attempts
  closer,    \* the close() calls
  kaTask,    \* DeviceSession._keepalive_task
  pirTask,   \* DeviceSession._pir_task
  loop,      \* the keep-alive and PIR-poll tasks themselves
  client,    \* MS605._client
  up,        \* links the radio holds
  asked,     \* links of `up` whose client.disconnect() has been called
  gone       \* dropped links whose disconnected_callback has not run yet

vars == <<state, lock, att, closer, kaTask, pirTask, loop, client, up, asked, gone>>
radio == <<up, asked, gone>>
tasks == <<kaTask, pirTask, loop>>

Loops == KLoops \cup PLoops

\* Where an attempt can be suspended.  `Locked`: inside `async with _connect_lock`.
Locked == {"stale", "open", "abort", "undo"}
Trying == {"scan", "wait"} \cup Locked

Attempt == [pc : Trying \cup {"idle", "pause"},
            prev : {"DISCONNECTED", "LOST"},  \* `previous` in _establish()
            closed : BOOLEAN,                 \* closes != self._closes
            retry : BOOLEAN,                  \* inside reconnect(), which tries again
            link : Links \cup {None}]         \* the client object being opened

Loop == [pc : {"none", "sleep", "io", "stall"},
         cut : BOOLEAN,      \* the driver detached since this request began
         cancel : BOOLEAN]   \* Task.cancel() was called

Closer == [pc : {"idle", "disc", "join"}, joins : SUBSET Loops]

TypeOK ==
  /\ state \in {"DISCONNECTED", "CONNECTING", "CONNECTED", "LOST"}
  /\ lock \in Attempts \cup {None}
  /\ att \in [Attempts -> Attempt]
  /\ closer \in [Closers -> Closer]
  /\ kaTask \in KLoops \cup {None}
  /\ pirTask \in PLoops \cup {None}
  /\ loop \in [Loops -> Loop]
  /\ client \in Links \cup {None}
  /\ up \in SUBSET Links
  /\ asked \in SUBSET Links
  /\ gone \in SUBSET Links

Idle == [pc |-> "idle", prev |-> "DISCONNECTED", closed |-> FALSE,
         retry |-> FALSE, link |-> None]
Ended == [pc |-> "none", cut |-> FALSE, cancel |-> FALSE]
Asleep == [pc |-> "sleep", cut |-> FALSE, cancel |-> FALSE]

Init ==
  /\ state = "DISCONNECTED"
  /\ lock = None
  /\ att = [a \in Attempts |-> Idle]
  /\ closer = [c \in Closers |-> [pc |-> "idle", joins |-> {}]]
  /\ kaTask = None /\ pirTask = None
  /\ loop = [t \in Loops |-> Ended]
  /\ client = None
  /\ up = {} /\ asked = {} /\ gone = {}

-----------------------------------------------------------------------------
(* What several handlers share *)

\* MS605.is_connected
IsConnected == client \in up

\* MS605._detach(): every request in flight fails; its caller sees it when it next runs.
Cut(f) == [t \in Loops |-> IF f[t].pc = "io" THEN [f[t] EXCEPT !.cut = TRUE] ELSE f[t]]

Cancel(f, ts) == [t \in Loops |-> IF t \in ts THEN [f[t] EXCEPT !.cancel = TRUE] ELSE f[t]]

\* _detach() followed by client.disconnect() on what it returned.
DropClient == /\ client' = None
              /\ asked' = asked \cup ({client} \cap up)
              /\ UNCHANGED <<up, gone>>

\* Mutant of Lose: without the early return unless CONNECTED.
LoseAlways(f, me) ==
  /\ state' = "LOST"
  /\ kaTask' = None
  /\ pirTask' = None
  /\ loop' = Cancel(f, {kaTask, pirTask} \ {me})

\* DeviceSession._lose() run by task `me`; f is what else the step does to the loops.
Lose(f, me) ==
  IF state = "CONNECTED"
  THEN /\ state' = "LOST"
       /\ kaTask' = None
       /\ pirTask' = None
       /\ loop' = Cancel(f, {kaTask, pirTask} \ {me})
  ELSE /\ loop' = f
       /\ UNCHANGED <<state, kaTask, pirTask>>

\* A writer stuck in a stalled write holds the driver's send lock.
SendLockFree == \A t \in Loops : loop[t].pc # "stall"

-----------------------------------------------------------------------------
(* Connect attempts: _establish() and the MS605.reconnect() it awaits *)

\* The synchronous head of _establish(): up to the scan, or up to the lock.
Establish(a, retry) ==
  /\ state \in {"DISCONNECTED", "LOST"}
  /\ state' = "CONNECTING"
  /\ \E pc \in IF retry THEN {"scan"} ELSE {"scan", "wait"} :
       att' = [att EXCEPT ![a] = [pc |-> pc, prev |-> state, closed |-> FALSE,
                                  retry |-> retry, link |-> None]]
  /\ UNCHANGED <<lock, closer, client, tasks, radio>>

\* connect() / reconnect_once()
Connect(a) == att[a].pc = "idle" /\ Establish(a, FALSE)

\* The first round of reconnect(); if it cannot try now it waits (or returns at once).
Reconnect(a) ==
  /\ att[a].pc = "idle"
  /\ \/ Establish(a, TRUE)
     \/ /\ state = "CONNECTING"
        /\ att' = [att EXCEPT ![a] = [Idle EXCEPT !.pc = "pause", !.retry = TRUE]]
        /\ UNCHANGED <<state, lock, closer, client, tasks, radio>>

\* reconnect() wakes from its pause and tries again, unless a close() ran.
Retry(a) == /\ att[a].pc = "pause"
            /\ ~att[a].closed
            /\ Establish(a, TRUE)

\* reconnect() ends between two attempts: connected by someone else, closed, or out of time.
StopRetrying(a) == /\ att[a].pc = "pause"
                   /\ att' = [att EXCEPT ![a] = Idle]
                   /\ UNCHANGED <<state, lock, closer, client, tasks, radio>>

\* The except clauses of _establish(): give the lock back and restore the state, unless a
\* close() has already decided it.  reconnect() may go on to its next pause.
Fails(a) ==
  /\ state' = IF att[a].closed THEN state ELSE att[a].prev
  /\ lock' = IF lock = a THEN None ELSE lock
  /\ \E pc \in IF att[a].retry THEN {"pause", "idle"} ELSE {"idle"} :
       att' = [att EXCEPT ![a] = IF pc = "idle" THEN Idle
                                 ELSE [@ EXCEPT !.pc = pc, !.link = None,
                                                !.prev = "DISCONNECTED"]]

\* The scan returns or fails: either way the attempt goes on to the lock.
ScanDone(a) == /\ att[a].pc = "scan"
               /\ att' = [att EXCEPT ![a].pc = "wait"]
               /\ UNCHANGED <<state, lock, closer, client, tasks, radio>>

\* The task is cancelled while it scans or waits for the lock.
GivesUp(a) == /\ att[a].pc \in {"scan", "wait"}
              /\ Fails(a)
              /\ UNCHANGED <<closer, client, tasks, radio>>

\* Taking the connect lock: a closed attempt leaves at once, a current one resets the driver
\* (MS605.reconnect) and, if that leaves an old client, waits for it to disconnect.
TakeLock(a) ==
  /\ att[a].pc = "wait"
  /\ lock = None
  /\ IF att[a].closed
     THEN Fails(a) /\ UNCHANGED <<closer, client, tasks, radio>>
     ELSE /\ lock' = a
          /\ att' = [att EXCEPT ![a].pc = IF client = None THEN "open" ELSE "stale"]
          /\ DropClient
          /\ loop' = Cut(loop)
          /\ UNCHANGED <<state, closer, kaTask, pirTask>>

\* The old client's disconnect() returned, with or without success.
StaleDone(a) == /\ att[a].pc = "stale"
                /\ att' = [att EXCEPT ![a].pc = "open"]
                /\ UNCHANGED <<state, lock, closer, client, tasks, radio>>

\* client.connect(): the sensor takes one central at a time.
RadioLink(a) ==
  /\ att[a].pc = "open" /\ att[a].link = None
  /\ up = {}
  /\ \E l \in Links \ (gone \cup {client}) :
       /\ att' = [att EXCEPT ![a].link = l]
       /\ up' = {l}
  /\ UNCHANGED <<state, lock, closer, client, tasks, asked, gone>>

\* Mutant of OpenFails: the half-open link is not disconnected.
OpenFailsLeaks(a) ==
  /\ att[a].pc = "open"
  /\ att' = [att EXCEPT ![a].pc = "abort", ![a].link = None]
  /\ UNCHANGED <<state, lock, closer, client, tasks, radio>>

\* connect() or start_notify() fails, or the task is cancelled in it: the half-open link is dropped.
OpenFails(a) ==
  /\ att[a].pc = "open"
  /\ att' = [att EXCEPT ![a].pc = "abort", ![a].link = None]
  /\ asked' = asked \cup ({att[a].link} \cap up)
  /\ UNCHANGED <<state, lock, closer, client, tasks, up, gone>>

\* Its disconnect() returned: the attempt fails.  After a close() this also runs _disconnect(),
\* which finds no client.
AbortDone(a) == /\ att[a].pc = "abort"
                /\ Fails(a)
                /\ UNCHANGED <<closer, client, tasks, radio>>

\* A wait for a disconnect() under the lock is cut short by a cancel.
StopWaiting(a) == /\ att[a].pc = "stale"
                  /\ Fails(a)
                  /\ UNCHANGED <<closer, client, tasks, radio>>

\* Mutant of OpenClosed: the attempt fails but leaves the late link to the driver.
OpenClosedKeepsLink(a) ==
  /\ att[a].pc = "open" /\ att[a].link # None
  /\ att[a].closed
  /\ att' = [att EXCEPT ![a].pc = "undo", ![a].link = None]
  /\ client' = att[a].link
  /\ UNCHANGED <<state, lock, closer, tasks, radio>>

\* MS605.reconnect() returned although a close() ran meanwhile: drop the late link again.
OpenClosed(a) ==
  /\ att[a].pc = "open" /\ att[a].link # None
  /\ att[a].closed
  /\ att' = [att EXCEPT ![a].pc = "undo", ![a].link = None]
  /\ asked' = asked \cup ({att[a].link} \cap up)
  /\ loop' = Cut(loop)
  /\ UNCHANGED <<state, lock, closer, client, kaTask, pirTask, up, gone>>

\* _disconnect() returned, timed out after RELEASE_TIMEOUT_S or was cancelled.
UndoDone(a) == /\ att[a].pc = "undo"
               /\ Fails(a)
               /\ UNCHANGED <<closer, client, tasks, radio>>

\* MS605.reconnect() returned on a link that dropped before `_client` was set.
OpenDead(a) == /\ att[a].pc = "open" /\ att[a].link # None
               /\ ~att[a].closed
               /\ att[a].link \notin up
               /\ client' = att[a].link
               /\ Fails(a)
               /\ UNCHANGED <<closer, tasks, radio>>

\* A task identity nobody runs or waits for.
Free(t) == loop[t].pc = "none" /\ \A c \in Closers : t \notin closer[c].joins

\* The attempt succeeds: CONNECTED, with a keep-alive and a PIR poll of its own.
OpenOk(a) ==
  /\ att[a].pc = "open" /\ att[a].link # None
  /\ ~att[a].closed
  /\ att[a].link \in up
  /\ client' = att[a].link
  /\ state' = "CONNECTED"
  /\ lock' = None
  /\ att' = [att EXCEPT ![a] = Idle]
  /\ \E k \in KLoops, p \in PLoops :
       /\ Free(k) /\ Free(p)
       /\ kaTask' = k
       /\ pirTask' = p
       /\ loop' = [loop EXCEPT ![k] = Asleep, ![p] = Asleep]
  /\ UNCHANGED <<closer, radio>>

-----------------------------------------------------------------------------
(* close() *)

Close(c) ==
  /\ closer[c].pc = "idle"
  /\ kaTask' = None
  /\ pirTask' = None
  /\ att' = [a \in Attempts |-> IF att[a].pc = "idle" THEN att[a]
                                ELSE [att[a] EXCEPT !.closed = TRUE]]
  /\ closer' = [closer EXCEPT ![c] =
       [pc |-> IF state = "DISCONNECTED" \/ client = None THEN "join" ELSE "disc",
        joins |-> {kaTask, pirTask} \ {None}]]
  /\ IF state = "DISCONNECTED"
     THEN /\ loop' = Cancel(loop, {kaTask, pirTask})
          /\ UNCHANGED <<state, client, radio>>
     ELSE /\ state' = "DISCONNECTED"
          /\ loop' = Cut(Cancel(loop, {kaTask, pirTask}))
          /\ DropClient
  /\ UNCHANGED lock

\* client.disconnect() returned, failed, or RELEASE_TIMEOUT_S passed.
CloseDropped(c) == /\ closer[c].pc = "disc"
                   /\ closer' = [closer EXCEPT ![c].pc = "join"]
                   /\ UNCHANGED <<state, lock, att, client, tasks, radio>>

\* The tasks close() took over have ended.
CloseReturns(c) ==
  /\ closer[c].pc = "join"
  /\ \A t \in closer[c].joins : loop[t].pc = "none"
  /\ closer' = [closer EXCEPT ![c] = [pc |-> "idle", joins |-> {}]]
  /\ UNCHANGED <<state, lock, att, client, tasks, radio>>

-----------------------------------------------------------------------------
(* Keep-alive and PIR-poll tasks *)

Request == [pc |-> "io", cut |-> client = None, cancel |-> FALSE]

\* The interval is over: ping.
PingDue(k) == /\ loop[k].pc = "sleep" /\ ~loop[k].cancel
              /\ loop' = [loop EXCEPT ![k] = Request]
              /\ UNCHANGED <<state, lock, att, closer, kaTask, pirTask, client, radio>>

\* Answered (well or with an error status), or unanswered with the link still up.
PingMissedOrAnswered(k) ==
  /\ loop[k].pc = "io" /\ ~loop[k].cut /\ ~loop[k].cancel
  /\ SendLockFree
  /\ IsConnected
  /\ loop' = [loop EXCEPT ![k] = Asleep]
  /\ UNCHANGED <<state, lock, att, closer, kaTask, pirTask, client, radio>>

\* Any other outcome: the loop forgets _keepalive_task, whoever that is by now, and ends.
GivesLinkUp(k) ==
  /\ kaTask' = None
  /\ loop' = [IF state = "CONNECTED" THEN Cancel(loop, {pirTask}) ELSE loop EXCEPT ![k] = Ended]
  /\ IF state = "CONNECTED" THEN state' = "LOST" /\ pirTask' = None
                            ELSE UNCHANGED <<state, pirTask>>

\* The link was detached under the ping, the write failed, or no answer came and it is down.
PingFails(k) == /\ loop[k].pc = "io" /\ ~loop[k].cancel
                /\ GivesLinkUp(k)
                /\ UNCHANGED <<lock, att, closer, client, radio>>

\* A write of task t does not finish in time: _write_frame() abandons the link, tells the
\* session, and waits (5 s at most, holding the send lock) for the old client to disconnect.
Stall(t) ==
  /\ loop[t].pc = "io" /\ ~loop[t].cut
  /\ client # None
  /\ SendLockFree
  /\ Lose(Cut([loop EXCEPT ![t].pc = "stall"]), t)
  /\ DropClient
  /\ UNCHANGED <<lock, att, closer>>

\* The ping's TimeoutError: a miss if the driver is connected by now, else the link is given up.
PingStallEnds(k) ==
  /\ loop[k].pc = "stall" /\ ~loop[k].cancel
  /\ IF IsConnected
     THEN /\ loop' = [loop EXCEPT ![k] = Asleep]
          /\ UNCHANGED <<state, kaTask, pirTask>>
     ELSE GivesLinkUp(k)
  /\ UNCHANGED <<lock, att, closer, client, radio>>

\* The poll's interval is over: it ends if it no longer owns a connected session.
PollDue(p) ==
  /\ loop[p].pc = "sleep" /\ ~loop[p].cancel
  /\ loop' = [loop EXCEPT ![p] = IF pirTask # p \/ state # "CONNECTED" THEN Ended ELSE Request]
  /\ UNCHANGED <<state, lock, att, closer, kaTask, pirTask, client, radio>>

\* Its read ends, whatever the outcome.
PollDone(p) == /\ loop[p].pc \in {"io", "stall"} /\ ~loop[p].cancel
               /\ loop' = [loop EXCEPT ![p] = Asleep]
               /\ UNCHANGED <<state, lock, att, closer, kaTask, pirTask, client, radio>>

\* CancelledError reaches the task.
CancelLands(t) == /\ loop[t].pc # "none" /\ loop[t].cancel
                  /\ loop' = [loop EXCEPT ![t] = Ended]
                  /\ UNCHANGED <<state, lock, att, closer, kaTask, pirTask, client, radio>>

-----------------------------------------------------------------------------
(* The radio, and requests of tasks that are not the session's own *)

\* A write of an operation, or of tag54, stalls.
OtherStall == /\ client # None
              /\ SendLockFree
              /\ Lose(Cut(loop), None)
              /\ DropClient
              /\ UNCHANGED <<lock, att, closer>>

\* A link goes down: asked to, idle for 30 s, out of range, power.
LinkDown(l) == /\ l \in up
               /\ up' = up \ {l}
               /\ asked' = asked \ {l}
               /\ gone' = IF l \in asked THEN gone ELSE gone \cup {l}
               /\ UNCHANGED <<state, lock, att, closer, client, tasks>>

\* MS605._on_disconnected(): only the current client's drop counts.
OnDisconnected(l) ==
  /\ l \in gone
  /\ gone' = gone \ {l}
  /\ IF l = client
     THEN Lose(Cut(loop), None) /\ client' = None
     ELSE UNCHANGED <<state, client, tasks>>
  /\ UNCHANGED <<lock, att, closer, up, asked>>

-----------------------------------------------------------------------------
AttemptStep(a) ==
  \/ ScanDone(a) \/ StaleDone(a) \/ OpenFails(a) \/ AbortDone(a)
  \/ OpenClosed(a) \/ UndoDone(a) \/ OpenDead(a) \/ OpenOk(a)

CloserStep(c) == CloseDropped(c) \/ CloseReturns(c)

PingStep(k) == PingDue(k) \/ PingMissedOrAnswered(k) \/ PingFails(k) \/ PingStallEnds(k)

PollStep(p) == PollDue(p) \/ PollDone(p)

Next ==
  \/ \E a \in Attempts :
       \/ AttemptStep(a) \/ TakeLock(a) \/ StopRetrying(a)
       \/ Connect(a) \/ Reconnect(a) \/ Retry(a) \/ RadioLink(a)
       \/ GivesUp(a) \/ StopWaiting(a)
  \/ \E c \in Closers : Close(c) \/ CloserStep(c)
  \/ \E k \in KLoops : PingStep(k)
  \/ \E p \in PLoops : PollStep(p)
  \/ \E t \in Loops : Stall(t) \/ CancelLands(t)
  \/ OtherStall
  \/ \E l \in Links : LinkDown(l) \/ OnDisconnected(l)

Spec == Init /\ [][Next]_vars

(***************************************************************************)
(* Fairness.  Every await of an attempt, a close() or a loop ends: each is *)
(* bounded by a timeout of the code or by the BLE backend.  asyncio.Lock   *)
(* is first come first served and reconnect() has a deadline, so waiting   *)
(* for the lock and retrying are strongly fair.  A link ends once its      *)
(* client was asked to disconnect: the backend does it, or the sensor's    *)
(* own 30 s idle drop, since nothing is written to it any more.            *)
(***************************************************************************)
Fairness ==
  /\ \A a \in Attempts : /\ WF_vars(AttemptStep(a))
                         /\ SF_vars(TakeLock(a))
                         /\ SF_vars(StopRetrying(a))
  /\ \A c \in Closers : WF_vars(CloserStep(c))
  /\ \A k \in KLoops : WF_vars(PingStep(k))
  /\ \A p \in PLoops : WF_vars(PollStep(p))
  /\ \A t \in Loops : WF_vars(CancelLands(t))
  /\ \A l \in Links : /\ WF_vars(l \in asked /\ LinkDown(l))
                      /\ WF_vars(OnDisconnected(l))

FairSpec == Spec /\ Fairness

-----------------------------------------------------------------------------
(* Safety *)

\* The attempt that owns the session: in _establish() with no close() since it began.
Current(a) == att[a].pc \in Trying /\ ~att[a].closed

\* CONNECTING has exactly one attempt behind it, and an attempt overtaken by close() never
\* drives the state again (_establish(): the `closes` checks).
OneOwner ==
  /\ state = "CONNECTING" <=> \E a \in Attempts : Current(a)
  /\ \A a, b \in Attempts : Current(a) /\ Current(b) => a = b

\* While the session says CONNECTED the driver has a client whose link is up, or whose
\* disconnect callback is still on its way (the checks after MS605.reconnect(), and every
\* path that detaches the driver telling the session).
ConnectedHasLink == state = "CONNECTED" => client \in up \cup gone

\* No link outlives its owner: one that is up is the driver's, or is being opened by the lock
\* holder, or has been told to disconnect (the sensor takes one central at a time, so a link
\* nobody owns would refuse every later connect).
NoOrphanLink == up \subseteq asked \cup {client} \cup
                            {att[a].link : a \in {b \in Attempts : lock = b}}

\* A connected session always has a keep-alive that still runs, and one that is not connected
\* has none it counts on (_lose(), close() and the loop's own exit).
KeptAliveWhileConnected ==
  /\ state = "CONNECTED" <=> kaTask # None
  /\ kaTask # None => loop[kaTask].pc \in {"sleep", "io"} /\ ~loop[kaTask].cancel

\* At most one keep-alive task pings (docs/CORE_API.md 4.2: going LOST stops the keep-alive,
\* CONNECTED starts one).  The code breaks this: see README.md.
OneKeepAlive ==
  \A j, k \in KLoops :
    (\A t \in {j, k} : loop[t].pc \in {"sleep", "io"} /\ ~loop[t].cancel) => j = k

-----------------------------------------------------------------------------
(* Refinement *)

BackState == IF state # "CONNECTING" THEN state
             ELSE att[CHOOSE a \in Attempts : Current(a)].prev

Link == INSTANCE LinkState WITH link <- state, back <- BackState

\* Readers of session.state see the abstract machine: a failed connect restores the state it
\* started from, only a CONNECTED session is LOST, and close() alone leads to DISCONNECTED.
ImplementsLink == Link!LinkSpec

-----------------------------------------------------------------------------
(* Liveness *)

\* Every connect attempt ends, also when others and close() interleave with it.
AttemptsEnd == \A a \in Attempts : att[a].pc # "idle" ~> att[a].pc = "idle"

\* A session that stays closed comes to rest: no link, no task, even if a connect was in flight
\* when close() ran.
ReleaseSettles ==
  <>[](state = "DISCONNECTED") => <>[](up = {} /\ \A t \in Loops : loop[t].pc = "none")
=============================================================================
