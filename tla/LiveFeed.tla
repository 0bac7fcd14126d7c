------------------------------ MODULE LiveFeed ------------------------------
(***************************************************************************)
(* The live monitor feed of one sensor (src/ms605/gui/live.py): who        *)
(* watches it, the one live reference held on its session, and the frames  *)
(* that go to the watchers, at most one per interval.                      *)
(*                                                                         *)
(* The feed keeps everything per sensor, so one sensor shows it all.  Its  *)
(* session is a number: gathering under a new address makes a new session  *)
(* object.  A frame is a number too.  The code is synchronous but for the  *)
(* two awaits of the reconcile task, where the live output is switched.    *)
(***************************************************************************)
EXTENDS Naturals, FiniteSets

CONSTANTS
  Watching,    \* the clients: connections to /ws
  MaxSessions, \* bound on the session objects
  MaxFrames    \* bound on the frames the sensor pushes

ASSUME FeedAssumption == MaxSessions \in Nat /\ MaxFrames \in Nat

VARIABLES
  watchers,  \* LiveFeed.watchers
  held,      \* LiveFeed.held: the session whose reference the feed holds, 0 for none
  task,      \* the reconcile task: [pc, want], pc "none" when there is none
  again,     \* LiveFeed._again
  sess,      \* the sensor's session in the fleet, 0 for none
  refs,      \* DeviceSession._live of every session
  due,       \* calls to come: "event" (SensorGathered), "refresh" (of the release route)
  radar,     \* last_radar of the session, 0 for none
  handle,    \* LiveFeed._handles: an emit is scheduled
  recent,    \* less than LIVE_INTERVAL_S since the last emit
  slot,      \* the frame in each client's slot, 0 for none
  seen,      \* the last frame each client was sent
  owed,      \* ghost: the watchers a frame came for
  made       \* bounds: [sessions, frames] so far

session == <<sess, due, radar>>
reference == <<held, task, again, refs>>
frames == <<handle, recent, slot, seen, owed>>
feedVars == <<watchers, session, reference, frames, made>>

Sessions == 1..MaxSessions
NoTask == [pc |-> "none", want |-> 0]

FeedInit ==
  /\ watchers = {} /\ held = 0 /\ task = NoTask /\ again = FALSE
  /\ sess = 0 /\ refs = [s \in Sessions |-> 0] /\ due = {} /\ radar = 0
  /\ handle = FALSE /\ recent = FALSE
  /\ slot = [c \in Watching |-> 0] /\ seen = [c \in Watching |-> 0] /\ owed = {}
  /\ made = [sessions |-> 0, frames |-> 0]

-----------------------------------------------------------------------------
(* Asking for a reconcile *)

\* Mutant of Reconcile: a running task is trusted to see the change.
ReconcileOnce ==
  /\ task' = IF task.pc = "none" THEN [pc |-> "begin", want |-> 0] ELSE task
  /\ UNCHANGED <<again, held, refs>>

Reconcile ==
  /\ task' = IF task.pc = "none" THEN [pc |-> "begin", want |-> 0] ELSE task
  /\ again' = (again \/ task.pc # "none")
  /\ UNCHANGED <<held, refs>>

\* on_event() and refresh(): only for a sensor that is watched or held.
ReconcileIfConcerned ==
  IF watchers # {} \/ held # 0 THEN Reconcile ELSE UNCHANGED reference

Subscribe(c) ==
  /\ c \notin watchers
  /\ watchers' = watchers \cup {c}
  /\ Reconcile
  /\ UNCHANGED <<session, frames, made>>

\* Mutant of Unsubscribe: the slot keeps its frame.
UnsubscribeKeepsSlot(c) ==
  /\ c \in watchers
  /\ watchers' = watchers \ {c}
  /\ owed' = owed \ {c}
  /\ Reconcile
  /\ UNCHANGED <<session, handle, recent, slot, seen, made>>

\* live_unsubscribe, and drop_client() when the connection ends.
Unsubscribe(c) ==
  /\ c \in watchers
  /\ watchers' = watchers \ {c}
  /\ slot' = [slot EXCEPT ![c] = 0]
  /\ owed' = owed \ {c}
  /\ Reconcile
  /\ UNCHANGED <<session, handle, recent, seen, made>>

-----------------------------------------------------------------------------
(* The session comes and goes *)

\* Fleet.connect() stores a new session; SensorGathered follows once the old one is closed.
NewSession ==
  /\ made.sessions < MaxSessions
  /\ sess' = made.sessions + 1 /\ radar' = 0 /\ due' = due \cup {"event"}
  /\ made' = [made EXCEPT !.sessions = @ + 1]
  /\ UNCHANGED <<watchers, reference, frames>>

\* A new link of the same session: values of an earlier link are not current.
Relinked ==
  /\ sess # 0 /\ radar # 0
  /\ radar' = 0
  /\ ReconcileIfConcerned
  /\ UNCHANGED <<watchers, sess, due, frames, made>>

\* Fleet.release(): its events come while the session is still there; the route calls refresh() after.
Closing ==
  /\ sess # 0 /\ ReconcileIfConcerned
  /\ UNCHANGED <<watchers, session, frames, made>>

Removed ==
  /\ sess # 0
  /\ sess' = 0 /\ radar' = 0 /\ due' = due \cup {"refresh"}
  /\ UNCHANGED <<watchers, reference, frames, made>>

Told(call) ==
  /\ call \in due /\ due' = due \ {call}
  /\ ReconcileIfConcerned
  /\ UNCHANGED <<watchers, sess, radar, frames, made>>

-----------------------------------------------------------------------------
(* _reconcile_one() *)

Take(s) == /\ held' = s
           /\ refs' = [r \in Sessions |-> refs[r] + (IF r = s THEN 1 ELSE 0) - (IF r = held THEN 1 ELSE 0)]

WantedRef == IF watchers = {} THEN 0 ELSE sess

\* The loop's last line: again, or the task is over.
GoRound == task' = IF again THEN [pc |-> "begin", want |-> 0] ELSE NoTask

\* What the session counts changes at once; the switching of the output is awaited, and its
\* failure only logged.
TaskBegins ==
  /\ task.pc = "begin"
  /\ again' = FALSE
  /\ task' = IF held = WantedRef THEN NoTask
             ELSE [pc |-> IF held # 0 THEN "releasing" ELSE "acquiring", want |-> WantedRef]
  /\ IF held = WantedRef THEN UNCHANGED <<held, refs>>
     ELSE Take(IF held # 0 THEN 0 ELSE WantedRef)
  /\ UNCHANGED <<watchers, session, frames, made>>

LetGo ==
  /\ task.pc = "releasing"
  /\ IF task.want # 0 THEN Take(task.want) /\ task' = [task EXCEPT !.pc = "acquiring"]
     ELSE GoRound /\ UNCHANGED <<held, refs>>
  /\ UNCHANGED <<watchers, session, again, frames, made>>

Acquired ==
  /\ task.pc = "acquiring"
  /\ GoRound
  /\ UNCHANGED <<watchers, session, held, refs, again, frames, made>>

-----------------------------------------------------------------------------
(* Frames, throttled *)

\* Mutant of RadarPush: a frame too early is left out.
RadarPushUnlessRecent ==
  /\ sess # 0 /\ made.frames < MaxFrames
  /\ made' = [made EXCEPT !.frames = @ + 1]
  /\ radar' = made.frames + 1
  /\ handle' = (handle \/ (watchers # {} /\ ~recent))
  /\ owed' = owed \cup watchers
  /\ UNCHANGED <<watchers, sess, due, reference, recent, slot, seen>>

RadarPush ==
  /\ sess # 0 /\ made.frames < MaxFrames
  /\ made' = [made EXCEPT !.frames = @ + 1]
  /\ radar' = made.frames + 1
  /\ handle' = (handle \/ watchers # {})
  /\ owed' = owed \cup watchers
  /\ UNCHANGED <<watchers, sess, due, reference, recent, slot, seen>>

Emit ==
  /\ handle /\ ~recent
  /\ handle' = FALSE /\ recent' = TRUE
  /\ slot' = [c \in Watching |-> IF c \in watchers /\ radar # 0 THEN radar ELSE slot[c]]
  /\ UNCHANGED <<watchers, session, reference, seen, owed, made>>

IntervalPasses ==
  /\ recent /\ recent' = FALSE
  /\ UNCHANGED <<watchers, session, reference, handle, slot, seen, owed, made>>

\* Client.run() takes a slot when nothing is queued.
Send(c) ==
  /\ slot[c] # 0
  /\ seen' = [seen EXCEPT ![c] = slot[c]] /\ slot' = [slot EXCEPT ![c] = 0]
  /\ UNCHANGED <<watchers, session, reference, handle, recent, owed, made>>

Task == TaskBegins \/ LetGo \/ Acquired

FeedNext ==
  \/ \E c \in Watching : Subscribe(c) \/ Unsubscribe(c) \/ Send(c)
  \/ NewSession \/ Relinked \/ Closing \/ Removed \/ \E call \in {"event", "refresh"} : Told(call)
  \/ Task \/ RadarPush \/ Emit \/ IntervalPasses

FeedSpec == FeedInit /\ [][FeedNext]_feedVars

-----------------------------------------------------------------------------
(* Properties *)

\* While anyone watches a sensor that has a session, exactly one reference is held, on that session
\* (gui/live.py:34, G12): whoever comes or goes while the task waits, and whatever becomes of the
\* session, none is left behind and none is missing once the task is through.
OneReference ==
  /\ \A s \in Sessions : refs[s] = IF s = held THEN 1 ELSE 0
  /\ task.pc = "none" /\ due = {} => held = WantedRef

\* The frame a burst ends with is shown (G15): when nothing is left to send, a watcher for whom a
\* frame came has the sensor's last one; one who stopped watching is sent nothing more.
LastFrameShown ==
  /\ \A c \in Watching : slot[c] # 0 => c \in watchers
  /\ ~handle /\ radar # 0 => \A c \in owed : seen[c] = radar \/ slot[c] = radar
=============================================================================
