------------------------------- MODULE Fleet -------------------------------
(***************************************************************************)
(* The sessions of one program run (src/ms605/fleet.py): gathering and     *)
(* automatic recovery, which start connect tasks, and stop_gather(),       *)
(* release() and aclose(), which end them.                                 *)
(*                                                                         *)
(* A session is what LinkState.tla promises of it, plus the sensor its     *)
(* link reaches.  A sensor takes one link; it may come back at any address *)
(* at any time, one that another sensor used before included, so a scan    *)
(* can show any address and a connect there can reach any idle sensor.     *)
(***************************************************************************)
EXTENDS Naturals, FiniteSets

CONSTANTS
  Ids,       \* device ids, one per sensor
  Addresses, \* host addresses of advertising sensors
  Sessions,  \* identities for DeviceSession objects
  Tries,     \* identities for connect tasks
  Ops,       \* callers of stop_gather(), release() and aclose()
  None

ASSUME FleetAssumption == None \notin Ids \cup Addresses \cup Sessions \cup Tries

VARIABLES
  obj,       \* the session objects
  sess,      \* Fleet._sessions
  rem,       \* the remembered connections of this host, by device id
  try,       \* the connect tasks
  conn,      \* Fleet._connecting, by address
  gather,    \* the gather loop runs
  recovery,  \* the recovery loop runs
  op         \* the calls under way

vars == <<obj, sess, rem, try, conn, gather, recovery, op>>

Session == [link : {"DISCONNECTED", "CONNECTING", "CONNECTED", "LOST"},
            back : {"DISCONNECTED", "CONNECTED", "LOST"},  \* as in LinkState
            id : Ids \cup {None},                          \* device_id, once read
            addr : Addresses \cup {None},
            peer : Ids \cup {None},                        \* the sensor its link reaches
            read : {"no", "yes", "failed"}]                \* did that sensor say who it is

Try == [pc : {"free", "start", "link", "info", "close"},
        key : Addresses \cup {None},
        s : Sessions \cup {None},
        fresh : BOOLEAN,                             \* Fleet.connect(), else _regather()
        src : {"gather", "recovery"},
        cancel : {"no", "stop", "release", "aclose"}, \* by which call
        shut : BOOLEAN]                              \* what it awaits on its link will fail

Op == [pc : {"idle", "recovery", "pending", "stopped", "freed", "closing"},
       kind : {"stop", "release", "aclose"}, all : BOOLEAN,
       keys : SUBSET Addresses, waits : SUBSET Tries,
       mine : SUBSET Sessions, marked : SUBSET Sessions, todo : SUBSET Sessions]

TypeOK == /\ obj \in [Sessions -> Session]
          /\ sess \in [Ids -> Sessions \cup {None}]
          /\ rem \in [Ids -> Addresses \cup {None}]
          /\ try \in [Tries -> Try]
          /\ conn \in [Addresses -> Tries \cup {None}]
          /\ gather \in BOOLEAN /\ recovery \in BOOLEAN
          /\ op \in [Ops -> Op]

Blank == [link |-> "DISCONNECTED", back |-> "DISCONNECTED", id |-> None, addr |-> None,
          peer |-> None, read |-> "no"]
Free == [pc |-> "free", key |-> None, s |-> None, fresh |-> TRUE, src |-> "gather",
         cancel |-> "no", shut |-> FALSE]
Idle == [pc |-> "idle", kind |-> "stop", all |-> FALSE, keys |-> {},
         waits |-> {}, mine |-> {}, marked |-> {}, todo |-> {}]

\* start_recovery() ran: a session for every remembered sensor of this host.
Init ==
  /\ rem \in [Ids -> Addresses \cup {None}]
  /\ sess \in [Ids -> Sessions \cup {None}]
  /\ \A i, j \in Ids : /\ sess[i] = None <=> rem[i] = None
                       /\ sess[i] = sess[j] /\ sess[i] # None => i = j
  /\ obj = [s \in Sessions |->
              IF \E i \in Ids : sess[i] = s
              THEN LET i == CHOOSE i \in Ids : sess[i] = s
                   IN [Blank EXCEPT !.id = i, !.addr = rem[i]]
              ELSE Blank]
  /\ try = [t \in Tries |-> Free]
  /\ conn = [a \in Addresses |-> None]
  /\ gather = FALSE /\ recovery = TRUE
  /\ op = [p \in Ops |-> Idle]

-----------------------------------------------------------------------------
(* What several handlers share *)

Live(s) == obj[s].link \in {"CONNECTED", "CONNECTING"}

Known == {sess[i] : i \in Ids} \ {None}

\* Inside connect(), not yet in _sessions.
Unidentified == {try[t].s : t \in {u \in Tries : try[u].fresh /\ try[u].pc # "start"}} \ {None}

Releasing == UNION {op[p].marked : p \in Ops}

\* The session a task is about; None for one that will make its own.
Targets == {try[conn[a]].s : a \in {b \in Addresses : conn[b] # None}} \ {None}

\* Whatever runs on the link of s fails.
Shut(f, s) == [t \in Tries |-> IF f[t].s = s /\ f[t].pc \in {"link", "info"}
                               THEN [f[t] EXCEPT !.shut = TRUE] ELSE f[t]]

\* DeviceSession.close(), up to its first await.
Dropped(o) == [o EXCEPT !.link = "DISCONNECTED", !.back = "DISCONNECTED", !.peer = None,
                        !.read = "no"]

\* Task t is over: its key is free again, and whoever waits for it goes on.
Ends(t) ==
  /\ conn' = [a \in Addresses |-> IF conn[a] = t THEN None ELSE conn[a]]
  /\ op' = [p \in Ops |-> [op[p] EXCEPT !.waits = @ \ {t}]]

TasksAt(keys) == {conn[a] : a \in keys \cap Addresses} \ {None}

\* _cancel_connects(): forgets the tasks under these keys and cancels them.
CancelConnects(keys, why) ==
  /\ conn' = [a \in Addresses |-> IF a \in keys THEN None ELSE conn[a]]
  /\ try' = [t \in Tries |-> IF t \in TasksAt(keys) /\ try[t].cancel = "no"
                             THEN [try[t] EXCEPT !.cancel = why] ELSE try[t]]

From(src) == {a \in Addresses : conn[a] # None /\ try[conn[a]].src = src}

-----------------------------------------------------------------------------
(* Gathering and recovery *)

StartGather == /\ recovery   \* the program is not being closed
               /\ ~gather
               /\ gather' = TRUE
               /\ UNCHANGED <<obj, sess, rem, try, conn, recovery, op>>

Spawn(a, s, src, fresh) ==
  \E t \in Tries :
    /\ try[t].pc = "free"
    /\ try' = [try EXCEPT ![t] = [Free EXCEPT !.pc = "start", !.key = a, !.s = s,
                                              !.fresh = fresh, !.src = src]]
    /\ conn' = [conn EXCEPT ![a] = t]

\* A new DeviceSession object.
Unused(s) == /\ s \notin Known \cup {try[t].s : t \in Tries}
             /\ \A p \in Ops : s \notin op[p].mine \cup op[p].todo
             /\ obj[s].link = "DISCONNECTED"

\* Mutant of GatherSees: sessions that release() is closing are not left alone.
GatherSeesReleasing(a) ==
  /\ gather
  /\ conn[a] = None
  /\ \E s \in Known : obj[s].addr = a /\ ~Live(s) /\ Spawn(a, s, "gather", FALSE)
  /\ UNCHANGED <<obj, sess, rem, gather, recovery, op>>

\* One device of a gather scan, which the caller's filter lets through.
GatherSees(a) ==
  /\ gather
  /\ conn[a] = None
  /\ \A s \in Releasing : obj[s].addr # a
  /\ LET here == {s \in Known : obj[s].addr = a} IN
     \E s \in Sessions :
       \/ here = {} /\ Unused(s) /\ Spawn(a, s, "gather", TRUE)
       \/ s \in here /\ ~Live(s) /\ Spawn(a, s, "gather", FALSE)
  /\ UNCHANGED <<obj, sess, rem, gather, recovery, op>>

\* One device of a recovery scan: a remembered sensor, known by its MAC or its address.
RecoverySees(a) ==
  /\ recovery /\ ~gather
  /\ conn[a] = None
  /\ \E i \in Ids :
       /\ rem[i] # None /\ sess[i] # None
       /\ ~Live(sess[i])
       /\ sess[i] \notin Releasing \cup Targets
       /\ Spawn(a, sess[i], "recovery", FALSE)
  /\ UNCHANGED <<obj, sess, rem, gather, recovery, op>>

-----------------------------------------------------------------------------
(* A connect task *)

\* It starts: its session connects, unless another task was quicker.
Begins(t) ==
  /\ try[t].pc = "start" /\ try[t].cancel = "no"
  /\ IF Live(try[t].s)
     THEN /\ try' = [try EXCEPT ![t] = Free]
          /\ Ends(t)
          /\ UNCHANGED obj
     ELSE /\ obj' = [obj EXCEPT ![try[t].s] = IF try[t].fresh
                       THEN [Blank EXCEPT !.link = "CONNECTING", !.addr = try[t].key]
                       ELSE [@ EXCEPT !.link = "CONNECTING"]]
          /\ try' = [try EXCEPT ![t].pc = "link"]
          /\ UNCHANGED <<conn, op>>
  /\ UNCHANGED <<sess, rem, gather, recovery>>

\* Cancelled before it ran.
NeverBegins(t) == /\ try[t].pc = "start" /\ try[t].cancel # "no"
                  /\ try' = [try EXCEPT ![t] = Free]
                  /\ Ends(t)
                  /\ UNCHANGED <<obj, sess, rem, gather, recovery>>

\* Whichever sensor advertises there now takes the connection.
LinkUp(t) ==
  /\ try[t].pc = "link" /\ try[t].cancel = "no" /\ ~try[t].shut
  /\ \E i \in Ids :
       /\ \A s \in Sessions : obj[s].peer # i
       /\ obj' = [obj EXCEPT ![try[t].s] = [@ EXCEPT !.link = "CONNECTED", !.back = "CONNECTED",
                                                     !.peer = i, !.read = "no"]]
  /\ try' = [try EXCEPT ![t].pc = "info"]
  /\ UNCHANGED <<sess, rem, conn, gather, recovery, op>>

\* Connecting fails or is cancelled: the session is where it was, and a new one is dropped.
LinkFails(t) ==
  /\ try[t].pc = "link"
  /\ obj' = [obj EXCEPT ![try[t].s] = IF try[t].fresh THEN Blank
                                      ELSE IF try[t].shut THEN @
                                      ELSE [@ EXCEPT !.link = obj[try[t].s].back]]
  /\ try' = [try EXCEPT ![t] = Free]
  /\ Ends(t)
  /\ UNCHANGED <<sess, rem, gather, recovery>>

\* The task closes the session it connected, and waits for that.
Closes(t) ==
  /\ obj' = [obj EXCEPT ![try[t].s] = Dropped(@)]
  /\ try' = [Shut(try, try[t].s) EXCEPT ![t].pc = "close", ![t].shut = FALSE]
  /\ UNCHANGED <<sess, rem, conn, gather, recovery, op>>

CloseReturns(t) ==
  /\ try[t].pc = "close"
  /\ obj' = IF try[t].fresh THEN [obj EXCEPT ![try[t].s] = Blank] ELSE obj
  /\ try' = [try EXCEPT ![t] = Free]
  /\ Ends(t)
  /\ UNCHANGED <<sess, rem, gather, recovery>>

Reads(t) == try[t].pc = "info" /\ try[t].cancel = "no" /\ ~try[t].shut

\* A session that may take over its sensor's id.
Vacant(i) == sess[i] # None => ~Live(sess[i]) /\ sess[i] \notin Releasing

\* connect(): identified.  The session is stored, and the one it replaces is closed.
Identified(t) ==
  LET s == try[t].s  i == obj[s].peer  old == sess[i] IN
  /\ Reads(t) /\ try[t].fresh
  /\ Vacant(i)
  /\ sess' = [sess EXCEPT ![i] = s]
  /\ rem' = [rem EXCEPT ![i] = obj[s].addr]
  /\ obj' = [o \in Sessions |-> IF o = s THEN [obj[s] EXCEPT !.id = i, !.read = "yes"]
                                ELSE IF o = old THEN Blank ELSE obj[o]]
  /\ try' = [Shut(try, old) EXCEPT ![t] = Free]
  /\ Ends(t)
  /\ UNCHANGED <<gather, recovery>>

\* Mutant of Refused: the duplicate's link is left open.
RefusedOpen(t) ==
  /\ Reads(t) /\ try[t].fresh /\ ~Vacant(obj[try[t].s].peer)
  /\ obj' = [obj EXCEPT ![try[t].s].read = "yes"]
  /\ try' = [try EXCEPT ![t] = Free]
  /\ Ends(t)
  /\ UNCHANGED <<sess, rem, gather, recovery>>

\* connect(): its id is taken, or cannot be remembered.
Refused(t) ==
  LET i == obj[try[t].s].peer IN
  /\ Reads(t) /\ try[t].fresh
  /\ Vacant(i) => rem[i] # obj[try[t].s].addr
  /\ Closes(t)

\* Mutant of Back: whoever answers there is taken for the sensor.
BackAnyone(t) ==
  LET s == try[t].s IN
  /\ Reads(t) /\ ~try[t].fresh
  /\ obj' = [obj EXCEPT ![s].addr = try[t].key, ![s].read = "yes"]
  /\ rem' = [rem EXCEPT ![obj[s].id] = try[t].key]
  /\ try' = [try EXCEPT ![t] = Free]
  /\ Ends(t)
  /\ UNCHANGED <<sess, gather, recovery>>

\* _regather(): the sensor this session was made for answers.
Back(t) ==
  LET s == try[t].s  i == obj[s].peer IN
  /\ Reads(t) /\ ~try[t].fresh /\ obj[s].id = i
  /\ obj' = [obj EXCEPT ![s].addr = try[t].key, ![s].read = "yes"]
  /\ rem' = [rem EXCEPT ![i] = try[t].key]
  /\ try' = [try EXCEPT ![t] = Free]
  /\ Ends(t)
  /\ UNCHANGED <<sess, gather, recovery>>

\* _regather(): another sensor answers there, or the address cannot be remembered.
NotBack(t) ==
  LET s == try[t].s  i == obj[s].peer IN
  /\ Reads(t) /\ ~try[t].fresh
  /\ obj[s].id = i => rem[i] # try[t].key
  /\ Closes(t)

\* The read fails: connect() closes its link, _regather() leaves it up unless cancelled.
InfoFails(t) ==
  /\ try[t].pc = "info"
  /\ IF try[t].fresh \/ try[t].cancel # "no" THEN Closes(t)
     ELSE /\ obj' = IF try[t].shut THEN obj ELSE [obj EXCEPT ![try[t].s].read = "failed"]
          /\ try' = [try EXCEPT ![t] = Free]
          /\ Ends(t)
          /\ UNCHANGED <<sess, rem, gather, recovery>>

TryStep(t) == \/ Begins(t) \/ NeverBegins(t) \/ LinkUp(t) \/ LinkFails(t) \/ Identified(t)
              \/ Refused(t) \/ Back(t) \/ NotBack(t) \/ InfoFails(t) \/ CloseReturns(t)

-----------------------------------------------------------------------------
(* stop_gather(), release(), aclose().  A loop that is cancelled starts    *)
(* nothing more, so cancelling it and waiting for it is one step.          *)

\* Mutant of EndsGather: only the tasks that bring a known session back are ended.
EndsGatherKnown(p, kind, finish) ==
  LET keys == {a \in From("gather") : ~try[conn[a]].fresh} IN
  /\ gather' = FALSE
  /\ op' = [op EXCEPT ![p] = [Idle EXCEPT !.pc = "stopped", !.kind = kind, !.keys = keys,
                                          !.waits = TasksAt(keys)]]
  /\ CancelConnects(keys, "stop")

\* The calls that end gathering: cancel its tasks, or wait for them first.
EndsGather(p, kind, finish) ==
  LET keys == From("gather") IN
  /\ gather' = FALSE
  /\ op' = [op EXCEPT ![p] = [Idle EXCEPT !.pc = IF finish THEN "pending" ELSE "stopped",
                                          !.kind = kind, !.keys = keys, !.waits = TasksAt(keys)]]
  /\ IF finish THEN UNCHANGED <<try, conn>> ELSE CancelConnects(keys, "stop")

StopGather(p, finish) == /\ op[p].pc = "idle"
                         /\ EndsGather(p, "stop", finish)
                         /\ UNCHANGED <<obj, sess, rem, recovery>>

\* finish_pending: what is under those keys by now is cancelled.
PendingDone(p) ==
  /\ op[p].pc = "pending" /\ op[p].waits = {}
  /\ CancelConnects(op[p].keys, "stop")
  /\ op' = [op EXCEPT ![p].pc = "stopped", ![p].waits = TasksAt(op[p].keys)]
  /\ UNCHANGED <<obj, sess, rem, gather, recovery>>

Stopped(p) == /\ op[p].pc = "stopped" /\ op[p].waits = {} /\ op[p].kind = "stop"
              /\ op' = [op EXCEPT ![p] = Idle]
              /\ UNCHANGED <<obj, sess, rem, try, conn, gather, recovery>>

\* _release(): marks the sessions and cancels what is connecting them.
Releases(p, ids, all, kind) ==
  LET mine == {sess[i] : i \in ids}
      keys == IF all THEN {a \in Addresses : conn[a] # None}
              ELSE {a \in Addresses : conn[a] # None /\ try[conn[a]].s \in mine}
                   \cup {obj[s].addr : s \in mine}
  IN /\ CancelConnects(keys, kind)
     /\ op' = [op EXCEPT ![p] = [Idle EXCEPT !.pc = "freed", !.kind = kind, !.all = all,
                                             !.waits = TasksAt(keys), !.mine = mine,
                                             !.marked = mine \ Releasing]]

Release(p, ids, all) ==
  /\ op[p].pc = "idle"
  /\ \A i \in ids : sess[i] # None
  /\ rem' = [i \in Ids |-> IF i \in ids THEN None ELSE rem[i]]
  /\ Releases(p, ids, all, "release")
  /\ UNCHANGED <<obj, sess, gather, recovery>>

\* Nothing connects them any more: close them, and with them what has no id yet.
Freed(p) ==
  /\ op[p].pc = "freed" /\ op[p].waits = {}
  /\ op' = [op EXCEPT ![p].pc = "closing",
                      ![p].todo = op[p].mine \cup IF op[p].all THEN Unidentified ELSE {}]
  /\ UNCHANGED <<obj, sess, rem, try, conn, gather, recovery>>

CloseOne(p, s) ==
  /\ op[p].pc = "closing" /\ s \in op[p].todo
  /\ obj' = [obj EXCEPT ![s] = Dropped(@)]
  /\ try' = Shut(try, s)
  /\ op' = [op EXCEPT ![p].todo = @ \ {s}]
  /\ UNCHANGED <<sess, rem, conn, gather, recovery>>

Released(p) ==
  /\ op[p].pc = "closing" /\ op[p].todo = {}
  /\ sess' = [i \in Ids |-> IF sess[i] \in op[p].mine THEN None ELSE sess[i]]
  /\ obj' = [s \in Sessions |-> IF s \in op[p].mine THEN [obj[s] EXCEPT !.addr = None] ELSE obj[s]]
  /\ op' = [op EXCEPT ![p] = Idle]
  /\ UNCHANGED <<rem, try, conn, gather, recovery>>

\* aclose(): stop_recovery(), stop_gather(), then release everything but forget nothing.
Aclose(p) ==
  /\ op[p].pc = "idle" /\ recovery
  /\ recovery' = FALSE
  /\ CancelConnects(From("recovery"), "aclose")
  /\ op' = [op EXCEPT ![p] = [Idle EXCEPT !.pc = "recovery", !.kind = "aclose",
                                          !.waits = TasksAt(From("recovery"))]]
  /\ UNCHANGED <<obj, sess, rem, gather>>

AcloseStops(p) == /\ op[p].pc = "recovery" /\ op[p].waits = {}
                  /\ EndsGather(p, "aclose", FALSE)
                  /\ UNCHANGED <<obj, sess, rem, recovery>>

AcloseReleases(p) ==
  /\ op[p].pc = "stopped" /\ op[p].waits = {} /\ op[p].kind = "aclose"
  /\ Releases(p, {i \in Ids : sess[i] # None}, TRUE, "aclose")
  /\ UNCHANGED <<obj, sess, rem, gather, recovery>>

OpStep(p) == \/ PendingDone(p) \/ Stopped(p) \/ Freed(p) \/ Released(p)
             \/ AcloseStops(p) \/ AcloseReleases(p)
             \/ \E s \in Sessions : CloseOne(p, s)

OpStarts(p) == \/ \E finish \in BOOLEAN : StopGather(p, finish)
               \/ \E ids \in (SUBSET Ids) \ {{}} : Release(p, ids, FALSE)
               \/ Release(p, {i \in Ids : sess[i] # None}, TRUE)
               \/ Aclose(p)

-----------------------------------------------------------------------------
(* Outside the fleet *)

\* The session notices that its link is gone.
Loses(s) == /\ obj[s].link = "CONNECTED"
            /\ obj' = [obj EXCEPT ![s] = [Dropped(@) EXCEPT !.link = "LOST", !.back = "LOST"]]
            /\ try' = Shut(try, s)
            /\ UNCHANGED <<sess, rem, conn, gather, recovery, op>>

\* A calibration that is cancelled drops the link of its session.
CloseElsewhere(s) == /\ s \in Known /\ obj[s].link = "CONNECTED"
                     /\ obj' = [obj EXCEPT ![s] = Dropped(@)]
                     /\ try' = Shut(try, s)
                     /\ UNCHANGED <<sess, rem, conn, gather, recovery, op>>

Next == \/ StartGather
        \/ \E a \in Addresses : GatherSees(a) \/ RecoverySees(a)
        \/ \E t \in Tries : TryStep(t)
        \/ \E p \in Ops : OpStarts(p) \/ OpStep(p)
        \/ \E s \in Sessions : Loses(s) \/ CloseElsewhere(s)

Spec == Init /\ [][Next]_vars

-----------------------------------------------------------------------------
(* Properties *)

\* A link is somebody's: its session is registered, or a task still works on it, or its sensor
\* never answered who it is.  (fleet.py:153 closes the session that another one replaces while
\* a scan may have asked for its return.)
NoStrayLink ==
  \A s \in Sessions : obj[s].link = "CONNECTED" =>
    \/ s \in Known
    \/ \E t \in Tries : try[t].s = s
    \/ obj[s].read = "failed"

\* A session never reaches another sensor than the one it is registered for, whatever addresses
\* the sensors take over from each other.
SameSensor == \A i \in Ids : sess[i] # None /\ obj[sess[i]].read = "yes" => obj[sess[i]].peer = i

\* "No gather-started link appears after this returns": once no stop_gather() is under way and
\* the loop is off, every task it left behind has been cancelled.
StopIsFinal ==
  ~gather /\ (\A p \in Ops : op[p].pc \notin {"pending", "stopped"}) =>
    \A t \in Tries : try[t].pc # "free" /\ try[t].src = "gather" => try[t].cancel # "no"

\* What release() has closed stays closed until it has forgotten it.
StaysReleased ==
  \A p \in Ops : op[p].pc = "closing" => \A s \in op[p].mine \ op[p].todo : ~Live(s)

\* While the program runs, the remembered sensors are those it has a session for.
RemembersWhatItHas ==
  recovery => \A i \in Ids : /\ rem[i] # None => sess[i] # None
                             /\ sess[i] \notin Releasing /\ sess[i] # None => rem[i] # None

\* After aclose() no session is left and nothing connects.
ClosedForGood ==
  ~recovery /\ (\A p \in Ops : op[p].pc = "idle") =>
    Known = {} /\ \A t \in Tries : try[t].pc # "free" => try[t].cancel # "no"

\* Every session keeps to LinkState.tla.
L(s) == INSTANCE LinkState WITH link <- obj[s].link, back <- obj[s].back
SessionsKeepTheirState ==
  /\ \A s \in Sessions : L(s)!LinkInit
  /\ [][\A s \in Sessions : [L(s)!LinkNext]_(L(s)!lvars)]_vars

\* stop_gather() cancels the tasks of the gather loop and no others.
StopSparesRecovery ==
  [][\A t \in Tries : try'[t].cancel = "stop" /\ try[t].cancel = "no" => try[t].src = "gather"]_vars
=============================================================================
