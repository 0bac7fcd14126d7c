---------------------------- MODULE FleetProofs ----------------------------
(***************************************************************************)
(* Proofs about Fleet, for any number of sensors, addresses, sessions,     *)
(* connect tasks and callers at a time.                                    *)
(*                                                                         *)
(* A task that nobody cancelled is found under its key in `conn`, so the   *)
(* calls that end tasks reach every one of them.  A new session is its     *)
(* task's alone until it is registered under the id its sensor gave, and   *)
(* a session that release() works on is registered and marked, or not      *)
(* registered, so that no new task is made for it.  What is remembered and *)
(* what closing leaves need more, of the calls to aclose(): one that has   *)
(* begun still has to end, in its order, what may begin or stay.           *)
(* And the link of every session is shown to keep to LinkState.            *)
(***************************************************************************)
EXTENDS Fleet, TLAPS

Works(t) == try[t].pc # "free"
Untouched(t) == Works(t) /\ try[t].cancel = "no"

TaskOK(t) ==
  /\ Works(t) => try[t].key \in Addresses /\ try[t].s \in Sessions
  /\ Untouched(t) => conn[try[t].key] = t
  /\ try[t].pc = "start" => ~try[t].shut
  /\ try[t].pc = "link" /\ ~try[t].shut => obj[try[t].s].link = "CONNECTING"
  /\ try[t].pc = "info" /\ ~try[t].shut => obj[try[t].s].peer \in Ids
  /\ \A u \in Tries : try[t].pc = "link" /\ try[u].pc = "link" /\ ~try[t].shut /\ ~try[u].shut
                        /\ try[t].s = try[u].s => t = u

TaskInv == \A t \in Tries : TaskOK(t)

Registered(s) == \E i \in Ids : sess[i] = s

\* A new session is its task's alone.
FreshInv ==
  \A t \in Tries : Works(t) /\ try[t].fresh =>
    /\ ~Registered(try[t].s)
    /\ \A p \in Ops : try[t].s \notin op[p].mine
    /\ \A u \in Tries : Works(u) /\ try[u].s = try[t].s => u = t

BackInv == \A s \in Sessions : IF obj[s].link = "CONNECTING" THEN obj[s].back \in {"DISCONNECTED", "LOST"}
                                                             ELSE obj[s].back = obj[s].link

IdInv == \A i \in Ids : sess[i] # None => obj[sess[i]].id = i

\* A gather task that goes on while the loop is off is awaited by a stop that will end it.
StopInv ==
  ~gather => \A t \in Tries : Untouched(t) /\ try[t].src = "gather" =>
    \E p \in Ops : op[p].pc = "pending" /\ try[t].key \in op[p].keys

\* What a release works on.
RelInv ==
  \A p \in Ops :
    /\ op[p].pc \notin {"freed", "closing"} => op[p].mine = {}
    /\ op[p].marked \subseteq op[p].mine
    /\ \A s \in op[p].mine :
         /\ \A t \in Tries : Untouched(t) => try[t].s # s
         /\ Registered(s) => \E q \in Ops : s \in op[q].marked
    /\ op[p].pc = "closing" => \A s \in op[p].mine \ op[p].todo : ~Live(s)

\* A task whose session is not registered any more finds no id there to match.
LeftInv ==
  \A t \in Tries : Untouched(t) /\ ~try[t].fresh =>
    Registered(try[t].s) \/ obj[try[t].s].id = None

\* A link that nobody has registered is being asked who it is, or has failed to say.
StrayInv ==
  \A s \in Sessions : obj[s].link = "CONNECTED" =>
    \/ Registered(s)
    \/ obj[s].read = "failed"
    \/ \E t \in Tries : try[t].s = s /\ try[t].pc = "info" /\ ~try[t].shut

IInv == /\ TypeOK /\ TaskInv /\ FreshInv /\ BackInv /\ IdInv /\ SameSensor
        /\ StopInv /\ RelInv /\ LeftInv /\ StrayInv

-----------------------------------------------------------------------------
(* What a step leaves as it was *)

\* All of a task but `shut`.
SameTask(t) ==
  /\ try'[t].pc = try[t].pc /\ try'[t].key = try[t].key /\ try'[t].s = try[t].s
  /\ try'[t].fresh = try[t].fresh /\ try'[t].src = try[t].src /\ try'[t].cancel = try[t].cancel

\* All of the calls but what they wait for.
SameOps ==
  \A p \in Ops : /\ op'[p].pc = op[p].pc /\ op'[p].keys = op[p].keys
                 /\ op'[p].mine = op[p].mine /\ op'[p].marked = op[p].marked
                 /\ op'[p].todo = op[p].todo

\* No task begins, and one that nobody cancels stays where a call will find it.
GoOn ==
  \A t \in Tries :
    /\ Works(t)' => Works(t) /\ try'[t].key = try[t].key /\ try'[t].s = try[t].s
                    /\ try'[t].fresh = try[t].fresh /\ try'[t].src = try[t].src
    /\ Untouched(t)' => Untouched(t) /\ conn'[try[t].key] = t

\* A release goes on with what it works on.
OpsGoOn ==
  \A p \in Ops : /\ op'[p].pc \in {"freed", "closing"} <=> op[p].pc \in {"freed", "closing"}
                 /\ op'[p].mine = op[p].mine /\ op'[p].marked = op[p].marked

\* A registered session keeps its id, and what it has read is still so.
ObjGoOn ==
  \A s \in Sessions :
    /\ obj'[s].id \in {obj[s].id, None}
    /\ Registered(s) =>
         /\ obj'[s].id = obj[s].id
         /\ obj'[s].read = "yes" => \/ obj'[s].peer = obj'[s].id
                                    \/ obj'[s].peer = obj[s].peer /\ obj[s].read = "yes"

\* Nothing but a task that nobody cancelled connects a session.
LiveGoOn ==
  \A s \in Sessions : Live(s)' => Live(s) \/ \E t \in Tries : Untouched(t) /\ try[t].s = s

LEMMA Types ==
  ASSUME IInv
  PROVE  /\ obj \in [Sessions -> Session] /\ sess \in [Ids -> Sessions \cup {None}]
         /\ rem \in [Ids -> Addresses \cup {None}] /\ try \in [Tries -> Try]
         /\ conn \in [Addresses -> Tries \cup {None}]
         /\ gather \in BOOLEAN /\ recovery \in BOOLEAN /\ op \in [Ops -> Op]
BY DEF IInv, TypeOK

\* Most steps: the sessions stay registered, and tasks and calls go on or end.
LEMMA Quiet ==
  ASSUME IInv, GoOn, OpsGoOn, ObjGoOn, sess' = sess, StaysReleased'
  PROVE  FreshInv' /\ IdInv' /\ SameSensor' /\ RelInv' /\ LeftInv'
<1>1. FreshInv'
  BY DEF IInv, FreshInv, GoOn, OpsGoOn, Registered
<1>2. IdInv'
  BY Types DEF IInv, IdInv, ObjGoOn, Registered
<1>3. SameSensor'
  <2> SUFFICES ASSUME NEW i \in Ids, sess[i] # None, obj'[sess[i]].read = "yes"
               PROVE  obj'[sess[i]].peer = i
    BY DEF SameSensor
  <2>1. sess[i] \in Sessions /\ Registered(sess[i]) /\ obj[sess[i]].id = i
    BY Types DEF IInv, IdInv, Registered
  <2> QED BY <2>1 DEF IInv, SameSensor, ObjGoOn
<1>4. RelInv'
  <2> SUFFICES ASSUME NEW p \in Ops
               PROVE  /\ op'[p].pc \notin {"freed", "closing"} => op'[p].mine = {}
                      /\ op'[p].marked \subseteq op'[p].mine
                      /\ \A s \in op'[p].mine :
                           /\ \A t \in Tries : Untouched(t)' => try'[t].s # s
                           /\ Registered(s)' => \E q \in Ops : s \in op'[q].marked
                      /\ op'[p].pc = "closing" => \A s \in op'[p].mine \ op'[p].todo : ~Live(s)'
    BY DEF RelInv
  <2>1. \A t \in Tries : Untouched(t)' => Untouched(t) /\ try'[t].s = try[t].s
    BY DEF GoOn, Untouched
  <2>2. \A s \in op'[p].mine : Registered(s)' => \E q \in Ops : s \in op'[q].marked
    BY DEF IInv, RelInv, OpsGoOn, Registered
  <2> QED BY <2>1, <2>2 DEF IInv, RelInv, OpsGoOn, StaysReleased
<1>5. LeftInv'
  <2> SUFFICES ASSUME NEW t \in Tries, Untouched(t)', ~try'[t].fresh
               PROVE  (Registered(try[t].s) \/ obj[try[t].s].id = None)'
    BY DEF LeftInv
  <2>1. Untouched(t) /\ try'[t].s = try[t].s /\ ~try[t].fresh /\ try[t].s \in Sessions
    BY DEF IInv, TaskInv, TaskOK, GoOn, Untouched
  <2> QED BY <2>1 DEF IInv, LeftInv, ObjGoOn, Registered
<1> QED BY <1>1, <1>2, <1>3, <1>4, <1>5

LEMMA StillDown ==
  ASSUME IInv, SameOps, LiveGoOn
  PROVE  StaysReleased' /\ OpsGoOn
<1> SUFFICES ASSUME NEW p \in Ops, op[p].pc = "closing", NEW s \in op[p].mine \ op[p].todo
             PROVE  ~Live(s)'
  BY DEF StaysReleased, SameOps, OpsGoOn
<1>1. s \in Sessions
  BY Types DEF Op
<1> QED BY <1>1 DEF IInv, RelInv, LiveGoOn

\* The stop that waits for a gather task still waits for it.
LEMMA StillStopping ==
  ASSUME IInv, GoOn, gather => gather',
         \A p \in Ops : op[p].pc = "pending" => op'[p].pc = "pending" /\ op'[p].keys = op[p].keys
  PROVE  StopInv'
BY DEF IInv, StopInv, GoOn, Untouched

LEMMA SameTasks ==
  ASSUME IInv, \A t \in Tries : SameTask(t), conn' = conn
  PROVE  GoOn
BY DEF IInv, TaskInv, TaskOK, GoOn, SameTask, Works, Untouched

LEMMA TryShut == ASSUME NEW r \in Try PROVE [r EXCEPT !.shut = TRUE] \in Try
BY DEF Try

LEMMA TryCancel ==
  ASSUME NEW r \in Try, NEW why \in {"stop", "release", "aclose"}
  PROVE  [r EXCEPT !.cancel = why] \in Try
BY DEF Try

LEMMA TryCloses == ASSUME NEW r \in Try PROVE [r EXCEPT !.pc = "close", !.shut = FALSE] \in Try
BY DEF Try

LEMMA OpWaits == ASSUME NEW r \in Op, NEW w \in SUBSET Tries PROVE [r EXCEPT !.waits = w] \in Op
BY DEF Op

LEMMA OpTodo == ASSUME NEW r \in Op, NEW d \in SUBSET Sessions PROVE [r EXCEPT !.todo = d] \in Op
BY DEF Op

\* Task t ends.
LEMMA EndsKeeps ==
  ASSUME IInv, NEW t \in Tries, try'[t] = Free, \A u \in Tries \ {t} : SameTask(u), Ends(t)
  PROVE  /\ conn' \in [Addresses -> Tries \cup {None}] /\ op' \in [Ops -> Op]
         /\ GoOn /\ SameOps
<1>1. conn' \in [Addresses -> Tries \cup {None}]
  BY Types DEF Ends
<1>2. op' \in [Ops -> Op] /\ SameOps
  <2>1. \A p \in Ops : op'[p] = [op[p] EXCEPT !.waits = op[p].waits \ {t}]
    BY DEF Ends
  <2>2. \A p \in Ops : op[p] \in Op
    BY Types
  <2>3. ASSUME NEW p \in Ops PROVE op'[p] \in Op
    <3>1. op[p].waits \ {t} \in SUBSET Tries
      BY <2>2 DEF Op
    <3>2. op[p] \in Op
      BY <2>2
    <3>3. [op[p] EXCEPT !.waits = op[p].waits \ {t}] \in Op
      BY <3>1, <3>2, OpWaits
    <3> QED BY <2>1, <3>3
  <2>4. SameOps
    BY <2>1, <2>2 DEF Op, SameOps
  <2> QED BY <2>3, <2>4 DEF Ends
<1>3. GoOn
  <2> SUFFICES ASSUME NEW u \in Tries
               PROVE  /\ Works(u)' => Works(u) /\ try'[u].key = try[u].key /\ try'[u].s = try[u].s
                                      /\ try'[u].fresh = try[u].fresh /\ try'[u].src = try[u].src
                      /\ Untouched(u)' => Untouched(u) /\ conn'[try[u].key] = u
    BY DEF GoOn
  <2>1. CASE u = t
    BY <2>1 DEF Works, Untouched, Free
  <2>2. CASE u # t
    BY <2>2, Types DEF IInv, TaskInv, TaskOK, SameTask, Works, Untouched, Ends
  <2> QED BY <2>1, <2>2
<1> QED BY <1>1, <1>2, <1>3

LEMMA ShutKeeps ==
  ASSUME IInv, NEW s
  PROVE  /\ Shut(try, s) \in [Tries -> Try]
         /\ \A t \in Tries :
              LET r == Shut(try, s)[t] IN
              /\ r.pc = try[t].pc /\ r.key = try[t].key /\ r.s = try[t].s
              /\ r.fresh = try[t].fresh /\ r.src = try[t].src /\ r.cancel = try[t].cancel
              /\ ~r.shut <=> ~try[t].shut /\ ~(try[t].s = s /\ try[t].pc \in {"link", "info"})
<1>1. \A t \in Tries : try[t] \in Try
  BY Types
<1>2. \A t \in Tries : Shut(try, s)[t] = IF try[t].s = s /\ try[t].pc \in {"link", "info"}
                                        THEN [try[t] EXCEPT !.shut = TRUE] ELSE try[t]
  BY DEF Shut
<1>3. \A t \in Tries : Shut(try, s)[t] \in Try
  BY <1>1, <1>2, TryShut
<1>4. Shut(try, s) \in [Tries -> Try]
  BY <1>3 DEF Shut
<1> QED BY <1>1, <1>2, <1>4 DEF Try

\* The tasks under some keys are cancelled.
LEMMA CancelKeeps ==
  ASSUME IInv, NEW keys, NEW why \in {"stop", "release", "aclose"},
         CancelConnects(keys, why)
  PROVE  /\ conn' \in [Addresses -> Tries \cup {None}] /\ try' \in [Tries -> Try]
         /\ GoOn /\ TasksAt(keys) \in SUBSET Tries
         /\ \A t \in Tries : /\ try'[t].pc = try[t].pc /\ try'[t].key = try[t].key
                             /\ try'[t].s = try[t].s /\ try'[t].fresh = try[t].fresh
                             /\ try'[t].shut = try[t].shut
                             /\ Untouched(t)' => try[t].key \notin keys
<1>1. conn' \in [Addresses -> Tries \cup {None}]
  BY Types DEF CancelConnects
<1>2. \A t \in Tries : try[t] \in Try
  BY Types
<1>3. \A t \in Tries : try'[t] = IF t \in TasksAt(keys) /\ try[t].cancel = "no"
                                THEN [try[t] EXCEPT !.cancel = why] ELSE try[t]
  BY DEF CancelConnects
<1>4. \A t \in Tries : try'[t] \in Try
  <2>1. \A t \in Tries : [try[t] EXCEPT !.cancel = why] \in Try
    BY <1>2, TryCancel
  <2>2. QED
    BY <1>2, <1>3, <2>1
<1>5. try' \in [Tries -> Try]
  BY <1>4 DEF CancelConnects
<1>6. \A t \in Tries : /\ try'[t].pc = try[t].pc /\ try'[t].key = try[t].key
                       /\ try'[t].s = try[t].s /\ try'[t].fresh = try[t].fresh
                       /\ try'[t].src = try[t].src /\ try'[t].shut = try[t].shut
                       /\ try'[t].cancel = "no" => try[t].cancel = "no" /\ t \notin TasksAt(keys)
  BY <1>2, <1>3 DEF Try
<1>7. ASSUME NEW t \in Tries, Untouched(t)'
      PROVE  Untouched(t) /\ try[t].key \notin keys /\ conn'[try[t].key] = t
  <2>1. Untouched(t) /\ t \notin TasksAt(keys)
    BY <1>6, <1>7 DEF Untouched, Works
  <2>2. try[t].key \in Addresses /\ conn[try[t].key] = t /\ t # None
    BY <2>1, FleetAssumption DEF IInv, TaskInv, TaskOK, Untouched
  <2>3. try[t].key \notin keys
    BY <2>1, <2>2 DEF TasksAt
  <2> QED BY <2>1, <2>2, <2>3 DEF CancelConnects
<1>8. TasksAt(keys) \in SUBSET Tries
  BY Types DEF TasksAt
<1> QED BY <1>1, <1>5, <1>6, <1>7, <1>8 DEF GoOn, Works

-----------------------------------------------------------------------------
(* Links that end *)

\* Session s has no link any more, and whatever ran on it fails.
LEMMA Cut ==
  ASSUME IInv, GoOn, sess' = sess, NEW s \in Sessions, NEW o \in Session,
         o.link \in {"DISCONNECTED", "LOST"}, o.back = o.link, o.id = obj[s].id, o.read = "no",
         obj' = [obj EXCEPT ![s] = o],
         \A t \in Tries :
           /\ try'[t].pc \in {"link", "info"} /\ ~try'[t].shut =>
                try'[t].pc = try[t].pc /\ ~try[t].shut /\ try[t].s # s
           /\ try[t].pc = "info" /\ ~try[t].shut /\ try[t].s # s =>
                try'[t].pc = "info" /\ try'[t].s = try[t].s /\ ~try'[t].shut
           /\ try'[t].pc = "start" => try[t].pc = "start" /\ (~try[t].shut => ~try'[t].shut)
  PROVE  /\ obj' \in [Sessions -> Session]
         /\ TaskInv' /\ BackInv' /\ StrayInv' /\ ObjGoOn /\ LiveGoOn
<1>1. obj' \in [Sessions -> Session]
  BY Types
<1>2. \A u \in Sessions : obj'[u] = IF u = s THEN o ELSE obj[u]
  BY Types
<1>3. TaskInv'
  <2> SUFFICES ASSUME NEW t \in Tries
               PROVE  TaskOK(t)'
    BY DEF TaskInv
  <2>1. Works(t)' => try'[t].key \in Addresses /\ try'[t].s \in Sessions /\ try'[t].s = try[t].s
    BY DEF IInv, TaskInv, TaskOK, GoOn
  <2>2. Untouched(t)' => conn'[try'[t].key] = t
    BY DEF GoOn, Untouched
  <2>3. try'[t].pc \in {"link", "info"} /\ ~try'[t].shut =>
          try'[t].pc = try[t].pc /\ ~try[t].shut /\ obj'[try'[t].s] = obj[try[t].s]
    BY <1>2, <2>1 DEF Works
  <2>4. \A u \in Tries : try'[t].pc = "link" /\ try'[u].pc = "link" /\ ~try'[t].shut /\ ~try'[u].shut
                           /\ try'[t].s = try'[u].s => t = u
    BY DEF IInv, TaskInv, TaskOK, GoOn, Works
  <2>5. /\ try'[t].pc = "link" /\ ~try'[t].shut => obj'[try'[t].s].link = "CONNECTING"
        /\ try'[t].pc = "info" /\ ~try'[t].shut => obj'[try'[t].s].peer \in Ids
    BY <2>3 DEF IInv, TaskInv, TaskOK
  <2>6. try'[t].pc = "start" => ~try'[t].shut
    BY DEF IInv, TaskInv, TaskOK
  <2> QED BY <2>1, <2>2, <2>4, <2>5, <2>6 DEF TaskOK, Untouched
<1>4. BackInv'
  BY <1>2 DEF IInv, BackInv
<1>5. StrayInv'
  <2> SUFFICES ASSUME NEW u \in Sessions, obj'[u].link = "CONNECTED"
               PROVE  \/ Registered(u)'
                      \/ obj'[u].read = "failed"
                      \/ \E t \in Tries : try'[t].s = u /\ try'[t].pc = "info" /\ ~try'[t].shut
    BY DEF StrayInv
  <2>1. u # s /\ obj'[u] = obj[u]
    BY <1>2
  <2> QED BY <2>1 DEF IInv, StrayInv, Registered
<1>6. ObjGoOn
  BY <1>2 DEF ObjGoOn
<1>7. LiveGoOn
  BY <1>2 DEF LiveGoOn, Live
<1> QED BY <1>1, <1>3, <1>4, <1>5, <1>6, <1>7

\* An idle session, or one whose link is gone.
LEMMA DroppedFacts ==
  ASSUME NEW o \in Session
  PROVE  /\ Dropped(o) \in Session
         /\ Dropped(o).link = "DISCONNECTED" /\ Dropped(o).back = Dropped(o).link
         /\ Dropped(o).id = o.id /\ Dropped(o).read = "no"
<1>1. Dropped(o) \in Session
  BY DEF Dropped, Session
<1>2. Dropped(o).link = "DISCONNECTED" /\ Dropped(o).back = Dropped(o).link
  BY DEF Dropped, Session
<1>3. Dropped(o).id = o.id /\ Dropped(o).read = "no"
  BY DEF Dropped, Session
<1>4. QED
  BY <1>1, <1>2, <1>3

LEMMA LostFacts ==
  ASSUME NEW o \in Session, NEW l, l = [Dropped(o) EXCEPT !.link = "LOST", !.back = "LOST"]
  PROVE  /\ l \in Session /\ l.link = "LOST" /\ l.back = l.link /\ l.id = o.id /\ l.read = "no"
<1>1. PICK d \in Session : d = Dropped(o) /\ d.id = o.id /\ d.read = "no"
  BY DroppedFacts
<1>2. l = [d EXCEPT !.link = "LOST", !.back = "LOST"]
  BY <1>1
<1>3. l \in Session
  BY <1>2 DEF Session
<1>4. l.link = "LOST" /\ l.back = l.link /\ l.id = d.id /\ l.read = d.read
  BY <1>2 DEF Session
<1>5. QED
  BY <1>1, <1>3, <1>4

\* Session s drops its link, from outside its task.
LEMMA OutsideCut ==
  ASSUME IInv, NEW s \in Sessions, NEW o \in Session,
         o.link \in {"DISCONNECTED", "LOST"}, o.back = o.link, o.id = obj[s].id, o.read = "no",
         obj' = [obj EXCEPT ![s] = o], try' = Shut(try, s), OpsGoOn, StaysReleased' \/ op' = op,
         \A p \in Ops : op[p].pc = "pending" => op'[p].pc = "pending" /\ op'[p].keys = op[p].keys,
         op' \in [Ops -> Op], UNCHANGED <<sess, rem, conn, gather, recovery>>
  PROVE  IInv'
<1>1. try' \in [Tries -> Try] /\ \A t \in Tries : SameTask(t)
  BY ShutKeeps DEF SameTask
<1>2. \A t \in Tries : ~try'[t].shut <=> ~try[t].shut /\ ~(try[t].s = s /\ try[t].pc \in {"link", "info"})
  BY ShutKeeps
<1>3. GoOn
  BY <1>1, SameTasks
<1>a. \A t \in Tries :
        /\ try'[t].pc \in {"link", "info"} /\ ~try'[t].shut =>
             try'[t].pc = try[t].pc /\ ~try[t].shut /\ try[t].s # s
        /\ try[t].pc = "info" /\ ~try[t].shut /\ try[t].s # s =>
             try'[t].pc = "info" /\ try'[t].s = try[t].s /\ ~try'[t].shut
        /\ try'[t].pc = "start" => try[t].pc = "start" /\ (~try[t].shut => ~try'[t].shut)
  BY <1>1, <1>2 DEF SameTask
<1>4. /\ obj' \in [Sessions -> Session]
      /\ TaskInv' /\ BackInv' /\ StrayInv' /\ ObjGoOn /\ LiveGoOn
  BY <1>a, <1>3, Cut
<1>5. StaysReleased'
  BY <1>4, StillDown DEF SameOps
<1>6. FreshInv' /\ IdInv' /\ SameSensor' /\ RelInv' /\ LeftInv'
  BY <1>3, <1>4, <1>5, Quiet
<1>7. StopInv'
  BY <1>3, StillStopping
<1>8. TypeOK'
  BY <1>1, <1>4, Types DEF TypeOK
<1> QED BY <1>4, <1>6, <1>7, <1>8 DEF IInv

LEMMA LosesStep == ASSUME IInv, NEW s \in Sessions, Loses(s) PROVE IInv'
<1> DEFINE o == [Dropped(obj[s]) EXCEPT !.link = "LOST", !.back = "LOST"]
<1>1. obj[s] \in Session
  BY Types
<1>2. /\ o \in Session /\ o.link = "LOST" /\ o.back = o.link /\ o.id = obj[s].id /\ o.read = "no"
  BY <1>1, LostFacts
<1>3. obj' = [obj EXCEPT ![s] = o] /\ try' = Shut(try, s)
      /\ UNCHANGED <<sess, rem, conn, gather, recovery, op>>
  BY Types DEF Loses
<1> HIDE DEF o
<1> QED BY <1>2, <1>3, OutsideCut, Types DEF OpsGoOn

LEMMA CloseElsewhereStep == ASSUME IInv, NEW s \in Sessions, CloseElsewhere(s) PROVE IInv'
<1> DEFINE o == Dropped(obj[s])
<1>1. obj[s] \in Session
  BY Types
<1>2. /\ o \in Session /\ o.link = "DISCONNECTED" /\ o.back = o.link /\ o.id = obj[s].id /\ o.read = "no"
  BY <1>1, DroppedFacts
<1>3. obj' = [obj EXCEPT ![s] = o] /\ try' = Shut(try, s)
      /\ UNCHANGED <<sess, rem, conn, gather, recovery, op>>
  BY Types DEF CloseElsewhere
<1> HIDE DEF o
<1> QED BY <1>2, <1>3, OutsideCut, Types DEF OpsGoOn

LEMMA CloseOneStep ==
  ASSUME IInv, NEW p \in Ops, NEW s \in Sessions, CloseOne(p, s)
  PROVE  IInv'
<1> DEFINE o == Dropped(obj[s])
<1>1. obj[s] \in Session /\ op[p] \in Op
  BY Types
<1>2. /\ o \in Session /\ o.link = "DISCONNECTED" /\ o.back = o.link /\ o.id = obj[s].id /\ o.read = "no"
  BY <1>1, DroppedFacts
<1>3. /\ obj' = [obj EXCEPT ![s] = o] /\ try' = Shut(try, s)
      /\ op' = [op EXCEPT ![p] = [op[p] EXCEPT !.todo = op[p].todo \ {s}]]
      /\ UNCHANGED <<sess, rem, conn, gather, recovery>>
  BY DEF CloseOne
<1>4. [op[p] EXCEPT !.todo = op[p].todo \ {s}] \in Op
  BY <1>1, OpTodo DEF Op
<1>5. op' \in [Ops -> Op]
  BY <1>3, <1>4, Types
<1>6. \A q \in Ops : /\ op'[q].pc = op[q].pc /\ op'[q].keys = op[q].keys
                     /\ op'[q].mine = op[q].mine /\ op'[q].marked = op[q].marked
                     /\ op'[q].todo = IF q = p THEN op[q].todo \ {s} ELSE op[q].todo
  BY <1>1, <1>3, Types DEF Op
<1>7. \A u \in Sessions : Live(u)' => Live(u) /\ u # s
  BY <1>2, <1>3, Types DEF Live
<1>8. StaysReleased'
  <2> SUFFICES ASSUME NEW q \in Ops, op'[q].pc = "closing", NEW u \in op'[q].mine \ op'[q].todo
               PROVE  ~Live(u)'
    BY DEF StaysReleased
  <2>1. u \in Sessions
    BY <1>5 DEF Op
  <2>2. u = s \/ u \in op[q].mine \ op[q].todo
    BY <1>6
  <2> QED BY <1>6, <1>7, <2>1, <2>2 DEF IInv, RelInv
<1> HIDE DEF o
<1> QED BY <1>2, <1>3, <1>5, <1>6, <1>8, OutsideCut DEF OpsGoOn

\* A connect task closes what it connected.
LEMMA ClosesStep ==
  ASSUME IInv, NEW t \in Tries, try[t].pc = "info", Closes(t)
  PROVE  IInv'
<1>1. PICK s \in Sessions : s = try[t].s
  BY DEF IInv, TaskInv, TaskOK, Works
<1> DEFINE o == Dropped(obj[s])
<1>2. obj[s] \in Session
  BY <1>1, Types
<1>3. /\ o \in Session /\ o.link = "DISCONNECTED" /\ o.back = o.link /\ o.id = obj[s].id /\ o.read = "no"
  BY <1>2 DEF Dropped, Session
<1> DEFINE f == Shut(try, s)
<1>4. /\ obj' = [obj EXCEPT ![s] = o]
      /\ try' = [f EXCEPT ![t] = [f[t] EXCEPT !.pc = "close", !.shut = FALSE]]
      /\ UNCHANGED <<sess, rem, conn, gather, recovery, op>>
  BY <1>1, ShutKeeps DEF Closes
<1>5. /\ f \in [Tries -> Try]
      /\ \A u \in Tries : /\ f[u].pc = try[u].pc /\ f[u].key = try[u].key /\ f[u].s = try[u].s
                          /\ f[u].fresh = try[u].fresh /\ f[u].src = try[u].src
                          /\ f[u].cancel = try[u].cancel
                          /\ ~f[u].shut <=> ~try[u].shut
                                            /\ ~(try[u].s = s /\ try[u].pc \in {"link", "info"})
  BY ShutKeeps
<1> HIDE DEF o, f
<1>6. [f[t] EXCEPT !.pc = "close", !.shut = FALSE] \in Try
  BY <1>5, TryCloses
<1>7. try' \in [Tries -> Try]
  BY <1>4, <1>5, <1>6
<1>8. \A u \in Tries : /\ try'[u].pc = (IF u = t THEN "close" ELSE try[u].pc)
                       /\ try'[u].key = try[u].key /\ try'[u].s = try[u].s
                       /\ try'[u].fresh = try[u].fresh /\ try'[u].src = try[u].src
                       /\ try'[u].cancel = try[u].cancel
                       /\ u # t => (~try'[u].shut <=>
                              ~try[u].shut /\ ~(try[u].s = s /\ try[u].pc \in {"link", "info"}))
  <2> TAKE u \in Tries
  <2>1. f[u] \in Try
    BY <1>5
  <2>2. try'[u] = IF u = t THEN [f[u] EXCEPT !.pc = "close", !.shut = FALSE] ELSE f[u]
    BY <1>4, <1>5
  <2>3. CASE u = t
    BY <1>5, <2>1, <2>2, <2>3 DEF Try
  <2>4. CASE u # t
    BY <1>5, <2>2, <2>4
  <2> QED BY <2>3, <2>4
<1>9. GoOn
  BY <1>4, <1>8 DEF IInv, TaskInv, TaskOK, GoOn, Works, Untouched
<1>10. \A u \in Tries :
         /\ try'[u].pc \in {"link", "info"} /\ ~try'[u].shut =>
              try'[u].pc = try[u].pc /\ ~try[u].shut /\ try[u].s # s
         /\ try[u].pc = "info" /\ ~try[u].shut /\ try[u].s # s =>
              try'[u].pc = "info" /\ try'[u].s = try[u].s /\ ~try'[u].shut
         /\ try'[u].pc = "start" => try[u].pc = "start" /\ (~try[u].shut => ~try'[u].shut)
  BY <1>8, <1>1
<1>11. /\ obj' \in [Sessions -> Session]
       /\ TaskInv' /\ BackInv' /\ StrayInv' /\ ObjGoOn /\ LiveGoOn
  BY <1>1, <1>3, <1>4, <1>9, <1>10, Cut
<1>12. StaysReleased' /\ OpsGoOn
  BY <1>4, <1>11, StillDown DEF SameOps
<1>13. FreshInv' /\ IdInv' /\ SameSensor' /\ RelInv' /\ LeftInv'
  BY <1>4, <1>9, <1>11, <1>12, Quiet
<1>14. StopInv'
  BY <1>4, <1>9, StillStopping
<1>15. TypeOK'
  BY <1>4, <1>7, <1>11, Types DEF TypeOK
<1> QED BY <1>11, <1>13, <1>14, <1>15 DEF IInv

-----------------------------------------------------------------------------
(* Connect tasks *)

LEMMA FreeFacts == Free \in Try /\ Free.pc = "free" /\ Blank \in Session
BY DEF Free, Try, Blank, Session

\* Task t ends and leaves the links of the other tasks as they are.
LEMMA EndStep ==
  ASSUME IInv, NEW t \in Tries, try' = [try EXCEPT ![t] = Free], Ends(t),
         obj' \in [Sessions -> Session], rem' \in [Ids -> Addresses \cup {None}],
         UNCHANGED <<sess, gather, recovery>>, ObjGoOn, LiveGoOn, BackInv',
         \A u \in Tries \ {t} :
           /\ try[u].pc = "link" /\ ~try[u].shut => obj'[try[u].s].link = obj[try[u].s].link
           /\ try[u].pc = "info" /\ ~try[u].shut => obj'[try[u].s].peer = obj[try[u].s].peer,
         \A s \in Sessions : obj'[s].link = "CONNECTED" =>
           \/ Registered(s) \/ obj'[s].read = "failed"
           \/ /\ obj[s].link = "CONNECTED" /\ obj'[s].read = obj[s].read
              /\ try[t].s = s /\ try[t].pc = "info" => try[t].shut
  PROVE  IInv'
<1>1. /\ try' \in [Tries -> Try] /\ try'[t] = Free
      /\ \A u \in Tries \ {t} : try'[u] = try[u]
  BY Types, FreeFacts
<1>2. /\ conn' \in [Addresses -> Tries \cup {None}] /\ op' \in [Ops -> Op]
      /\ GoOn /\ SameOps
  BY <1>1, EndsKeeps DEF SameTask
<1>3. StaysReleased' /\ OpsGoOn
  BY <1>2, StillDown
<1>4. FreshInv' /\ IdInv' /\ SameSensor' /\ RelInv' /\ LeftInv'
  BY <1>2, <1>3, Quiet
<1>5. StopInv'
  BY <1>2, StillStopping DEF SameOps
<1>6. TaskInv'
  <2> SUFFICES ASSUME NEW u \in Tries
               PROVE  TaskOK(u)'
    BY DEF TaskInv
  <2>1. CASE u = t
    BY <1>1, <2>1, FreeFacts DEF TaskOK, Works, Untouched
  <2>2. CASE u # t
    <3>1. try'[u] = try[u] /\ TaskOK(u)
      BY <1>1, <2>2 DEF IInv, TaskInv
    <3>2. Untouched(u)' => conn'[try[u].key] = u
      BY <1>2 DEF GoOn
    <3>3. \A v \in Tries : try'[v].pc = "link" => try'[v] = try[v]
      BY <1>1, FreeFacts
    <3>4. \A v \in Tries : try'[u].pc = "link" /\ try'[v].pc = "link" /\ ~try'[u].shut /\ ~try'[v].shut
                             /\ try'[u].s = try'[v].s => u = v
      BY <3>1, <3>3 DEF TaskOK
    <3>5. /\ try'[u].pc = "link" /\ ~try'[u].shut => obj'[try'[u].s].link = "CONNECTING"
          /\ try'[u].pc = "info" /\ ~try'[u].shut => obj'[try'[u].s].peer \in Ids
      BY <2>2, <3>1 DEF TaskOK
    <3> QED BY <3>1, <3>2, <3>4, <3>5 DEF TaskOK, Works, Untouched
  <2> QED BY <2>1, <2>2
<1>7. StrayInv'
  <2> SUFFICES ASSUME NEW s \in Sessions, obj'[s].link = "CONNECTED",
                      ~Registered(s), obj'[s].read # "failed"
               PROVE  \E u \in Tries : try'[u].s = s /\ try'[u].pc = "info" /\ ~try'[u].shut
    BY DEF StrayInv, Registered
  <2>1. PICK u \in Tries : try[u].s = s /\ try[u].pc = "info" /\ ~try[u].shut
    BY DEF IInv, StrayInv
  <2>2. try'[u] = try[u]
    BY <1>1, <2>1
  <2> QED BY <2>1, <2>2
<1>8. TypeOK'
  BY <1>1, <1>2, Types DEF TypeOK
<1> QED BY <1>4, <1>5, <1>6, <1>7, <1>8 DEF IInv

LEMMA SameObj == ASSUME IInv, UNCHANGED obj PROVE ObjGoOn /\ LiveGoOn /\ BackInv'
BY DEF IInv, BackInv, ObjGoOn, LiveGoOn, Live

LEMMA NeverBeginsStep == ASSUME IInv, NEW t \in Tries, NeverBegins(t) PROVE IInv'
<1>1. /\ try' = [try EXCEPT ![t] = Free] /\ Ends(t) /\ try[t].pc # "info"
      /\ UNCHANGED <<obj, sess, rem, gather, recovery>>
  BY DEF NeverBegins
<1> QED BY <1>1, SameObj, Types, EndStep

\* What a session o may be that session s becomes when its task t ends.
Leaves(t, s, o) ==
  /\ \/ o.id = obj[s].id
     \/ o.id = None /\ ~Registered(s)
  /\ Registered(s) /\ o.read = "yes" =>
       \/ o.peer = o.id
       \/ o.peer = obj[s].peer /\ obj[s].read = "yes"
  /\ o.link \in {"CONNECTED", "CONNECTING"} => Live(s)
  /\ IF o.link = "CONNECTING" THEN o.back \in {"DISCONNECTED", "LOST"} ELSE o.back = o.link
  /\ \A u \in Tries \ {t} : try[u].s = s /\ ~try[u].shut =>
       /\ try[u].pc = "link" => o.link = obj[s].link
       /\ try[u].pc = "info" => o.peer = obj[s].peer
  /\ o.link = "CONNECTED" =>
       \/ Registered(s) \/ o.read = "failed"
       \/ /\ obj[s].link = "CONNECTED" /\ o.read = obj[s].read
          /\ try[t].pc = "info" => try[t].shut

LEMMA EndOne ==
  ASSUME IInv, NEW t \in Tries, try' = [try EXCEPT ![t] = Free], Ends(t),
         NEW s \in Sessions, s = try[t].s, NEW o \in Session, obj' = [obj EXCEPT ![s] = o],
         rem' \in [Ids -> Addresses \cup {None}],
         UNCHANGED <<sess, gather, recovery>>, Leaves(t, s, o)
  PROVE  IInv'
<1>1. obj' \in [Sessions -> Session] /\ \A u \in Sessions : obj'[u] = IF u = s THEN o ELSE obj[u]
  BY Types
<1>2. ObjGoOn
  BY <1>1 DEF ObjGoOn, Leaves
<1>3. LiveGoOn
  BY <1>1 DEF LiveGoOn, Live, Leaves
<1>4. BackInv'
  BY <1>1 DEF IInv, BackInv, Leaves
<1>5. \A u \in Tries \ {t} :
        /\ try[u].pc = "link" /\ ~try[u].shut => obj'[try[u].s].link = obj[try[u].s].link
        /\ try[u].pc = "info" /\ ~try[u].shut => obj'[try[u].s].peer = obj[try[u].s].peer
  BY <1>1 DEF IInv, TaskInv, TaskOK, Works, Leaves
<1>6. \A u \in Sessions : obj'[u].link = "CONNECTED" =>
        \/ Registered(u) \/ obj'[u].read = "failed"
        \/ /\ obj[u].link = "CONNECTED" /\ obj'[u].read = obj[u].read
           /\ try[t].s = u /\ try[t].pc = "info" => try[t].shut
  <2>1. ASSUME NEW u \in Sessions, u # s, obj'[u].link = "CONNECTED"
        PROVE  obj[u].link = "CONNECTED" /\ obj'[u].read = obj[u].read /\ try[t].s # u
    BY <1>1, <2>1
  <2>2. obj'[s].link = "CONNECTED" =>
          \/ Registered(s) \/ obj'[s].read = "failed"
          \/ /\ obj[s].link = "CONNECTED" /\ obj'[s].read = obj[s].read
             /\ try[t].pc = "info" => try[t].shut
    BY <1>1 DEF Leaves
  <2> QED BY <2>1, <2>2
<1> QED BY <1>1, <1>2, <1>3, <1>4, <1>5, <1>6, EndStep

\* A new session is its task's alone.
LEMMA Alone ==
  ASSUME IInv, NEW t \in Tries, Works(t), try[t].fresh
  PROVE  ~Registered(try[t].s) /\ \A u \in Tries \ {t} : Works(u) => try[u].s # try[t].s
BY DEF IInv, FreshInv

LEMMA BlankFacts == /\ Blank.id = None /\ Blank.link = "DISCONNECTED" /\ Blank.back = "DISCONNECTED"
                    /\ Blank.read = "no"
BY DEF Blank

LEMMA EndBlank ==
  ASSUME IInv, NEW t \in Tries, Works(t), try[t].fresh, try' = [try EXCEPT ![t] = Free], Ends(t),
         obj' = [obj EXCEPT ![try[t].s] = Blank], UNCHANGED <<sess, rem, gather, recovery>>
  PROVE  IInv'
<1>1. PICK s \in Sessions : s = try[t].s
  BY DEF IInv, TaskInv, TaskOK
<1>2. ~Registered(s) /\ \A u \in Tries \ {t} : Works(u) => try[u].s # s
  BY <1>1, Alone
<1>3. Leaves(t, s, Blank)
  BY <1>2, BlankFacts DEF Leaves, Works
<1>4. obj' = [obj EXCEPT ![s] = Blank]
  BY <1>1
<1>5. rem' \in [Ids -> Addresses \cup {None}]
  BY Types
<1> QED BY <1>1, <1>3, <1>4, <1>5, FreeFacts, EndOne

LEMMA LinkFailsStep == ASSUME IInv, NEW t \in Tries, LinkFails(t) PROVE IInv'
<1>1. /\ try[t].pc = "link" /\ try' = [try EXCEPT ![t] = Free] /\ Ends(t)
      /\ UNCHANGED <<sess, rem, gather, recovery>>
  BY DEF LinkFails
<1>2. PICK s \in Sessions : s = try[t].s
  BY <1>1 DEF IInv, TaskInv, TaskOK, Works
<1>3. CASE try[t].fresh
  BY <1>1, <1>3, EndBlank DEF LinkFails, Works
<1>4. CASE ~try[t].fresh /\ try[t].shut
  <2>1. obj' = obj
    BY <1>2, <1>4, Types DEF LinkFails
  <2> QED BY <1>1, <1>4, <2>1, SameObj, Types, EndStep
<1>5. CASE ~try[t].fresh /\ ~try[t].shut
  <2>1. PICK o : o = [obj[s] EXCEPT !.link = obj[s].back]
    OBVIOUS
  <2>2. /\ obj[s] \in Session /\ obj[s].link = "CONNECTING"
        /\ obj[s].back \in {"DISCONNECTED", "LOST"}
    BY <1>1, <1>2, <1>5, Types DEF IInv, TaskInv, TaskOK, BackInv
  <2>3. obj' = [obj EXCEPT ![s] = o]
    BY <1>2, <1>5, <2>1 DEF LinkFails
  <2>4. /\ o \in Session /\ o.link = obj[s].back /\ o.back = obj[s].back /\ o.id = obj[s].id
        /\ o.peer = obj[s].peer /\ o.read = obj[s].read
    BY <2>1, <2>2 DEF Session
  <2>5. \A u \in Tries \ {t} : try[u].s = s /\ ~try[u].shut =>
          /\ try[u].pc = "link" => o.link = obj[s].link
          /\ try[u].pc = "info" => o.peer = obj[s].peer
    BY <1>1, <1>2, <1>5, <2>4 DEF IInv, TaskInv, TaskOK
  <2>6. rem' \in [Ids -> Addresses \cup {None}]
    BY <1>1, Types
  <2>7. Leaves(t, s, o)
    <3>1. o.link \notin {"CONNECTED", "CONNECTING"} /\ o.back = o.link
      BY <2>2, <2>4
    <3> QED BY <2>4, <2>5, <3>1 DEF Leaves
  <2> QED BY <1>1, <1>2, <2>3, <2>4, <2>6, <2>7, EndOne
<1> QED BY <1>3, <1>4, <1>5

LEMMA CloseReturnsStep == ASSUME IInv, NEW t \in Tries, CloseReturns(t) PROVE IInv'
<1>1. /\ try[t].pc = "close" /\ try' = [try EXCEPT ![t] = Free] /\ Ends(t)
      /\ UNCHANGED <<sess, rem, gather, recovery>>
  BY DEF CloseReturns
<1>2. CASE try[t].fresh
  BY <1>1, <1>2, EndBlank DEF CloseReturns, Works
<1>3. CASE ~try[t].fresh
  <2>1. obj' = obj
    BY <1>3 DEF CloseReturns
  <2> QED BY <1>1, <2>1, SameObj, Types, EndStep
<1> QED BY <1>2, <1>3

LEMMA BackStep == ASSUME IInv, NEW t \in Tries, Back(t) PROVE IInv'
<1>1. /\ try[t].pc = "info" /\ ~try[t].shut /\ Untouched(t) /\ ~try[t].fresh
      /\ try' = [try EXCEPT ![t] = Free] /\ Ends(t) /\ UNCHANGED <<sess, gather, recovery>>
  BY DEF Back, Reads, Untouched, Works
<1>2. PICK s \in Sessions : s = try[t].s
  BY <1>1 DEF IInv, TaskInv, TaskOK, Works
<1>3. try[t].key \in Addresses /\ obj[s].peer \in Ids /\ obj[s].id = obj[s].peer /\ obj[s] \in Session
  BY <1>1, <1>2, Types DEF IInv, TaskInv, TaskOK, Works, Back
<1>4. Registered(s)
  BY <1>1, <1>2, <1>3, FleetAssumption DEF IInv, LeftInv
<1>5. PICK o : o = [obj[s] EXCEPT !.addr = try[t].key, !.read = "yes"]
  OBVIOUS
<1>6. obj' = [obj EXCEPT ![s] = o]
  BY <1>2, <1>5 DEF Back
<1>7. /\ o \in Session /\ o.link = obj[s].link /\ o.back = obj[s].back /\ o.id = obj[s].id
      /\ o.peer = obj[s].peer /\ o.read = "yes"
  BY <1>3, <1>5 DEF Session
<1>8. rem' \in [Ids -> Addresses \cup {None}]
  BY <1>2, <1>3, Types DEF Back
<1>9. Leaves(t, s, o)
  BY <1>3, <1>4, <1>7 DEF Leaves, Live, IInv, BackInv
<1> QED BY <1>1, <1>2, <1>6, <1>7, <1>8, <1>9, EndOne

LEMMA InfoFailsStep == ASSUME IInv, NEW t \in Tries, InfoFails(t) PROVE IInv'
<1>1. try[t].pc = "info"
  BY DEF InfoFails
<1>2. CASE try[t].fresh \/ try[t].cancel # "no"
  BY <1>1, <1>2, ClosesStep DEF InfoFails
<1>3. CASE ~(try[t].fresh \/ try[t].cancel # "no")
  <2>1. /\ obj' = IF try[t].shut THEN obj ELSE [obj EXCEPT ![try[t].s].read = "failed"]
        /\ try' = [try EXCEPT ![t] = Free] /\ Ends(t)
        /\ UNCHANGED <<sess, rem, gather, recovery>>
    BY <1>3 DEF InfoFails
  <2>2. CASE try[t].shut
    BY <2>1, <2>2, SameObj, Types, EndStep
  <2>3. CASE ~try[t].shut
    <3>1. PICK s \in Sessions : s = try[t].s
      BY <1>1 DEF IInv, TaskInv, TaskOK, Works
    <3>2. PICK o : o = [obj[s] EXCEPT !.read = "failed"]
      OBVIOUS
    <3>3. obj' = [obj EXCEPT ![s] = o]
      BY <2>1, <2>3, <3>1, <3>2
    <3>4. obj[s] \in Session
      BY Types
    <3>5. /\ o \in Session /\ o.link = obj[s].link /\ o.back = obj[s].back /\ o.id = obj[s].id
          /\ o.peer = obj[s].peer /\ o.read = "failed"
      BY <3>2, <3>4 DEF Session
    <3>6. Leaves(t, s, o)
      BY <3>5 DEF Leaves, Live, IInv, BackInv
    <3>7. rem' \in [Ids -> Addresses \cup {None}]
      BY <2>1, Types
    <3> QED BY <2>1, <3>1, <3>3, <3>5, <3>6, <3>7, EndOne
  <2> QED BY <2>2, <2>3
<1> QED BY <1>2, <1>3

\* What a session o may be that session s becomes when its task t goes on to pc.
Moves(t, pc, s, o) ==
  /\ \/ o.id = obj[s].id
     \/ o.id = None /\ ~Registered(s)
  /\ \/ o.read # "yes"
     \/ o.read = obj[s].read /\ o.peer = obj[s].peer
  /\ IF o.link = "CONNECTING" THEN o.back \in {"DISCONNECTED", "LOST"} ELSE o.back = o.link
  /\ pc = "link" => o.link = "CONNECTING"
  /\ pc = "info" => o.peer \in Ids
  /\ \A u \in Tries \ {t} : try[u].s = s /\ ~try[u].shut =>
       /\ try[u].pc # "link"
       /\ try[u].pc = "info" => o.peer \in Ids

LEMMA MoveStep ==
  ASSUME IInv, NEW t \in Tries, Untouched(t), ~try[t].shut,
         NEW pc \in {"link", "info"}, try' = [try EXCEPT ![t] = [try[t] EXCEPT !.pc = pc]],
         NEW s \in Sessions, s = try[t].s, NEW o \in Session, obj' = [obj EXCEPT ![s] = o],
         UNCHANGED <<sess, rem, conn, gather, recovery, op>>, Moves(t, pc, s, o)
  PROVE  IInv'
<1>1. obj' \in [Sessions -> Session] /\ \A u \in Sessions : obj'[u] = IF u = s THEN o ELSE obj[u]
  BY Types
<1>2. PICK r : r = [try[t] EXCEPT !.pc = pc]
  OBVIOUS
<1>3. /\ r \in Try /\ r.pc = pc /\ r.key = try[t].key /\ r.s = try[t].s /\ r.fresh = try[t].fresh
      /\ r.src = try[t].src /\ r.cancel = try[t].cancel /\ r.shut = try[t].shut
  BY <1>2, Types DEF Try
<1>4. try' \in [Tries -> Try] /\ \A u \in Tries : try'[u] = IF u = t THEN r ELSE try[u]
  BY <1>2, <1>3, Types
<1>5. GoOn
  <2> SUFFICES ASSUME NEW u \in Tries
               PROVE  /\ Works(u)' => Works(u) /\ try'[u].key = try[u].key /\ try'[u].s = try[u].s
                                      /\ try'[u].fresh = try[u].fresh /\ try'[u].src = try[u].src
                      /\ Untouched(u)' => Untouched(u) /\ conn'[try[u].key] = u
    BY DEF GoOn
  <2>1. Untouched(u) => conn'[try[u].key] = u
    BY DEF IInv, TaskInv, TaskOK
  <2> QED BY <1>3, <1>4, <2>1 DEF Works, Untouched
<1>6. ObjGoOn
  BY <1>1 DEF ObjGoOn, Moves
<1>7. LiveGoOn
  BY <1>1 DEF LiveGoOn, Live
<1>8. StaysReleased' /\ OpsGoOn
  BY <1>7, StillDown DEF SameOps
<1>9. FreshInv' /\ IdInv' /\ SameSensor' /\ RelInv' /\ LeftInv'
  BY <1>5, <1>6, <1>8, Quiet
<1>10. StopInv'
  BY <1>5, StillStopping
<1>11. TaskInv'
  <2> SUFFICES ASSUME NEW u \in Tries
               PROVE  TaskOK(u)'
    BY DEF TaskInv
  <2>1. TaskOK(u) /\ TaskOK(t)
    BY DEF IInv, TaskInv
  <2>2. Works(u)' => try'[u].key \in Addresses /\ try'[u].s \in Sessions
    BY <1>3, <1>4, <2>1 DEF TaskOK, Works, Untouched
  <2>3. Untouched(u)' => conn'[try'[u].key] = u
    BY <1>5 DEF GoOn, Untouched
  <2>4. try'[u].pc = "link" /\ ~try'[u].shut => obj'[try'[u].s].link = "CONNECTING"
    BY <1>1, <1>3, <1>4, <2>1, <2>2 DEF TaskOK, Works, Moves
  <2>5. try'[u].pc = "info" /\ ~try'[u].shut => obj'[try'[u].s].peer \in Ids
    BY <1>1, <1>3, <1>4, <2>1, <2>2 DEF TaskOK, Works, Moves
  <2>6. \A v \in Tries : try'[u].pc = "link" /\ try'[v].pc = "link" /\ ~try'[u].shut /\ ~try'[v].shut
                           /\ try'[u].s = try'[v].s => u = v
    BY <1>3, <1>4, <2>1 DEF TaskOK, Moves
  <2>7. try'[u].pc = "start" => ~try'[u].shut
    BY <1>3, <1>4, <2>1 DEF TaskOK
  <2> QED BY <2>2, <2>3, <2>4, <2>5, <2>6, <2>7 DEF TaskOK, Works, Untouched
<1>12. BackInv'
  BY <1>1 DEF IInv, BackInv, Moves
<1>13. StrayInv'
  <2> SUFFICES ASSUME NEW u \in Sessions, obj'[u].link = "CONNECTED", ~Registered(u),
                      obj'[u].read # "failed"
               PROVE  \E v \in Tries : try'[v].s = u /\ try'[v].pc = "info" /\ ~try'[v].shut
    BY DEF StrayInv, Registered
  <2>1. CASE u = s
    <3>1. pc = "info"
      BY <1>1, <2>1 DEF Moves
    <3> QED BY <1>3, <1>4, <2>1, <3>1
  <2>2. CASE u # s
    <3>1. PICK v \in Tries : try[v].s = u /\ try[v].pc = "info" /\ ~try[v].shut
      BY <1>1, <2>2 DEF IInv, StrayInv
    <3> QED BY <1>4, <2>2, <3>1
  <2> QED BY <2>1, <2>2
<1>14. TypeOK'
  BY <1>1, <1>4, Types DEF TypeOK
<1> QED BY <1>9, <1>10, <1>11, <1>12, <1>13, <1>14 DEF IInv

LEMMA LinkUpStep == ASSUME IInv, NEW t \in Tries, LinkUp(t) PROVE IInv'
<1>1. /\ try[t].pc = "link" /\ ~try[t].shut /\ Untouched(t)
      /\ UNCHANGED <<sess, rem, conn, gather, recovery, op>>
  BY DEF LinkUp, Untouched, Works
<1>2. PICK s \in Sessions : s = try[t].s
  BY <1>1 DEF IInv, TaskInv, TaskOK, Works
<1>3. PICK i \in Ids :
        obj' = [obj EXCEPT ![s] = [obj[s] EXCEPT !.link = "CONNECTED", !.back = "CONNECTED",
                                                 !.peer = i, !.read = "no"]]
  BY <1>2 DEF LinkUp
<1>4. PICK o : o = [obj[s] EXCEPT !.link = "CONNECTED", !.back = "CONNECTED", !.peer = i, !.read = "no"]
  OBVIOUS
<1>5. /\ o \in Session /\ o.link = "CONNECTED" /\ o.back = "CONNECTED" /\ o.id = obj[s].id
      /\ o.peer = i /\ o.read = "no"
  BY <1>4, Types DEF Session
<1>6. try' = [try EXCEPT ![t] = [try[t] EXCEPT !.pc = "info"]]
  BY DEF LinkUp
<1>7. \A u \in Tries \ {t} : try[u].s = s => ~(try[u].pc = "link" /\ ~try[u].shut)
  BY <1>1, <1>2 DEF IInv, TaskInv, TaskOK
<1>8. obj' = [obj EXCEPT ![s] = o]
  BY <1>3, <1>4
<1>9. PICK pc \in {"link", "info"} : pc = "info"
  OBVIOUS
<1>10. Moves(t, pc, s, o)
  BY <1>5, <1>7, <1>9 DEF Moves
<1>11. try' = [try EXCEPT ![t] = [try[t] EXCEPT !.pc = pc]]
  BY <1>6, <1>9
<1> QED BY <1>1, <1>2, <1>5, <1>8, <1>10, <1>11, MoveStep

LEMMA BeginsStep == ASSUME IInv, NEW t \in Tries, Begins(t) PROVE IInv'
<1>1. try[t].pc = "start" /\ Untouched(t) /\ UNCHANGED <<sess, rem, gather, recovery>>
  BY DEF Begins, Untouched, Works
<1>2. PICK s \in Sessions : s = try[t].s
  BY <1>1 DEF IInv, TaskInv, TaskOK, Works
<1>3. CASE Live(s)
  <2>1. try' = [try EXCEPT ![t] = Free] /\ Ends(t) /\ UNCHANGED obj
    BY <1>2, <1>3 DEF Begins
  <2> QED BY <1>1, <2>1, SameObj, Types, EndStep
<1>4. CASE ~Live(s)
  <2>1. /\ obj' = [obj EXCEPT ![s] = IF try[t].fresh
                     THEN [Blank EXCEPT !.link = "CONNECTING", !.addr = try[t].key]
                     ELSE [obj[s] EXCEPT !.link = "CONNECTING"]]
        /\ try' = [try EXCEPT ![t] = [try[t] EXCEPT !.pc = "link"]]
        /\ UNCHANGED <<conn, op>>
    BY <1>2, <1>4 DEF Begins
  <2>2. PICK o : o = IF try[t].fresh THEN [Blank EXCEPT !.link = "CONNECTING", !.addr = try[t].key]
                                     ELSE [obj[s] EXCEPT !.link = "CONNECTING"]
    OBVIOUS
  <2>3. obj[s] \in Session /\ try[t].key \in Addresses /\ try[t] \in Try
    BY <1>1, Types DEF IInv, TaskInv, TaskOK, Untouched
  <2>4. obj[s].back \in {"DISCONNECTED", "LOST"}
    BY <1>4, <2>3 DEF IInv, BackInv, Live, Session
  <2>5. /\ o \in Session /\ o.link = "CONNECTING" /\ o.back \in {"DISCONNECTED", "LOST"}
        /\ try[t].fresh => o.id = None /\ o.read = "no"
        /\ ~try[t].fresh => o.id = obj[s].id /\ o.read = obj[s].read /\ o.peer = obj[s].peer
    BY <2>2, <2>3, <2>4 DEF Session, Blank
  <2>6. try[t].fresh => ~Registered(s) /\ \A u \in Tries \ {t} : Works(u) => try[u].s # s
    BY <1>1, <1>2, Alone DEF Untouched
  <2>7. \A u \in Tries \ {t} : try[u].s = s => ~(try[u].pc = "link" /\ ~try[u].shut)
    BY <1>4 DEF IInv, TaskInv, TaskOK, Live
  <2>8. \A u \in Tries \ {t} : try[u].s = s /\ try[u].pc = "info" /\ ~try[u].shut => o.peer \in Ids
    BY <2>5, <2>6 DEF IInv, TaskInv, TaskOK, Works
  <2>9. /\ o.id = obj[s].id \/ (o.id = None /\ ~Registered(s))
        /\ o.read # "yes" \/ (o.read = obj[s].read /\ o.peer = obj[s].peer)
    BY <2>5, <2>6
  <2>10. obj' = [obj EXCEPT ![s] = o]
    BY <2>1, <2>2
  <2>11. PICK pc \in {"link", "info"} : pc = "link"
    OBVIOUS
  <2>12. ~try[t].shut
    BY <1>1 DEF IInv, TaskInv, TaskOK
  <2>13. Moves(t, pc, s, o)
    BY <2>5, <2>7, <2>8, <2>9, <2>11 DEF Moves
  <2>14. try' = [try EXCEPT ![t] = [try[t] EXCEPT !.pc = pc]]
    BY <2>1, <2>11
  <2> QED BY <1>1, <1>2, <2>1, <2>5, <2>10, <2>12, <2>13, <2>14, MoveStep
<1> QED BY <1>3, <1>4

LEMMA IdentifiedStep == ASSUME IInv, NEW t \in Tries, Identified(t) PROVE IInv'
<1>1. /\ try[t].pc = "info" /\ ~try[t].shut /\ Untouched(t) /\ Works(t) /\ try[t].fresh
      /\ Ends(t) /\ UNCHANGED <<gather, recovery>>
  BY DEF Identified, Reads, Untouched, Works
<1>2. PICK s \in Sessions : s = try[t].s
  BY <1>1 DEF IInv, TaskInv, TaskOK
<1>3. PICK i \in Ids : i = obj[s].peer
  BY <1>1, <1>2 DEF IInv, TaskInv, TaskOK
<1>4. PICK old \in Sessions \cup {None} : old = sess[i]
  BY Types
<1>5. /\ sess' = [sess EXCEPT ![i] = s]
      /\ rem' = [rem EXCEPT ![i] = obj[s].addr]
      /\ obj' = [o \in Sessions |-> IF o = s THEN [obj[s] EXCEPT !.id = i, !.read = "yes"]
                                    ELSE IF o = old THEN Blank ELSE obj[o]]
      /\ try' = [Shut(try, old) EXCEPT ![t] = Free]
      /\ old # None => ~Live(old) /\ old \notin Releasing
  BY <1>2, <1>3, <1>4 DEF Identified, Vacant
<1>6. /\ ~Registered(s) /\ \A u \in Tries \ {t} : Works(u) => try[u].s # s
      /\ \A p \in Ops : s \notin op[p].mine
  BY <1>1, <1>2 DEF IInv, FreshInv
<1>7. s # old
  BY <1>4, <1>6, FleetAssumption DEF Registered
<1>8. obj[s] \in Session
  BY Types
<1>9. PICK o : o = [obj[s] EXCEPT !.id = i, !.read = "yes"]
  OBVIOUS
<1>10. /\ o \in Session /\ o.link = obj[s].link /\ o.back = obj[s].back /\ o.id = i
       /\ o.peer = i /\ o.read = "yes"
  BY <1>3, <1>8, <1>9 DEF Session
<1>11. obj' \in [Sessions -> Session]
       /\ \A u \in Sessions : obj'[u] = IF u = s THEN o ELSE IF u = old THEN Blank ELSE obj[u]
  BY <1>5, <1>9, <1>10, FreeFacts, Types
<1>12. sess' \in [Ids -> Sessions \cup {None}] /\ \A j \in Ids : sess'[j] = IF j = i THEN s ELSE sess[j]
  BY <1>5, Types
<1>13. rem' \in [Ids -> Addresses \cup {None}]
  BY <1>5, <1>8, Types DEF Session
<1>14. /\ try' \in [Tries -> Try] /\ try'[t] = Free
       /\ \A u \in Tries \ {t} : /\ SameTask(u)
                                 /\ ~try'[u].shut <=> ~try[u].shut
                                      /\ ~(try[u].s = old /\ try[u].pc \in {"link", "info"})
  <2>1. PICK f : f = Shut(try, old)
    OBVIOUS
  <2>2. /\ f \in [Tries -> Try]
        /\ \A u \in Tries : /\ f[u].pc = try[u].pc /\ f[u].key = try[u].key /\ f[u].s = try[u].s
                            /\ f[u].fresh = try[u].fresh /\ f[u].src = try[u].src
                            /\ f[u].cancel = try[u].cancel
                            /\ ~f[u].shut <=> ~try[u].shut
                                              /\ ~(try[u].s = old /\ try[u].pc \in {"link", "info"})
    BY <2>1, ShutKeeps
  <2>3. try' = [f EXCEPT ![t] = Free]
    BY <1>5, <2>1
  <2> QED BY <2>2, <2>3, FreeFacts DEF SameTask
<1>15. /\ conn' \in [Addresses -> Tries \cup {None}] /\ op' \in [Ops -> Op]
       /\ GoOn /\ SameOps
  BY <1>1, <1>14, EndsKeeps
<1>16. \A u \in Sessions : Registered(u)' => u = s \/ Registered(u)
  BY <1>12 DEF Registered
<1>17. \A u \in Sessions : Registered(u) /\ u # old => Registered(u)'
  BY <1>4, <1>12 DEF Registered
<1>18. Registered(s)'
  BY <1>12 DEF Registered
<1>19. \A u \in Tries : Works(u)' => u # t /\ Works(u) /\ try'[u].s = try[u].s /\ try[u].s \in Sessions \ {s}
  BY <1>6, <1>14, <1>15, FreeFacts DEF GoOn, Works, IInv, TaskInv, TaskOK
<1>20. FreshInv'
  BY <1>15, <1>16, <1>19 DEF IInv, FreshInv, GoOn, SameOps
<1>21. \A j \in Ids : j # i /\ sess[j] # None => sess[j] \in Sessions /\ sess[j] # s /\ sess[j] # old
  BY <1>4, <1>6, Types DEF IInv, IdInv, Registered
<1>22. IdInv'
  BY <1>10, <1>11, <1>12, <1>21 DEF IInv, IdInv
<1>23. SameSensor'
  BY <1>10, <1>11, <1>12, <1>21 DEF IInv, SameSensor
<1>24. StopInv'
  BY <1>1, <1>15, StillStopping DEF SameOps
<1>25. \A u \in Sessions : Live(u)' => Live(u)
  BY <1>10, <1>11, BlankFacts DEF Live
<1>26. RelInv'
  <2>1. StaysReleased' /\ OpsGoOn
    BY <1>15, <1>25, StillDown DEF LiveGoOn
  <2>2. \A p \in Ops : \A u \in op[p].mine : u \in Sessions /\ u # s
    BY <1>6, Types DEF Op
  <2>3. \A p \in Ops : \A u \in op'[p].mine : Registered(u)' => \E q \in Ops : u \in op'[q].marked
    BY <1>15, <1>16, <2>2 DEF SameOps, IInv, RelInv
  <2>4. \A p \in Ops : \A u \in op'[p].mine : \A v \in Tries : Untouched(v)' => try'[v].s # u
    BY <1>15, <1>19 DEF SameOps, GoOn, Untouched, IInv, RelInv
  <2> QED BY <1>15, <2>1, <2>3, <2>4 DEF IInv, RelInv, SameOps, StaysReleased
<1>27. LeftInv'
  <2> SUFFICES ASSUME NEW u \in Tries, Untouched(u)', ~try'[u].fresh
               PROVE  (Registered(try[u].s) \/ obj[try[u].s].id = None)'
    BY DEF LeftInv
  <2>1. /\ Untouched(u) /\ ~try[u].fresh /\ try'[u].s = try[u].s /\ try[u].s \in Sessions \ {s}
    BY <1>15, <1>19 DEF GoOn, Untouched
  <2> QED BY <1>11, <1>17, <2>1, BlankFacts DEF IInv, LeftInv
<1>28. StrayInv'
  <2> SUFFICES ASSUME NEW u \in Sessions, obj'[u].link = "CONNECTED", ~Registered(u)',
                      obj'[u].read # "failed"
               PROVE  \E v \in Tries : try'[v].s = u /\ try'[v].pc = "info" /\ ~try'[v].shut
    BY DEF StrayInv
  <2>1. u # s /\ u # old /\ obj'[u] = obj[u] /\ ~Registered(u)
    BY <1>11, <1>17, <1>18, BlankFacts
  <2>2. PICK v \in Tries : try[v].s = u /\ try[v].pc = "info" /\ ~try[v].shut
    BY <2>1 DEF IInv, StrayInv
  <2> QED BY <1>2, <1>14, <2>1, <2>2 DEF SameTask
<1>29. BackInv'
  BY <1>10, <1>11, BlankFacts DEF IInv, BackInv
<1>30. TaskInv'
  <2> SUFFICES ASSUME NEW u \in Tries
               PROVE  TaskOK(u)'
    BY DEF TaskInv
  <2>1. CASE u = t
    BY <1>14, <2>1, FreeFacts DEF TaskOK, Works, Untouched
  <2>2. CASE u # t
    <3>1. SameTask(u) /\ TaskOK(u)
      BY <1>14, <2>2 DEF IInv, TaskInv
    <3>2. Untouched(u)' => conn'[try[u].key] = u
      BY <1>15 DEF GoOn
    <3>3. try'[u].pc \in {"link", "info"} /\ ~try'[u].shut =>
            ~try[u].shut /\ obj'[try'[u].s] = obj[try[u].s]
      BY <1>11, <1>14, <1>19, <2>2, <3>1 DEF SameTask, Works
    <3>4. \A v \in Tries : try'[u].pc = "link" /\ try'[v].pc = "link" /\ ~try'[u].shut /\ ~try'[v].shut
                             /\ try'[u].s = try'[v].s => u = v
      BY <1>14, <2>2, <3>1, FreeFacts DEF TaskOK, SameTask
    <3>5. try'[u].pc = "start" => ~try'[u].shut
      BY <1>14, <2>2, <3>1 DEF TaskOK, SameTask
    <3> QED BY <3>1, <3>2, <3>3, <3>4, <3>5 DEF TaskOK, SameTask, Works, Untouched
  <2> QED BY <2>1, <2>2
<1>31. TypeOK'
  BY <1>1, <1>11, <1>12, <1>13, <1>14, <1>15, Types DEF TypeOK
<1> QED BY <1>20, <1>22, <1>23, <1>24, <1>26, <1>27, <1>28, <1>29, <1>30, <1>31 DEF IInv

-----------------------------------------------------------------------------
(* Tasks that are made *)

LEMMA SpawnStep ==
  ASSUME IInv, NEW a \in Addresses, NEW s \in Sessions, NEW src \in {"gather", "recovery"},
         NEW fresh \in BOOLEAN, conn[a] = None, Spawn(a, s, src, fresh),
         UNCHANGED <<obj, sess, rem, gather, recovery, op>>,
         src = "gather" => gather, \A p \in Ops : s \notin op[p].mine,
         fresh => \A t \in Tries : try[t].s # s,
         Registered(s) <=> ~fresh
  PROVE  IInv'
<1>1. PICK t \in Tries :
        /\ try[t].pc = "free"
        /\ try' = [try EXCEPT ![t] = [Free EXCEPT !.pc = "start", !.key = a, !.s = s,
                                                  !.fresh = fresh, !.src = src]]
        /\ conn' = [conn EXCEPT ![a] = t]
  BY DEF Spawn
<1>2. PICK r : r = [Free EXCEPT !.pc = "start", !.key = a, !.s = s, !.fresh = fresh, !.src = src]
  OBVIOUS
<1>3. /\ r \in Try /\ r.pc = "start" /\ r.key = a /\ r.s = s /\ r.fresh = fresh /\ r.src = src
      /\ r.cancel = "no" /\ ~r.shut
  BY <1>2 DEF Free, Try
<1>4. try' \in [Tries -> Try] /\ \A u \in Tries : try'[u] = IF u = t THEN r ELSE try[u]
  BY <1>1, <1>2, <1>3, Types
<1>5. conn' \in [Addresses -> Tries \cup {None}] /\ \A b \in Addresses : conn'[b] = IF b = a THEN t ELSE conn[b]
  BY <1>1, Types
<1>6. \A u \in Tries : Registered(try[u].s)' <=> Registered(try'[u].s)
  BY DEF Registered
<1>7. TaskInv'
  <2> SUFFICES ASSUME NEW u \in Tries
               PROVE  TaskOK(u)'
    BY DEF TaskInv
  <2>1. CASE u = t
    BY <1>3, <1>4, <1>5, <2>1 DEF TaskOK, Works, Untouched
  <2>2. CASE u # t
    <3>1. try'[u] = try[u] /\ TaskOK(u)
      BY <1>4, <2>2 DEF IInv, TaskInv
    <3>2. Untouched(u)' => conn'[try[u].key] = u
      BY <1>5, <3>1, FleetAssumption DEF TaskOK, Untouched, Works
    <3>3. \A v \in Tries : try'[v].pc = "link" => try'[v] = try[v]
      BY <1>3, <1>4
    <3> QED BY <3>1, <3>2, <3>3 DEF TaskOK, Works, Untouched
  <2> QED BY <2>1, <2>2
<1>8. FreshInv'
  <2> SUFFICES ASSUME NEW u \in Tries, Works(u)', try'[u].fresh
               PROVE  /\ ~Registered(try'[u].s)
                      /\ \A p \in Ops : try'[u].s \notin op'[p].mine
                      /\ \A v \in Tries : Works(v)' /\ try'[v].s = try'[u].s => v = u
    BY <1>6 DEF FreshInv
  <2>1. CASE u = t
    BY <1>3, <1>4, <2>1
  <2>2. CASE u # t
    <3>1. try'[u] = try[u] /\ Works(u)
      BY <1>4, <2>2 DEF Works
    <3>2. /\ ~Registered(try[u].s) /\ \A p \in Ops : try[u].s \notin op[p].mine
          /\ \A v \in Tries : Works(v) /\ try[v].s = try[u].s => v = u
      BY <3>1 DEF IInv, FreshInv
    <3>3. try[u].s # s
      BY <3>2
    <3> QED BY <1>3, <1>4, <3>1, <3>2, <3>3 DEF Works
  <2> QED BY <2>1, <2>2
<1>9. StopInv'
  BY <1>3, <1>4 DEF IInv, StopInv, Untouched, Works
<1>10. RelInv'
  <2>1. \A p \in Ops : \A x \in op[p].mine : \A u \in Tries : Untouched(u)' => try'[u].s # x
    BY <1>3, <1>4 DEF IInv, RelInv, Untouched, Works
  <2> QED BY <2>1 DEF IInv, RelInv, Live, Registered
<1>11. LeftInv'
  <2> SUFFICES ASSUME NEW u \in Tries, Untouched(u)', ~try'[u].fresh
               PROVE  Registered(try'[u].s) \/ obj[try'[u].s].id = None
    BY <1>6 DEF LeftInv
  <2>1. CASE u = t
    BY <1>3, <1>4, <2>1
  <2>2. CASE u # t
    BY <1>4, <2>2 DEF IInv, LeftInv, Untouched, Works
  <2> QED BY <2>1, <2>2
<1>12. StrayInv'
  BY <1>1, <1>4 DEF IInv, StrayInv, Registered
<1>13. BackInv' /\ IdInv' /\ SameSensor'
  BY DEF IInv, BackInv, IdInv, SameSensor
<1>14. TypeOK'
  BY <1>4, <1>5, Types DEF TypeOK
<1> QED BY <1>7, <1>8, <1>9, <1>10, <1>11, <1>12, <1>13, <1>14 DEF IInv

LEMMA NotReleasing ==
  ASSUME IInv, NEW s, Registered(s), s \notin Releasing
  PROVE  \A p \in Ops : s \notin op[p].mine
BY DEF IInv, RelInv, Releasing

LEMMA KnownRegistered == ASSUME NEW s \in Sessions PROVE s \in Known <=> Registered(s)
BY FleetAssumption DEF Known, Registered

LEMMA GatherSeesStep == ASSUME IInv, NEW a \in Addresses, GatherSees(a) PROVE IInv'
<1>1. /\ gather /\ conn[a] = None /\ UNCHANGED <<obj, sess, rem, gather, recovery, op>>
      /\ \A s \in Releasing : obj[s].addr # a
  BY DEF GatherSees
<1>2. PICK s \in Sessions :
        \/ Unused(s) /\ Spawn(a, s, "gather", TRUE)
        \/ s \in Known /\ obj[s].addr = a /\ Spawn(a, s, "gather", FALSE)
  BY DEF GatherSees
<1>3. CASE Unused(s) /\ Spawn(a, s, "gather", TRUE)
  <2>1. /\ ~Registered(s) /\ \A t \in Tries : try[t].s # s
        /\ \A p \in Ops : s \notin op[p].mine
    BY <1>3, KnownRegistered DEF Unused
  <2> QED BY <1>1, <1>3, <2>1, SpawnStep
<1>4. CASE s \in Known /\ obj[s].addr = a /\ Spawn(a, s, "gather", FALSE)
  <2>1. Registered(s) /\ s \notin Releasing
    BY <1>1, <1>4, KnownRegistered
  <2>2. \A p \in Ops : s \notin op[p].mine
    BY <2>1, NotReleasing
  <2> QED BY <1>1, <1>4, <2>1, <2>2, SpawnStep
<1> QED BY <1>2, <1>3, <1>4

LEMMA RecoverySeesStep == ASSUME IInv, NEW a \in Addresses, RecoverySees(a) PROVE IInv'
<1>1. conn[a] = None /\ UNCHANGED <<obj, sess, rem, gather, recovery, op>>
  BY DEF RecoverySees
<1>2. PICK i \in Ids : /\ sess[i] # None /\ sess[i] \notin Releasing
                       /\ Spawn(a, sess[i], "recovery", FALSE)
  BY DEF RecoverySees
<1>3. PICK s \in Sessions : s = sess[i]
  BY <1>2, Types
<1>4. Registered(s) /\ s \notin Releasing
  BY <1>2, <1>3 DEF Registered
<1>5. \A p \in Ops : s \notin op[p].mine
  BY <1>4, NotReleasing
<1> QED BY <1>1, <1>2, <1>3, <1>4, <1>5, SpawnStep

-----------------------------------------------------------------------------
(* Calls *)

\* A call goes on, and the tasks are at most cancelled.
LEMMA CallStep ==
  ASSUME IInv, GoOn, StaysReleased', StopInv', FreshInv', RelInv',
         UNCHANGED <<obj, sess>>, rem' \in [Ids -> Addresses \cup {None}],
         gather' \in BOOLEAN, recovery' \in BOOLEAN, try' \in [Tries -> Try],
         conn' \in [Addresses -> Tries \cup {None}], op' \in [Ops -> Op],
         \A t \in Tries : /\ try'[t].pc = try[t].pc /\ try'[t].key = try[t].key
                          /\ try'[t].s = try[t].s /\ try'[t].fresh = try[t].fresh
                          /\ try'[t].shut = try[t].shut
  PROVE  IInv'
<1>1. BackInv' /\ IdInv' /\ SameSensor'
  BY DEF IInv, BackInv, IdInv, SameSensor
<1>2. StrayInv'
  BY DEF IInv, StrayInv, Registered
<1>3. TaskInv'
  <2> SUFFICES ASSUME NEW t \in Tries
               PROVE  TaskOK(t)'
    BY DEF TaskInv
  <2>1. TaskOK(t) /\ (Untouched(t)' => conn'[try'[t].key] = t)
    BY DEF IInv, TaskInv, GoOn, Untouched
  <2> QED BY <2>1 DEF TaskOK, Works, Untouched
<1>4. LeftInv'
  <2> SUFFICES ASSUME NEW t \in Tries, Untouched(t)', ~try'[t].fresh
               PROVE  Registered(try[t].s) \/ obj[try[t].s].id = None
    BY DEF LeftInv, Registered
  <2>1. Untouched(t) /\ ~try[t].fresh
    BY DEF GoOn
  <2> QED BY <2>1 DEF IInv, LeftInv
<1>5. TypeOK'
  BY Types DEF TypeOK
<1> QED BY <1>1, <1>2, <1>3, <1>4, <1>5 DEF IInv

\* ... and what is released stays so.
LEMMA PlainCallStep ==
  ASSUME IInv, GoOn, OpsGoOn, StaysReleased', StopInv',
         UNCHANGED <<obj, sess>>, rem' \in [Ids -> Addresses \cup {None}],
         gather' \in BOOLEAN, recovery' \in BOOLEAN, try' \in [Tries -> Try],
         conn' \in [Addresses -> Tries \cup {None}], op' \in [Ops -> Op],
         \A t \in Tries : /\ try'[t].pc = try[t].pc /\ try'[t].key = try[t].key
                          /\ try'[t].s = try[t].s /\ try'[t].fresh = try[t].fresh
                          /\ try'[t].shut = try[t].shut
  PROVE  IInv'
<1>1. ObjGoOn
  BY DEF ObjGoOn
<1>2. FreshInv' /\ RelInv'
  BY <1>1, Quiet
<1> QED BY <1>2, CallStep

\* Call p goes on as r, and is no release.
LEMMA OneCall ==
  ASSUME IInv, NEW p \in Ops, NEW r \in Op, op' = [op EXCEPT ![p] = r],
         op[p].pc \notin {"freed", "closing"}, r.pc \notin {"freed", "closing"},
         r.mine = {}, r.marked = {}, UNCHANGED obj
  PROVE  /\ op' \in [Ops -> Op] /\ OpsGoOn /\ StaysReleased'
         /\ \A q \in Ops : op'[q] = IF q = p THEN r ELSE op[q]
<1>1. op' \in [Ops -> Op] /\ \A q \in Ops : op'[q] = IF q = p THEN r ELSE op[q]
  BY Types
<1>2. op[p].mine = {} /\ op[p].marked = {}
  BY DEF IInv, RelInv
<1>3. OpsGoOn
  BY <1>1, <1>2 DEF OpsGoOn
<1>4. StaysReleased'
  BY <1>1 DEF StaysReleased, IInv, RelInv, Live
<1> QED BY <1>1, <1>3, <1>4

LEMMA SameTry ==
  ASSUME IInv, UNCHANGED <<try, conn>>
  PROVE  /\ GoOn /\ try' \in [Tries -> Try] /\ conn' \in [Addresses -> Tries \cup {None}]
         /\ \A t \in Tries : /\ try'[t].pc = try[t].pc /\ try'[t].key = try[t].key
                             /\ try'[t].s = try[t].s /\ try'[t].fresh = try[t].fresh
                             /\ try'[t].shut = try[t].shut
<1>1. GoOn
  BY SameTasks DEF SameTask
<1> QED BY <1>1, Types

LEMMA IdleFacts == Idle \in Op /\ Idle.pc = "idle" /\ Idle.mine = {} /\ Idle.marked = {}
BY DEF Idle, Op

\* Every task of the loop that nobody cancelled is under a key of the loop.
LEMMA FoundThere ==
  ASSUME IInv, NEW t \in Tries, Untouched(t)
  PROVE  try[t].key \in From(try[t].src)
BY FleetAssumption DEF IInv, TaskInv, TaskOK, Untouched, From

LEMMA EndsGatherStep ==
  ASSUME IInv, NEW p \in Ops, op[p].pc \in {"idle", "recovery"},
         NEW kind \in {"stop", "aclose"}, NEW finish \in BOOLEAN, EndsGather(p, kind, finish),
         UNCHANGED <<obj, sess, rem, recovery>>
  PROVE  IInv'
<1>1. PICK keys \in SUBSET Addresses : keys = From("gather")
  BY DEF From
<1>2. PICK pc \in {"pending", "stopped"} : pc = IF finish THEN "pending" ELSE "stopped"
  OBVIOUS
<1>3. PICK r : r = [Idle EXCEPT !.pc = pc, !.kind = kind, !.keys = keys, !.waits = TasksAt(keys)]
  OBVIOUS
<1>4. TasksAt(keys) \in SUBSET Tries
  BY Types DEF TasksAt
<1>5. r \in Op /\ r.pc = pc /\ r.keys = keys /\ r.mine = {} /\ r.marked = {}
  BY <1>3, <1>4 DEF Idle, Op
<1>6. op' = [op EXCEPT ![p] = r] /\ gather' = FALSE
  BY <1>1, <1>2, <1>3 DEF EndsGather
<1>7. /\ op' \in [Ops -> Op] /\ OpsGoOn /\ StaysReleased'
      /\ \A q \in Ops : op'[q] = IF q = p THEN r ELSE op[q]
  BY <1>5, <1>6, OneCall
<1>8. rem' \in [Ids -> Addresses \cup {None}] /\ recovery' \in BOOLEAN
  BY Types
<1>9. CASE finish
  <2>1. UNCHANGED <<try, conn>>
    BY <1>9 DEF EndsGather
  <2>2. StopInv'
    <3> SUFFICES ASSUME NEW t \in Tries, Untouched(t)', try'[t].src = "gather"
                 PROVE  \E q \in Ops : op'[q].pc = "pending" /\ try'[t].key \in op'[q].keys
      BY DEF StopInv
    <3>1. Untouched(t) /\ try[t].src = "gather"
      BY <2>1 DEF Untouched, Works
    <3>2. try[t].key \in keys
      BY <1>1, <3>1, FoundThere
    <3> QED BY <1>2, <1>5, <1>7, <1>9, <2>1, <3>2
  <2> QED BY <1>6, <1>7, <1>8, <2>1, <2>2, SameTry, PlainCallStep
<1>10. CASE ~finish
  <2>1. CancelConnects(keys, "stop")
    BY <1>1, <1>10 DEF EndsGather
  <2>2. /\ conn' \in [Addresses -> Tries \cup {None}] /\ try' \in [Tries -> Try]
        /\ GoOn
        /\ \A t \in Tries : /\ try'[t].pc = try[t].pc /\ try'[t].key = try[t].key
                            /\ try'[t].s = try[t].s /\ try'[t].fresh = try[t].fresh
                            /\ try'[t].shut = try[t].shut
                            /\ Untouched(t)' => try[t].key \notin keys
    BY <2>1, CancelKeeps
  <2>3. \A t \in Tries : Untouched(t)' => try'[t].src # "gather"
    <3> SUFFICES ASSUME NEW t \in Tries, Untouched(t)'
                 PROVE  try'[t].src # "gather"
      OBVIOUS
    <3>1. Untouched(t) /\ try'[t].src = try[t].src
      BY <2>2 DEF GoOn, Untouched
    <3>2. try[t].key \in From(try[t].src)
      BY <3>1, FoundThere
    <3> QED BY <1>1, <2>2, <3>1, <3>2
  <2>4. StopInv'
    BY <2>3 DEF StopInv
  <2> QED BY <1>6, <1>7, <1>8, <2>2, <2>4, PlainCallStep
<1> QED BY <1>9, <1>10

LEMMA StopGatherStep ==
  ASSUME IInv, NEW p \in Ops, NEW finish \in BOOLEAN, StopGather(p, finish)
  PROVE  IInv'
BY EndsGatherStep DEF StopGather

LEMMA AcloseStopsStep == ASSUME IInv, NEW p \in Ops, AcloseStops(p) PROVE IInv'
BY EndsGatherStep DEF AcloseStops

LEMMA StartGatherStep == ASSUME IInv, StartGather PROVE IInv'
<1>1. gather' = TRUE /\ UNCHANGED <<obj, sess, rem, try, conn, recovery, op>>
  BY DEF StartGather
<1>2. StaysReleased' /\ OpsGoOn
  BY <1>1, StillDown DEF SameOps, LiveGoOn, Live
<1>3. StopInv'
  BY <1>1 DEF StopInv
<1> QED BY <1>1, <1>2, <1>3, SameTry, PlainCallStep, Types

LEMMA PendingDoneStep == ASSUME IInv, NEW p \in Ops, PendingDone(p) PROVE IInv'
<1>1. PICK keys \in SUBSET Addresses : keys = op[p].keys
  BY Types DEF Op
<1>2. /\ op[p].pc = "pending" /\ CancelConnects(keys, "stop")
      /\ op' = [op EXCEPT ![p] = [op[p] EXCEPT !.pc = "stopped", !.waits = TasksAt(keys)]]
      /\ UNCHANGED <<obj, sess, rem, gather, recovery>>
  BY <1>1, Types DEF PendingDone
<1>3. /\ conn' \in [Addresses -> Tries \cup {None}] /\ try' \in [Tries -> Try]
      /\ GoOn /\ TasksAt(keys) \in SUBSET Tries
      /\ \A t \in Tries : /\ try'[t].pc = try[t].pc /\ try'[t].key = try[t].key
                          /\ try'[t].s = try[t].s /\ try'[t].fresh = try[t].fresh
                          /\ try'[t].shut = try[t].shut
                          /\ Untouched(t)' => try[t].key \notin keys
  BY <1>2, CancelKeeps
<1>4. PICK r : r = [op[p] EXCEPT !.pc = "stopped", !.waits = TasksAt(keys)]
  OBVIOUS
<1>5. op[p] \in Op /\ op[p].mine = {} /\ op[p].marked = {}
  BY <1>2, Types DEF IInv, RelInv
<1>6. r \in Op /\ r.pc = "stopped" /\ r.mine = {} /\ r.marked = {}
  BY <1>3, <1>4, <1>5 DEF Op
<1>7. op' = [op EXCEPT ![p] = r]
  BY <1>2, <1>4
<1>8. /\ op' \in [Ops -> Op] /\ OpsGoOn /\ StaysReleased'
      /\ \A q \in Ops : op'[q] = IF q = p THEN r ELSE op[q]
  BY <1>2, <1>6, <1>7, OneCall
<1>9. StopInv'
  <2> SUFFICES ASSUME ~gather, NEW t \in Tries, Untouched(t)', try'[t].src = "gather"
               PROVE  \E q \in Ops : op'[q].pc = "pending" /\ try'[t].key \in op'[q].keys
    BY <1>2 DEF StopInv
  <2>1. Untouched(t) /\ try[t].src = "gather" /\ try[t].key \notin keys
    BY <1>3 DEF GoOn, Untouched
  <2>2. PICK q \in Ops : op[q].pc = "pending" /\ try[t].key \in op[q].keys
    BY <2>1 DEF IInv, StopInv
  <2>3. op'[q] = op[q]
    BY <1>1, <1>8, <2>1, <2>2
  <2> QED BY <1>3, <2>2, <2>3
<1> QED BY <1>2, <1>3, <1>8, <1>9, Types, PlainCallStep

LEMMA StoppedStep == ASSUME IInv, NEW p \in Ops, Stopped(p) PROVE IInv'
<1>1. /\ op[p].pc = "stopped" /\ op' = [op EXCEPT ![p] = Idle]
      /\ UNCHANGED <<obj, sess, rem, try, conn, gather, recovery>>
  BY DEF Stopped
<1>2. /\ op' \in [Ops -> Op] /\ OpsGoOn /\ StaysReleased'
      /\ \A q \in Ops : op'[q] = IF q = p THEN Idle ELSE op[q]
  BY <1>1, IdleFacts, OneCall
<1>3. StopInv'
  BY <1>1, <1>2, SameTry, StillStopping
<1> QED BY <1>1, <1>2, <1>3, SameTry, Types, PlainCallStep

LEMMA AcloseStep == ASSUME IInv, NEW p \in Ops, Aclose(p) PROVE IInv'
<1>1. PICK keys : keys = From("recovery")
  OBVIOUS
<1>2. /\ op[p].pc = "idle" /\ recovery' = FALSE /\ CancelConnects(keys, "aclose")
      /\ UNCHANGED <<obj, sess, rem, gather>>
  BY <1>1 DEF Aclose
<1>3. /\ conn' \in [Addresses -> Tries \cup {None}] /\ try' \in [Tries -> Try]
      /\ GoOn /\ TasksAt(keys) \in SUBSET Tries
      /\ \A t \in Tries : /\ try'[t].pc = try[t].pc /\ try'[t].key = try[t].key
                          /\ try'[t].s = try[t].s /\ try'[t].fresh = try[t].fresh
                          /\ try'[t].shut = try[t].shut
  BY <1>2, CancelKeeps
<1>4. PICK r : r = [Idle EXCEPT !.pc = "recovery", !.kind = "aclose", !.waits = TasksAt(keys)]
  OBVIOUS
<1>5. r \in Op /\ r.pc = "recovery" /\ r.mine = {} /\ r.marked = {}
  BY <1>3, <1>4 DEF Idle, Op
<1>6. op' = [op EXCEPT ![p] = r]
  BY <1>1, <1>4 DEF Aclose
<1>7. /\ op' \in [Ops -> Op] /\ OpsGoOn /\ StaysReleased'
      /\ \A q \in Ops : op'[q] = IF q = p THEN r ELSE op[q]
  BY <1>2, <1>5, <1>6, OneCall
<1>8. StopInv'
  BY <1>2, <1>3, <1>7, StillStopping
<1> QED BY <1>2, <1>3, <1>7, <1>8, Types, PlainCallStep

LEMMA ReleasesStep ==
  ASSUME IInv, NEW p \in Ops, op[p].pc \in {"idle", "stopped"},
         NEW ids \in SUBSET Ids, \A i \in ids : sess[i] # None,
         NEW all \in BOOLEAN, NEW kind \in {"release", "aclose"}, Releases(p, ids, all, kind),
         UNCHANGED <<obj, sess, gather, recovery>>, rem' \in [Ids -> Addresses \cup {None}]
  PROVE  IInv'
<1>1. PICK mine : mine = {sess[i] : i \in ids}
  OBVIOUS
<1>2. PICK keys : keys = IF all THEN {a \in Addresses : conn[a] # None}
                         ELSE {a \in Addresses : conn[a] # None /\ try[conn[a]].s \in mine}
                              \cup {obj[s].addr : s \in mine}
  OBVIOUS
<1>3. PICK r : r = [Idle EXCEPT !.pc = "freed", !.kind = kind, !.all = all,
                                !.waits = TasksAt(keys), !.mine = mine,
                                !.marked = mine \ Releasing]
  OBVIOUS
<1>4. CancelConnects(keys, kind) /\ op' = [op EXCEPT ![p] = r]
  BY <1>1, <1>2, <1>3 DEF Releases
<1>5. /\ conn' \in [Addresses -> Tries \cup {None}] /\ try' \in [Tries -> Try]
      /\ GoOn /\ TasksAt(keys) \in SUBSET Tries
      /\ \A t \in Tries : /\ try'[t].pc = try[t].pc /\ try'[t].key = try[t].key
                          /\ try'[t].s = try[t].s /\ try'[t].fresh = try[t].fresh
                          /\ try'[t].shut = try[t].shut
                          /\ Untouched(t)' => try[t].key \notin keys
  BY <1>4, CancelKeeps
<1>6. mine \in SUBSET Sessions /\ \A s \in mine : Registered(s)
  BY <1>1, Types DEF Registered
<1>7. /\ r \in Op /\ r.pc = "freed" /\ r.mine = mine /\ r.marked = mine \ Releasing
  BY <1>3, <1>5, <1>6 DEF Idle, Op
<1>8. op' \in [Ops -> Op] /\ \A q \in Ops : op'[q] = IF q = p THEN r ELSE op[q]
  BY <1>4, <1>7, Types
<1>9. op[p].mine = {} /\ op[p].marked = {}
  BY DEF IInv, RelInv
<1>10. StaysReleased'
  BY <1>7, <1>8 DEF StaysReleased, IInv, RelInv, Live
<1>11. StopInv'
  BY <1>5, <1>8, StillStopping
<1>12. FreshInv'
  <2> SUFFICES ASSUME NEW t \in Tries, Works(t)', try'[t].fresh
               PROVE  /\ ~Registered(try'[t].s)
                      /\ \A q \in Ops : try'[t].s \notin op'[q].mine
                      /\ \A u \in Tries : Works(u)' /\ try'[u].s = try'[t].s => u = t
    BY DEF FreshInv, Registered
  <2>1. Works(t) /\ try[t].fresh /\ try'[t].s = try[t].s
    BY <1>5 DEF Works
  <2>2. /\ ~Registered(try[t].s) /\ \A q \in Ops : try[t].s \notin op[q].mine
        /\ \A u \in Tries : Works(u) /\ try[u].s = try[t].s => u = t
    BY <2>1 DEF IInv, FreshInv
  <2>3. \A q \in Ops : try[t].s \notin op'[q].mine
    BY <1>6, <1>7, <1>8, <2>2
  <2> QED BY <1>5, <2>1, <2>2, <2>3 DEF Works
<1>13. \A t \in Tries : Untouched(t)' => try'[t].s \notin mine
  <2> SUFFICES ASSUME NEW t \in Tries, Untouched(t)', try[t].s \in mine
               PROVE  FALSE
    BY <1>5
  <2>1. Untouched(t) /\ try[t].key \notin keys
    BY <1>5 DEF GoOn
  <2>2. try[t].key \in Addresses /\ conn[try[t].key] = t /\ t # None
    BY <2>1, FleetAssumption DEF IInv, TaskInv, TaskOK, Untouched
  <2> QED BY <1>2, <2>1, <2>2
<1>14. RelInv'
  <2> SUFFICES ASSUME NEW q \in Ops
               PROVE  /\ op'[q].pc \notin {"freed", "closing"} => op'[q].mine = {}
                      /\ op'[q].marked \subseteq op'[q].mine
                      /\ \A s \in op'[q].mine :
                           /\ \A t \in Tries : Untouched(t)' => try'[t].s # s
                           /\ Registered(s) => \E x \in Ops : s \in op'[x].marked
                      /\ op'[q].pc = "closing" => \A s \in op'[q].mine \ op'[q].todo : ~Live(s)'
    BY DEF RelInv, Registered
  <2>1. op'[q].pc = "closing" => \A s \in op'[q].mine \ op'[q].todo : ~Live(s)'
    BY <1>10 DEF StaysReleased
  <2>2. ASSUME NEW s, \E x \in Ops : s \in op[x].marked
        PROVE  \E x \in Ops : s \in op'[x].marked
    BY <1>8, <1>9, <2>2
  <2>3. CASE q = p
    <3>1. \A s \in mine : \E x \in Ops : s \in op'[x].marked
      BY <1>7, <1>8, <2>2 DEF Releasing
    <3> QED BY <1>7, <1>8, <1>13, <2>1, <2>3, <3>1
  <2>4. CASE q # p
    <3>1. op'[q] = op[q]
      BY <1>8, <2>4
    <3>2. \A s \in op[q].mine : \A t \in Tries : Untouched(t)' => try'[t].s # s
      BY <1>5 DEF IInv, RelInv, GoOn
    <3>3. \A s \in op[q].mine : Registered(s) => \E x \in Ops : s \in op'[x].marked
      BY <2>2 DEF IInv, RelInv
    <3> QED BY <2>1, <3>1, <3>2, <3>3 DEF IInv, RelInv
  <2> QED BY <2>3, <2>4
<1> QED BY <1>5, <1>8, <1>10, <1>11, <1>12, <1>14, Types, CallStep

LEMMA ReleaseStep ==
  ASSUME IInv, NEW p \in Ops, NEW ids \in SUBSET Ids, NEW all \in BOOLEAN, Release(p, ids, all)
  PROVE  IInv'
<1>1. rem' \in [Ids -> Addresses \cup {None}]
  BY Types DEF Release
<1> QED BY <1>1, ReleasesStep DEF Release

LEMMA AcloseReleasesStep == ASSUME IInv, NEW p \in Ops, AcloseReleases(p) PROVE IInv'
<1>1. PICK ids \in SUBSET Ids : ids = {i \in Ids : sess[i] # None}
  OBVIOUS
<1>2. rem' \in [Ids -> Addresses \cup {None}]
  BY Types DEF AcloseReleases
<1> QED BY <1>1, <1>2, ReleasesStep DEF AcloseReleases

LEMMA OpCloses ==
  ASSUME NEW o \in Op, NEW d \in SUBSET Sessions
  PROVE  [o EXCEPT !.pc = "closing", !.todo = d] \in Op
BY DEF Op

LEMMA FreedStep == ASSUME IInv, NEW p \in Ops, Freed(p) PROVE IInv'
<1>1. PICK todo : todo = op[p].mine \cup IF op[p].all THEN Unidentified ELSE {}
  OBVIOUS
<1>2. PICK r : r = [op[p] EXCEPT !.pc = "closing", !.todo = todo]
  OBVIOUS
<1>3. /\ op[p].pc = "freed" /\ op' = [op EXCEPT ![p] = r]
      /\ UNCHANGED <<obj, sess, rem, try, conn, gather, recovery>>
  BY <1>1, <1>2 DEF Freed
<1>4. Unidentified \in SUBSET Sessions
  BY Types DEF Unidentified, Try
<1>5. todo \in SUBSET Sessions /\ op[p].mine \subseteq todo
  BY <1>1, <1>4, Types DEF Op
<1>6. /\ r \in Op /\ r.pc = "closing" /\ r.todo = todo /\ r.mine = op[p].mine
      /\ r.marked = op[p].marked
  <2>1. PICK o \in Op : o = op[p]
    BY Types
  <2>2. r = [o EXCEPT !.pc = "closing", !.todo = todo]
    BY <1>2, <2>1
  <2>3. r \in Op
    BY <1>5, <2>2, OpCloses
  <2>4. r.pc = "closing" /\ r.todo = todo /\ r.mine = o.mine /\ r.marked = o.marked
    BY <2>2 DEF Op
  <2>5. QED
    BY <2>1, <2>3, <2>4
<1>7. op' \in [Ops -> Op] /\ \A q \in Ops : op'[q] = IF q = p THEN r ELSE op[q]
  BY <1>3, <1>6, Types
<1>8. OpsGoOn
  BY <1>3, <1>6, <1>7 DEF OpsGoOn
<1>9. StaysReleased'
  BY <1>3, <1>5, <1>6, <1>7 DEF StaysReleased, IInv, RelInv, Live
<1>10. StopInv'
  BY <1>3, <1>7, SameTry, StillStopping
<1> QED BY <1>3, <1>7, <1>8, <1>9, <1>10, SameTry, Types, PlainCallStep

LEMMA ReleasedStep == ASSUME IInv, NEW p \in Ops, Released(p) PROVE IInv'
<1>1. PICK mine \in SUBSET Sessions : mine = op[p].mine
  BY Types DEF Op
<1>2. /\ op[p].pc = "closing" /\ op[p].todo = {}
      /\ sess' = [i \in Ids |-> IF sess[i] \in mine THEN None ELSE sess[i]]
      /\ obj' = [s \in Sessions |-> IF s \in mine THEN [obj[s] EXCEPT !.addr = None] ELSE obj[s]]
      /\ op' = [op EXCEPT ![p] = Idle]
      /\ UNCHANGED <<rem, try, conn, gather, recovery>>
  BY <1>1 DEF Released
<1>3. \A s \in Sessions :
        /\ obj'[s] \in Session /\ obj'[s].link = obj[s].link /\ obj'[s].back = obj[s].back
        /\ obj'[s].id = obj[s].id /\ obj'[s].peer = obj[s].peer /\ obj'[s].read = obj[s].read
  <2> TAKE s \in Sessions
  <2>1. obj[s] \in Session
    BY Types
  <2>2. obj'[s] = IF s \in mine THEN [obj[s] EXCEPT !.addr = None] ELSE obj[s]
    BY <1>2
  <2> QED BY <2>1, <2>2 DEF Session
<1>4. obj' \in [Sessions -> Session]
  BY <1>2, <1>3
<1>5. sess' \in [Ids -> Sessions \cup {None}]
  BY <1>2, Types
<1>6. op' \in [Ops -> Op] /\ \A q \in Ops : op'[q] = IF q = p THEN Idle ELSE op[q]
  BY <1>2, IdleFacts, Types
<1>7. \A s \in Sessions : Registered(s)' <=> Registered(s) /\ s \notin mine
  BY <1>2, FleetAssumption DEF Registered
<1>8. FreshInv'
  <2> SUFFICES ASSUME NEW t \in Tries, Works(t), try[t].fresh
               PROVE  /\ ~Registered(try[t].s)'
                      /\ \A q \in Ops : try[t].s \notin op'[q].mine
                      /\ \A u \in Tries : Works(u) /\ try[u].s = try[t].s => u = t
    BY <1>2 DEF FreshInv, Works, Registered
  <2>1. try[t].s \in Sessions
    BY DEF IInv, TaskInv, TaskOK
  <2>2. ~Registered(try[t].s)'
    <3>1. try'[t].s = try[t].s
      BY <1>2
    <3>2. ~Registered(try[t].s)
      BY DEF IInv, FreshInv
    <3> QED BY <1>7, <2>1, <3>1, <3>2 DEF Registered
  <2> QED BY <1>6, <2>2, IdleFacts DEF IInv, FreshInv
<1>9. TaskInv'
  <2> SUFFICES ASSUME NEW t \in Tries
               PROVE  TaskOK(t)'
    BY DEF TaskInv
  <2>1. TaskOK(t)
    BY DEF IInv, TaskInv
  <2>2. Works(t) => obj'[try[t].s].link = obj[try[t].s].link /\ obj'[try[t].s].peer = obj[try[t].s].peer
    BY <1>3, <2>1 DEF TaskOK
  <2> QED BY <1>2, <2>1, <2>2 DEF TaskOK, Works, Untouched
<1>10. BackInv'
  BY <1>3 DEF IInv, BackInv
<1>11. IdInv' /\ SameSensor'
  BY <1>2, <1>3, Types DEF IInv, IdInv, SameSensor
<1>12. StopInv'
  BY <1>2, <1>6, SameTry, StillStopping
<1>13. RelInv'
  <2> SUFFICES ASSUME NEW q \in Ops, q # p
               PROVE  /\ op[q].pc \notin {"freed", "closing"} => op[q].mine = {}
                      /\ op[q].marked \subseteq op[q].mine
                      /\ \A s \in op[q].mine :
                           /\ \A t \in Tries : Untouched(t) => try[t].s # s
                           /\ Registered(s)' => \E x \in Ops : s \in op'[x].marked
                      /\ op[q].pc = "closing" => \A s \in op[q].mine \ op[q].todo : ~Live(s)'
    BY <1>2, <1>6, IdleFacts DEF RelInv, Untouched, Works
  <2>1. op[q].mine \subseteq Sessions
    BY Types DEF Op
  <2>2. ASSUME NEW s \in op[q].mine, Registered(s)'
        PROVE  \E x \in Ops : s \in op'[x].marked
    <3>1. Registered(s) /\ s \notin mine
      BY <1>7, <2>1, <2>2
    <3>2. PICK x \in Ops : s \in op[x].marked
      BY <3>1 DEF IInv, RelInv
    <3>3. x # p
      BY <1>1, <3>1, <3>2 DEF IInv, RelInv
    <3> QED BY <1>6, <3>2, <3>3
  <2>3. \A s \in Sessions : Live(s)' <=> Live(s)
    BY <1>3 DEF Live
  <2> QED BY <2>1, <2>2, <2>3 DEF IInv, RelInv
<1>14. LeftInv'
  <2> SUFFICES ASSUME NEW t \in Tries, Untouched(t), ~try[t].fresh
               PROVE  (Registered(try[t].s) \/ obj[try[t].s].id = None)'
    BY <1>2 DEF LeftInv, Untouched, Works, Registered
  <2>1. try[t].s \in Sessions /\ try[t].s \notin mine
    BY <1>1 DEF IInv, TaskInv, TaskOK, RelInv, Untouched
  <2>2. PICK s \in Sessions : s = try[t].s
    BY <2>1
  <2>3. Registered(s)' \/ obj'[s].id = None
    BY <1>3, <1>7, <2>1, <2>2 DEF IInv, LeftInv
  <2> QED BY <1>2, <2>2, <2>3 DEF Registered
<1>15. StrayInv'
  <2> SUFFICES ASSUME NEW s \in Sessions, obj'[s].link = "CONNECTED"
               PROVE  \/ Registered(s)'
                      \/ obj'[s].read = "failed"
                      \/ \E t \in Tries : try[t].s = s /\ try[t].pc = "info" /\ ~try[t].shut
    BY <1>2 DEF StrayInv
  <2>1. s \notin mine
    BY <1>1, <1>2, <1>3 DEF IInv, RelInv, Live
  <2> QED BY <1>3, <1>7, <2>1 DEF IInv, StrayInv
<1>16. TypeOK'
  BY <1>2, <1>4, <1>5, <1>6, Types DEF TypeOK
<1> QED BY <1>8, <1>9, <1>10, <1>11, <1>12, <1>13, <1>14, <1>15, <1>16 DEF IInv

-----------------------------------------------------------------------------
(* The invariant *)

LEMMA InitInv == ASSUME Init PROVE IInv
<1>1. /\ obj = [s \in Sessions |->
                  IF \E i \in Ids : sess[i] = s
                  THEN LET i == CHOOSE i \in Ids : sess[i] = s
                       IN [Blank EXCEPT !.id = i, !.addr = rem[i]]
                  ELSE Blank]
      /\ rem \in [Ids -> Addresses \cup {None}] /\ sess \in [Ids -> Sessions \cup {None}]
      /\ \A i, j \in Ids : sess[i] = sess[j] /\ sess[i] # None => i = j
      /\ try = [t \in Tries |-> Free] /\ conn = [a \in Addresses |-> None]
      /\ gather = FALSE /\ recovery = TRUE /\ op = [p \in Ops |-> Idle]
  BY DEF Init
<1>2. ASSUME NEW i \in Ids, NEW s \in Sessions, sess[i] = s
      PROVE  obj[s] = [Blank EXCEPT !.id = i, !.addr = rem[i]]
  <2>1. \A j \in Ids : sess[j] = s => j = i
    BY <1>1, <1>2, FleetAssumption
  <2>2. (CHOOSE j \in Ids : sess[j] = s) = i
    BY <1>2, <2>1
  <2> QED BY <1>1, <1>2, <2>2
<1>3. ASSUME NEW s \in Sessions, ~Registered(s)
      PROVE  obj[s] = Blank
  BY <1>1, <1>3 DEF Registered
<1>4. \A i \in Ids : LET o == [Blank EXCEPT !.id = i, !.addr = rem[i]] IN
        o \in Session /\ o.link = "DISCONNECTED" /\ o.back = "DISCONNECTED" /\ o.read = "no"
  BY <1>1 DEF Blank, Session
<1>5. \A s \in Sessions : /\ obj[s] \in Session /\ obj[s].link = "DISCONNECTED"
                          /\ obj[s].back = "DISCONNECTED" /\ obj[s].read = "no"
  <2> TAKE s \in Sessions
  <2>1. CASE Registered(s)
    <3>1. PICK i \in Ids : sess[i] = s
      BY <2>1 DEF Registered
    <3>2. obj[s] = [Blank EXCEPT !.id = i, !.addr = rem[i]]
      BY <1>2, <3>1
    <3> QED BY <1>4, <3>2
  <2>2. CASE ~Registered(s)
    BY <1>3, <2>2, BlankFacts, FreeFacts
  <2> QED BY <2>1, <2>2
<1>6. obj \in [Sessions -> Session]
  BY <1>1, <1>5
<1>7. TypeOK
  BY <1>1, <1>6, FreeFacts, IdleFacts DEF TypeOK
<1>8. TaskInv /\ FreshInv /\ LeftInv
  BY <1>1 DEF TaskInv, TaskOK, FreshInv, LeftInv, Works, Untouched, Free
<1>9. BackInv /\ StrayInv
  BY <1>5 DEF BackInv, StrayInv
<1>10. IdInv
  BY <1>1, <1>2 DEF IdInv, Blank
<1>11. SameSensor
  <2> SUFFICES ASSUME NEW i \in Ids, sess[i] # None
               PROVE  obj[sess[i]].read # "yes"
    BY DEF SameSensor
  <2>1. sess[i] \in Sessions
    BY <1>1
  <2> QED BY <1>5, <2>1
<1>12. StopInv
  BY <1>1 DEF StopInv, Works, Untouched, Free
<1>13. RelInv
  BY <1>1, IdleFacts DEF RelInv
<1> QED BY <1>7, <1>8, <1>9, <1>10, <1>11, <1>12, <1>13 DEF IInv

LEMMA TryStepInv == ASSUME IInv, NEW t \in Tries, TryStep(t) PROVE IInv'
<1>1. CASE Refused(t)
  BY <1>1, ClosesStep DEF Refused, Reads
<1>2. CASE NotBack(t)
  BY <1>2, ClosesStep DEF NotBack, Reads
<1> QED BY <1>1, <1>2, BeginsStep, NeverBeginsStep, LinkUpStep, LinkFailsStep, IdentifiedStep,
           BackStep, InfoFailsStep, CloseReturnsStep DEF TryStep

LEMMA OpStartsInv == ASSUME IInv, NEW p \in Ops, OpStarts(p) PROVE IInv'
<1>1. CASE \E finish \in BOOLEAN : StopGather(p, finish)
  BY <1>1, StopGatherStep
<1>2. CASE \E ids \in (SUBSET Ids) \ {{}} : Release(p, ids, FALSE)
  BY <1>2, ReleaseStep
<1>3. CASE Release(p, {i \in Ids : sess[i] # None}, TRUE)
  <2>1. PICK ids \in SUBSET Ids : ids = {i \in Ids : sess[i] # None}
    OBVIOUS
  <2> QED BY <1>3, <2>1, ReleaseStep
<1>4. CASE Aclose(p)
  BY <1>4, AcloseStep
<1> QED BY <1>1, <1>2, <1>3, <1>4 DEF OpStarts

LEMMA OpStepInv == ASSUME IInv, NEW p \in Ops, OpStep(p) PROVE IInv'
BY PendingDoneStep, StoppedStep, FreedStep, ReleasedStep, AcloseStopsStep, AcloseReleasesStep,
   CloseOneStep DEF OpStep

LEMMA NextInv == ASSUME IInv, [Next]_vars PROVE IInv'
<1>1. CASE StartGather
  BY <1>1, StartGatherStep
<1>2. ASSUME NEW a \in Addresses, GatherSees(a) \/ RecoverySees(a) PROVE IInv'
  BY <1>2, GatherSeesStep, RecoverySeesStep
<1>3. ASSUME NEW t \in Tries, TryStep(t) PROVE IInv'
  BY <1>3, TryStepInv
<1>4. ASSUME NEW p \in Ops, OpStarts(p) \/ OpStep(p) PROVE IInv'
  BY <1>4, OpStartsInv, OpStepInv
<1>5. ASSUME NEW s \in Sessions, Loses(s) \/ CloseElsewhere(s) PROVE IInv'
  BY <1>5, LosesStep, CloseElsewhereStep
<1>6. CASE UNCHANGED vars
  <2>1. UNCHANGED <<obj, sess, rem, try, conn, gather, recovery, op>>
    BY <1>6 DEF vars
  <2> QED BY <2>1 DEF IInv, TypeOK, TaskInv, TaskOK, FreshInv, BackInv, IdInv, SameSensor, StopInv,
                      RelInv, LeftInv, StrayInv, Works, Untouched, Registered, Live
<1> QED BY <1>1, <1>2, <1>3, <1>4, <1>5, <1>6 DEF Next

LEMMA Inductive == Spec => []IInv
<1>1. Init => IInv
  BY InitInv
<1>2. IInv /\ [Next]_vars => IInv'
  BY NextInv
<1> QED BY <1>1, <1>2, PTL DEF Spec

-----------------------------------------------------------------------------
(* What is remembered, and what closing leaves *)

\* A new session that is being connected has the address it was found at.
AddrInv ==
  \A t \in Tries : try[t].fresh /\ try[t].pc \in {"link", "info"} => obj[try[t].s].addr # None

\* Call p is an aclose().
Closing(p) == op[p].pc = "recovery" \/ (op[p].kind = "aclose" /\ op[p].pc # "idle")

\* What is being released is forgotten, and nothing else is, until the program closes.
MemInv ==
  /\ \A p \in Ops : Closing(p) => ~recovery
  /\ recovery => \A i \in Ids :
       /\ rem[i] # None => sess[i] # None
       /\ sess[i] # None => sess[i] \in Releasing \/ rem[i] # None
       /\ \A p \in Ops : sess[i] \in op[p].mine => rem[i] = None

\* Once recovery has ended it has left no task; once the gather has ended nothing connects any more;
\* and the call that closes still has whatever is registered to release.
EndInv ==
  ~recovery =>
    /\ \A t \in Tries : Untouched(t) => try[t].src = "gather"
    /\ \/ \E p \in Ops : Closing(p) /\ op[p].pc = "recovery"
       \/ ~gather /\ \A t \in Tries : ~Untouched(t)
    /\ \/ \A i \in Ids : sess[i] = None
       \/ \E p \in Ops : /\ Closing(p)
                         /\ op[p].pc \in {"freed", "closing"} =>
                              \A i \in Ids : sess[i] # None => sess[i] \in op[p].mine

\* No task begins.
TasksGoOn == \A t \in Tries : Untouched(t)' => Untouched(t) /\ try'[t].src = try[t].src

\* No call that closes begins, goes on to its next part or ends.
CallsGoOn ==
  \A p \in Ops :
    /\ op'[p].mine = op[p].mine /\ op'[p].marked = op[p].marked
    /\ Closing(p)' <=> Closing(p)
    /\ Closing(p) => /\ op'[p].pc = "recovery" <=> op[p].pc = "recovery"
                     /\ op'[p].pc \in {"freed", "closing"} <=> op[p].pc \in {"freed", "closing"}

\* No call that closes is nearer to its end.
ClosersGoOn ==
  \A p \in Ops : Closing(p) =>
    /\ Closing(p)' /\ op'[p].mine = op[p].mine
    /\ op[p].pc = "recovery" => op'[p].pc = "recovery"
    /\ op'[p].pc \in {"freed", "closing"} => op[p].pc \in {"freed", "closing"}

LEMMA MemQuiet == ASSUME MemInv, CallsGoOn, UNCHANGED <<sess, rem, recovery>> PROVE MemInv'
<1>1. Releasing' = Releasing
  BY DEF CallsGoOn, Releasing
<1> QED BY <1>1 DEF MemInv, CallsGoOn

LEMMA EndQuiet ==
  ASSUME EndInv, TasksGoOn, ClosersGoOn, UNCHANGED <<sess, recovery>>, gather' => gather
  PROVE  EndInv'
<1>1. ASSUME ~recovery PROVE \A t \in Tries : Untouched(t)' => try'[t].src = "gather"
  BY <1>1 DEF EndInv, TasksGoOn
<1>2. ASSUME ~recovery
      PROVE  \/ \E p \in Ops : Closing(p)' /\ op'[p].pc = "recovery"
             \/ ~gather' /\ \A t \in Tries : ~Untouched(t)'
  BY <1>2 DEF EndInv, TasksGoOn, ClosersGoOn
<1>3. ASSUME ~recovery
      PROVE  \/ \A i \in Ids : sess'[i] = None
             \/ \E p \in Ops : /\ Closing(p)'
                               /\ op'[p].pc \in {"freed", "closing"} =>
                                    \A i \in Ids : sess'[i] # None => sess'[i] \in op'[p].mine
  BY <1>3 DEF EndInv, ClosersGoOn
<1> QED BY <1>1, <1>2, <1>3 DEF EndInv

LEMMA CloseQuiet ==
  ASSUME MemInv, EndInv, TasksGoOn, CallsGoOn, UNCHANGED <<sess, rem, recovery>>, gather' => gather
  PROVE  MemInv' /\ EndInv'
<1>1. ClosersGoOn
  BY DEF CallsGoOn, ClosersGoOn
<1> QED BY <1>1, MemQuiet, EndQuiet

LEMMA SameCalls == ASSUME op' = op PROVE CallsGoOn
BY DEF CallsGoOn, Closing

LEMMA CallsEnd == ASSUME IInv, NEW t, Ends(t) PROVE CallsGoOn
<1>1. \A p \in Ops : op[p] \in Op /\ op'[p] = [op[p] EXCEPT !.waits = op[p].waits \ {t}]
  BY Types DEF Ends
<1>2. \A p \in Ops : /\ op'[p].mine = op[p].mine /\ op'[p].marked = op[p].marked
                     /\ op'[p].pc = op[p].pc /\ op'[p].kind = op[p].kind
  BY <1>1 DEF Op
<1> QED BY <1>2 DEF CallsGoOn, Closing

\* Call p goes on as r.
LEMMA CallsOne ==
  ASSUME IInv, NEW p \in Ops, NEW r, op' = [op EXCEPT ![p] = r], r.mine = op[p].mine, r.marked = op[p].marked,
         (r.pc = "recovery" \/ (r.kind = "aclose" /\ r.pc # "idle")) <=> Closing(p),
         Closing(p) => /\ r.pc = "recovery" <=> op[p].pc = "recovery"
                       /\ r.pc \in {"freed", "closing"} <=> op[p].pc \in {"freed", "closing"}
  PROVE  CallsGoOn
<1>1. \A q \in Ops : op'[q] = IF q = p THEN r ELSE op[q]
  BY Types
<1> QED BY <1>1 DEF CallsGoOn, Closing

\* One task goes on as r, which is not what was cancelled and now is not, and others lose their links.
LEMMA TasksOne ==
  ASSUME IInv, NEW t \in Tries, NEW f, NEW r, try' = [f EXCEPT ![t] = r], DOMAIN f = Tries,
         \A u \in Tries : f[u].pc = try[u].pc /\ f[u].cancel = try[u].cancel /\ f[u].src = try[u].src,
         r.pc = "free" \/ (Works(t) /\ r.cancel = try[t].cancel /\ r.src = try[t].src)
  PROVE  TasksGoOn
<1>1. \A u \in Tries : try'[u] = IF u = t THEN r ELSE f[u]
  OBVIOUS
<1> QED BY <1>1 DEF TasksGoOn, Untouched, Works

LEMMA ShutTasks ==
  ASSUME IInv, NEW s, try' = Shut(try, s)
  PROVE  TasksGoOn
BY ShutKeeps DEF TasksGoOn, Untouched, Works

\* All that a task does but find its sensor.
LEMMA TriesGoOn ==
  ASSUME IInv, NEW t \in Tries, TryStep(t)
  PROVE  TasksGoOn /\ CallsGoOn
<1>1. try[t] \in Try /\ DOMAIN try = Tries
  BY Types
<1>2. Free.pc = "free"
  BY DEF Free
<1>3. ASSUME try' = [try EXCEPT ![t] = Free] PROVE TasksGoOn
  BY <1>1, <1>2, <1>3, TasksOne
<1>4. ASSUME Closes(t), Works(t) PROVE TasksGoOn /\ CallsGoOn
  <2>1. PICK f : f = Shut(try, try[t].s)
    OBVIOUS
  <2>2. /\ f \in [Tries -> Try]
        /\ \A u \in Tries : f[u].pc = try[u].pc /\ f[u].cancel = try[u].cancel /\ f[u].src = try[u].src
    BY <2>1, ShutKeeps
  <2>3. PICK r : r = [f[t] EXCEPT !.pc = "close", !.shut = FALSE]
    OBVIOUS
  <2>4. r.cancel = try[t].cancel /\ r.src = try[t].src
    <3>1. PICK g \in Try : g = f[t]
      BY <2>2
    <3>2. [g EXCEPT !.pc = "close", !.shut = FALSE].cancel = g.cancel
          /\ [g EXCEPT !.pc = "close", !.shut = FALSE].src = g.src
      BY DEF Try
    <3> QED BY <2>2, <2>3, <3>1, <3>2
  <2>5. try' = [f EXCEPT ![t] = r] /\ op' = op
    <3>1. try' = [f EXCEPT ![t].pc = "close", ![t].shut = FALSE] /\ op' = op
      BY <1>4, <2>1 DEF Closes
    <3> QED BY <2>2, <2>3, <3>1
  <2>6. TasksGoOn
    BY <1>4, <2>2, <2>4, <2>5, TasksOne
  <2> QED BY <2>5, <2>6, SameCalls
<1>5. CASE Begins(t)
  <2>1. CASE Live(try[t].s)
    BY <1>3, <1>5, <2>1, CallsEnd DEF Begins
  <2>2. CASE ~Live(try[t].s)
    <3>1. PICK r : r = [try[t] EXCEPT !.pc = "link"]
      OBVIOUS
    <3>2. r.cancel = try[t].cancel /\ r.src = try[t].src
      BY <1>1, <3>1 DEF Try
    <3>3. try' = [try EXCEPT ![t] = r] /\ op' = op /\ Works(t)
      BY <1>5, <2>2, <3>1 DEF Begins, Works
    <3> QED BY <1>1, <3>2, <3>3, TasksOne, SameCalls
  <2> QED BY <2>1, <2>2
<1>6. CASE LinkUp(t)
  <2>1. PICK r : r = [try[t] EXCEPT !.pc = "info"]
    OBVIOUS
  <2>2. r.cancel = try[t].cancel /\ r.src = try[t].src
    BY <1>1, <2>1 DEF Try
  <2>3. try' = [try EXCEPT ![t] = r] /\ op' = op /\ Works(t)
    BY <1>6, <2>1 DEF LinkUp, Works
  <2> QED BY <1>1, <2>2, <2>3, TasksOne, SameCalls
<1>7. CASE Identified(t)
  <2>1. PICK f : f = Shut(try, sess[obj[try[t].s].peer])
    OBVIOUS
  <2>2. /\ f \in [Tries -> Try]
        /\ \A u \in Tries : f[u].pc = try[u].pc /\ f[u].cancel = try[u].cancel /\ f[u].src = try[u].src
    BY <2>1, ShutKeeps
  <2>3. try' = [f EXCEPT ![t] = Free] /\ Ends(t)
    BY <1>7, <2>1 DEF Identified
  <2> QED BY <1>2, <2>2, <2>3, TasksOne, CallsEnd
<1>8. CASE InfoFails(t)
  <2>1. Works(t)
    BY <1>8 DEF InfoFails, Works
  <2>2. CASE Closes(t)
    BY <1>4, <2>1, <2>2
  <2>3. CASE ~Closes(t)
    BY <1>3, <1>8, <2>3, CallsEnd DEF InfoFails
  <2> QED BY <2>2, <2>3
<1>9. CASE Refused(t) \/ NotBack(t)
  BY <1>4, <1>9 DEF Refused, NotBack, Reads, Works
<1>10. CASE NeverBegins(t) \/ LinkFails(t) \/ Back(t) \/ CloseReturns(t)
  BY <1>3, <1>10, CallsEnd DEF NeverBegins, LinkFails, Back, CloseReturns
<1> QED BY <1>5, <1>6, <1>7, <1>8, <1>9, <1>10 DEF TryStep

\* Other tasks' sessions keep their addresses: a new one is nobody else's, and not registered.
LEMMA AddrStep ==
  ASSUME IInv, AddrInv, [Next]_vars
  PROVE  AddrInv'
<1> SUFFICES ASSUME NEW t \in Tries, try'[t].fresh, try'[t].pc \in {"link", "info"}
             PROVE  obj'[try'[t].s].addr # None
  BY DEF AddrInv
<1>1. ASSUME try'[t].pc = try[t].pc, try'[t].fresh = try[t].fresh, try'[t].s = try[t].s
      PROVE  /\ Works(t) /\ try[t].fresh /\ try[t].s \in Sessions /\ obj[try[t].s].addr # None
             /\ ~Registered(try[t].s) /\ \A p \in Ops : try[t].s \notin op[p].mine
             /\ \A u \in Tries \ {t} : Works(u) => try[u].s # try[t].s
  BY <1>1 DEF AddrInv, Works, IInv, FreshInv, TaskInv, TaskOK
<1>2. ASSUME try' = try, obj' = obj PROVE obj'[try'[t].s].addr # None
  BY <1>1, <1>2
<1>3. \A s \in Sessions : obj[s] \in Session /\ Dropped(obj[s]).addr = obj[s].addr
                          /\ [Dropped(obj[s]) EXCEPT !.link = "LOST", !.back = "LOST"].addr = obj[s].addr
  BY Types DEF Dropped, Session
<1>4. ASSUME NEW s, try' = Shut(try, s)
      PROVE  try'[t].pc = try[t].pc /\ try'[t].fresh = try[t].fresh /\ try'[t].s = try[t].s
  BY <1>4, ShutKeeps
<1>5. CASE StartGather \/ UNCHANGED vars
  BY <1>2, <1>5 DEF StartGather, vars
<1>6. ASSUME NEW a \in Addresses, GatherSees(a) \/ RecoverySees(a) PROVE obj'[try'[t].s].addr # None
  <2>1. PICK s, src, fresh : Spawn(a, s, src, fresh) /\ obj' = obj
    BY <1>6 DEF GatherSees, RecoverySees
  <2>2. PICK u \in Tries : try' = [try EXCEPT ![u] = [Free EXCEPT !.pc = "start", !.key = a, !.s = s,
                                                                !.fresh = fresh, !.src = src]]
    BY <2>1 DEF Spawn
  <2>3. PICK r : r = [Free EXCEPT !.pc = "start", !.key = a, !.s = s, !.fresh = fresh, !.src = src]
    OBVIOUS
  <2>4. r.pc = "start"
    BY <2>3 DEF Free
  <2>5. try'[t] = IF t = u THEN r ELSE try[t]
    BY <2>2, <2>3, Types
  <2>6. try'[t] = try[t]
    BY <2>4, <2>5
  <2> QED BY <1>1, <2>1, <2>6
<1>7. ASSUME NEW s \in Sessions, Loses(s) \/ CloseElsewhere(s) PROVE obj'[try'[t].s].addr # None
  <2>1. try' = Shut(try, s)
    BY <1>7 DEF Loses, CloseElsewhere
  <2>2. \A u \in Sessions : obj'[u].addr = obj[u].addr
    BY <1>3, <1>7, Types DEF Loses, CloseElsewhere
  <2> QED BY <1>1, <1>4, <2>1, <2>2
<1>8. ASSUME NEW p \in Ops, OpStarts(p) \/ OpStep(p) PROVE obj'[try'[t].s].addr # None
  <2>1. CASE \E s \in Sessions : CloseOne(p, s)
    <3>1. PICK s \in Sessions : try' = Shut(try, s) /\ obj' = [obj EXCEPT ![s] = Dropped(obj[s])]
      BY <2>1 DEF CloseOne
    <3>2. \A u \in Sessions : obj'[u].addr = obj[u].addr
      BY <1>3, <3>1, Types
    <3> QED BY <1>1, <1>4, <3>1, <3>2
  <2>2. CASE Released(p)
    <3>1. try' = try
      BY <2>2 DEF Released
    <3>2. try[t].s \in Sessions /\ try[t].s \notin op[p].mine /\ obj[try[t].s].addr # None
      BY <1>1, <3>1
    <3>3. obj'[try[t].s] = obj[try[t].s]
      BY <2>2, <3>2 DEF Released
    <3> QED BY <3>1, <3>2, <3>3
  <2>3. ASSUME NEW keys, NEW why \in {"stop", "release", "aclose"}, CancelConnects(keys, why), obj' = obj
        PROVE  obj'[try'[t].s].addr # None
    BY <1>1, <2>3, CancelKeeps
  <2>4. ASSUME NEW kind, NEW finish \in BOOLEAN, EndsGather(p, kind, finish), obj' = obj
        PROVE  obj'[try'[t].s].addr # None
    <3>1. CASE finish
      BY <1>2, <2>4, <3>1 DEF EndsGather
    <3>2. CASE ~finish
      BY <2>3, <2>4, <3>2 DEF EndsGather
    <3> QED BY <3>1, <3>2
  <2>5. ASSUME NEW ids, NEW all, NEW kind \in {"release", "aclose"}, Releases(p, ids, all, kind), obj' = obj
        PROVE  obj'[try'[t].s].addr # None
    BY <2>3, <2>5 DEF Releases
  <2>6. CASE Stopped(p) \/ Freed(p)
    BY <1>2, <2>6 DEF Stopped, Freed
  <2>7. CASE PendingDone(p) \/ Aclose(p)
    BY <2>3, <2>7 DEF PendingDone, Aclose
  <2>8. CASE AcloseStops(p) \/ \E finish \in BOOLEAN : StopGather(p, finish)
    BY <2>4, <2>8 DEF AcloseStops, StopGather
  <2>9. CASE AcloseReleases(p) \/ (\E ids : \E all : Release(p, ids, all))
    BY <2>5, <2>9 DEF AcloseReleases, Release
  <2> QED BY <1>8, <2>1, <2>2, <2>6, <2>7, <2>8, <2>9 DEF OpStarts, OpStep
<1>9. ASSUME NEW u \in Tries, TryStep(u) PROVE obj'[try'[t].s].addr # None
  <2>1. try[u] \in Try /\ obj \in [Sessions -> Session] /\ DOMAIN try = Tries
    BY Types
  <2>2. ASSUME NEW f, NEW r, try' = [f EXCEPT ![u] = r], DOMAIN f = Tries, r.pc \in {"free", "close"},
               \A x \in Tries : f[x].pc = try[x].pc /\ f[x].fresh = try[x].fresh /\ f[x].s = try[x].s
        PROVE  t # u /\ try'[t].pc = try[t].pc /\ try'[t].fresh = try[t].fresh /\ try'[t].s = try[t].s
    BY <2>2
  <2>3. ASSUME Works(u), t # u, NEW o, obj' = [obj EXCEPT ![try[u].s] = o] \/ obj' = obj,
               try'[t].pc = try[t].pc, try'[t].fresh = try[t].fresh, try'[t].s = try[t].s
        PROVE  obj'[try'[t].s].addr # None
    <3>1. try[u].s # try[t].s /\ try[t].s \in Sessions
      BY <1>1, <2>3
    <3>2. obj'[try[t].s] = obj[try[t].s]
      BY <2>1, <2>3, <3>1
    <3> QED BY <1>1, <2>3, <3>2
  <2>4. Free.pc = "free"
    BY DEF Free
  <2>5. ASSUME try' = [try EXCEPT ![u] = Free]
        PROVE  t # u /\ try'[t].pc = try[t].pc /\ try'[t].fresh = try[t].fresh /\ try'[t].s = try[t].s
    BY <2>1, <2>2, <2>4, <2>5
  <2>6. ASSUME Closes(u), Works(u) PROVE obj'[try'[t].s].addr # None
    <3>1. PICK f : f = Shut(try, try[u].s)
      OBVIOUS
    <3>2. /\ f \in [Tries -> Try]
          /\ \A x \in Tries : f[x].pc = try[x].pc /\ f[x].fresh = try[x].fresh /\ f[x].s = try[x].s
      BY <3>1, ShutKeeps
    <3>3. PICK r : r = [f[u] EXCEPT !.pc = "close", !.shut = FALSE]
      OBVIOUS
    <3>4. r.pc = "close"
      <4>1. PICK g \in Try : g = f[u]
        BY <3>2
      <4>2. [g EXCEPT !.pc = "close", !.shut = FALSE].pc = "close"
        BY DEF Try
      <4> QED BY <3>3, <4>1, <4>2
    <3>5. try' = [f EXCEPT ![u] = r]
      <4>1. try' = [f EXCEPT ![u].pc = "close", ![u].shut = FALSE]
        BY <2>6, <3>1 DEF Closes
      <4> QED BY <3>2, <3>3, <4>1
    <3>6. t # u /\ try'[t].pc = try[t].pc /\ try'[t].fresh = try[t].fresh /\ try'[t].s = try[t].s
      BY <2>2, <3>2, <3>4, <3>5
    <3>7. PICK o : obj' = [obj EXCEPT ![try[u].s] = o]
      BY <2>6 DEF Closes
    <3> QED BY <2>3, <2>6, <3>6, <3>7
  <2>7. CASE Begins(u)
    <3>1. CASE Live(try[u].s)
      BY <2>3, <2>5, <2>7, <3>1 DEF Begins, Works
    <3>2. CASE ~Live(try[u].s)
      <4>1. PICK r : r = [try[u] EXCEPT !.pc = "link"]
        OBVIOUS
      <4>2. r.fresh = try[u].fresh /\ r.s = try[u].s
        BY <2>1, <4>1 DEF Try
      <4>3. try' = [try EXCEPT ![u] = r] /\ Works(u)
        BY <2>7, <3>2, <4>1 DEF Begins, Works
      <4>4. PICK o : /\ obj' = [obj EXCEPT ![try[u].s] = o]
                     /\ try[u].fresh => o = [Blank EXCEPT !.link = "CONNECTING", !.addr = try[u].key]
        BY <2>7, <3>2 DEF Begins
      <4>5. CASE t # u
        <5>1. try'[t] = try[t]
          BY <2>1, <4>3, <4>5
        <5> QED BY <2>3, <4>3, <4>4, <4>5, <5>1
      <4>6. CASE t = u
        <5>1. try'[t] = r
          BY <2>1, <4>3, <4>6
        <5>2. try[u].fresh /\ try'[t].s = try[u].s
          BY <4>2, <5>1
        <5>3. o.addr = try[u].key
          BY <4>4, <5>2 DEF Blank
        <5>4. try[u].s \in Sessions /\ try[u].key \in Addresses
          BY <4>3 DEF IInv, TaskInv, TaskOK
        <5>5. obj'[try'[t].s] = o
          BY <2>1, <4>4, <5>2, <5>4
        <5> QED BY <5>3, <5>4, <5>5, FleetAssumption
      <4> QED BY <4>5, <4>6
    <3> QED BY <3>1, <3>2
  <2>8. CASE LinkUp(u)
    <3>1. PICK r : r = [try[u] EXCEPT !.pc = "info"]
      OBVIOUS
    <3>2. r.fresh = try[u].fresh /\ r.s = try[u].s
      BY <2>1, <3>1 DEF Try
    <3>3. try' = [try EXCEPT ![u] = r] /\ Works(u) /\ try[u].pc = "link"
      BY <2>8, <3>1 DEF LinkUp, Works
    <3>4. PICK i : obj' = [obj EXCEPT ![try[u].s] = [obj[try[u].s] EXCEPT !.link = "CONNECTED", !.back = "CONNECTED",
                                                                          !.peer = i, !.read = "no"]]
      BY <2>8 DEF LinkUp
    <3>5. CASE t # u
      <4>1. try'[t] = try[t]
        BY <2>1, <3>3, <3>5
      <4> QED BY <2>3, <3>3, <3>4, <3>5, <4>1
    <3>6. CASE t = u
      <4>1. try'[t] = r
        BY <2>1, <3>3, <3>6
      <4>2. try[u].fresh /\ try'[t].s = try[u].s
        BY <3>2, <4>1
      <4>3. try[u].s \in Sessions /\ obj[try[u].s].addr # None
        BY <3>3, <4>2 DEF IInv, TaskInv, TaskOK, AddrInv
      <4>4. PICK o \in Session : o = obj[try[u].s]
        BY <2>1, <4>3
      <4>5. obj'[try'[t].s] = [o EXCEPT !.link = "CONNECTED", !.back = "CONNECTED", !.peer = i, !.read = "no"]
        BY <2>1, <3>4, <4>2, <4>3, <4>4
      <4>6. obj'[try'[t].s].addr = o.addr
        BY <4>5 DEF Session
      <4> QED BY <4>3, <4>4, <4>6
    <3> QED BY <3>5, <3>6
  <2>9. CASE Identified(u)
    <3>1. PICK old : old = sess[obj[try[u].s].peer]
      OBVIOUS
    <3>2. PICK f : f = Shut(try, old)
      OBVIOUS
    <3>3. /\ f \in [Tries -> Try]
          /\ \A x \in Tries : f[x].pc = try[x].pc /\ f[x].fresh = try[x].fresh /\ f[x].s = try[x].s
      BY <3>2, ShutKeeps
    <3>4. try' = [f EXCEPT ![u] = Free] /\ Works(u) /\ try[u].pc = "info" /\ ~try[u].shut
      BY <2>9, <3>1, <3>2 DEF Identified, Reads, Works
    <3>5. t # u /\ try'[t].pc = try[t].pc /\ try'[t].fresh = try[t].fresh /\ try'[t].s = try[t].s
      BY <2>2, <2>4, <3>3, <3>4
    <3>6. PICK s : s = try[t].s
      OBVIOUS
    <3>7. s \in Sessions /\ s # try[u].s /\ ~Registered(s) /\ obj[s].addr # None
      BY <1>1, <3>4, <3>5, <3>6
    <3>8. obj[try[u].s].peer \in Ids
      BY <3>4 DEF IInv, TaskInv, TaskOK
    <3>9. s # old
      BY <3>1, <3>7, <3>8 DEF Registered
    <3>10. obj'[s] = obj[s]
      BY <2>9, <3>1, <3>7, <3>9 DEF Identified
    <3> QED BY <3>5, <3>6, <3>7, <3>10
  <2>10. CASE InfoFails(u)
    <3>1. Works(u)
      BY <2>10 DEF InfoFails, Works
    <3>2. CASE Closes(u)
      BY <2>6, <3>1, <3>2
    <3>3. CASE ~Closes(u)
      <4>1. try' = [try EXCEPT ![u] = Free]
        BY <2>10, <3>3 DEF InfoFails
      <4>2. PICK o : obj' = [obj EXCEPT ![try[u].s] = o] \/ obj' = obj
        BY <2>10, <3>3 DEF InfoFails
      <4> QED BY <2>3, <2>5, <3>1, <4>1, <4>2
    <3> QED BY <3>2, <3>3
  <2>11. CASE Refused(u) \/ NotBack(u)
    BY <2>6, <2>11 DEF Refused, NotBack, Reads, Works
  <2>12. CASE NeverBegins(u) \/ LinkFails(u) \/ Back(u) \/ CloseReturns(u)
    <3>1. try' = [try EXCEPT ![u] = Free] /\ Works(u)
      BY <2>12 DEF NeverBegins, LinkFails, Back, CloseReturns, Reads, Works
    <3>2. PICK o : obj' = [obj EXCEPT ![try[u].s] = o] \/ obj' = obj
      BY <2>12 DEF NeverBegins, LinkFails, Back, CloseReturns
    <3> QED BY <2>3, <2>5, <3>1, <3>2
  <2> QED BY <1>9, <2>7, <2>8, <2>9, <2>10, <2>11, <2>12 DEF TryStep
<1> QED BY <1>5, <1>6, <1>7, <1>8, <1>9 DEF Next

-----------------------------------------------------------------------------
(* The same of every step *)

LEMMA BackCloses == ASSUME IInv, MemInv, EndInv, NEW t \in Tries, Back(t) PROVE MemInv' /\ EndInv'
<1>1. TasksGoOn /\ CallsGoOn
  BY TriesGoOn DEF TryStep
<1>2. ClosersGoOn
  BY <1>1 DEF CallsGoOn, ClosersGoOn
<1>3. Works(t) /\ Untouched(t) /\ ~try[t].fresh /\ ~try[t].shut /\ try[t].pc = "info"
      /\ UNCHANGED <<sess, gather, recovery>>
  BY DEF Back, Reads, Untouched, Works
<1>4. PICK s \in Sessions : s = try[t].s
  BY <1>3 DEF IInv, TaskInv, TaskOK
<1>5. PICK i \in Ids : i = obj[s].peer
  BY <1>3, <1>4 DEF IInv, TaskInv, TaskOK
<1>6. obj[s].id = i /\ rem' = [rem EXCEPT ![i] = try[t].key] /\ try[t].key \in Addresses
  BY <1>3, <1>4, <1>5 DEF Back, IInv, TaskInv, TaskOK
<1>7. Registered(s)
  BY <1>3, <1>4, <1>6, FleetAssumption DEF IInv, LeftInv
<1>8. sess[i] = s
  BY <1>6, <1>7, FleetAssumption DEF Registered, IInv, IdInv
<1>9. \A p \in Ops : s \notin op[p].mine
  BY <1>3, <1>4 DEF IInv, RelInv
<1>10. \A j \in Ids : rem'[j] = IF j = i THEN try[t].key ELSE rem[j]
  BY <1>6, Types
<1>11. Releasing' = Releasing
  BY <1>1 DEF CallsGoOn, Releasing
<1>12. try[t].key # None /\ s # None
  BY <1>6, FleetAssumption
<1>13. ASSUME recovery', NEW j \in Ids
       PROVE  /\ rem'[j] # None => sess'[j] # None
              /\ sess'[j] # None => sess'[j] \in Releasing' \/ rem'[j] # None
              /\ \A p \in Ops : sess'[j] \in op'[p].mine => rem'[j] = None
  BY <1>1, <1>3, <1>8, <1>9, <1>10, <1>11, <1>12, <1>13 DEF MemInv, CallsGoOn
<1>14. \A p \in Ops : Closing(p)' => ~recovery'
  BY <1>1, <1>3 DEF MemInv, CallsGoOn
<1>15. EndInv'
  BY <1>1, <1>2, <1>3, EndQuiet
<1> QED BY <1>13, <1>14, <1>15 DEF MemInv

LEMMA IdentifiedCloses ==
  ASSUME IInv, AddrInv, MemInv, EndInv, NEW t \in Tries, Identified(t)
  PROVE  MemInv' /\ EndInv'
<1>1. TasksGoOn /\ CallsGoOn
  BY TriesGoOn DEF TryStep
<1>2. Works(t) /\ Untouched(t) /\ try[t].fresh /\ ~try[t].shut /\ try[t].pc = "info"
      /\ UNCHANGED <<gather, recovery>>
  BY DEF Identified, Reads, Untouched, Works
<1>3. PICK s \in Sessions : s = try[t].s
  BY <1>2 DEF IInv, TaskInv, TaskOK
<1>4. PICK i \in Ids : i = obj[s].peer
  BY <1>2, <1>3 DEF IInv, TaskInv, TaskOK
<1>5. PICK a : a = obj[s].addr
  OBVIOUS
<1>6. sess' = [sess EXCEPT ![i] = s] /\ rem' = [rem EXCEPT ![i] = a]
  BY <1>3, <1>4, <1>5 DEF Identified
<1>7. a # None /\ s # None
  BY <1>2, <1>3, <1>5, FleetAssumption DEF AddrInv
<1>8. \A p \in Ops : s \notin op[p].mine
  BY <1>2, <1>3 DEF IInv, FreshInv
<1>9. \A j \in Ids : /\ rem'[j] = IF j = i THEN a ELSE rem[j]
                     /\ sess'[j] = IF j = i THEN s ELSE sess[j]
  BY <1>6, Types
<1>10. Releasing' = Releasing
  BY <1>1 DEF CallsGoOn, Releasing
<1>11. ASSUME recovery', NEW j \in Ids
       PROVE  /\ rem'[j] # None => sess'[j] # None
              /\ sess'[j] # None => sess'[j] \in Releasing' \/ rem'[j] # None
              /\ \A p \in Ops : sess'[j] \in op'[p].mine => rem'[j] = None
  BY <1>1, <1>2, <1>7, <1>8, <1>9, <1>10, <1>11 DEF MemInv, CallsGoOn
<1>12. \A p \in Ops : Closing(p)' => ~recovery'
  BY <1>1, <1>2 DEF MemInv, CallsGoOn
<1>13. ASSUME ~recovery
       PROVE  /\ \A u \in Tries : Untouched(u)' => try'[u].src = "gather"
              /\ \E p \in Ops : Closing(p)' /\ op'[p].pc = "recovery"
  BY <1>1, <1>2, <1>13 DEF EndInv, TasksGoOn, CallsGoOn
<1>14. EndInv'
  BY <1>2, <1>13 DEF EndInv
<1> QED BY <1>11, <1>12, <1>14 DEF MemInv

LEMMA TryStepCloses ==
  ASSUME IInv, AddrInv, MemInv, EndInv, NEW t \in Tries, TryStep(t)
  PROVE  MemInv' /\ EndInv'
<1>1. TasksGoOn /\ CallsGoOn
  BY TriesGoOn
<1>2. CASE Identified(t)
  BY <1>2, IdentifiedCloses
<1>3. CASE Back(t)
  BY <1>3, BackCloses
<1>4. CASE ~Identified(t) /\ ~Back(t)
  <2>1. UNCHANGED <<sess, rem, gather, recovery>>
    BY <1>4 DEF TryStep, Begins, NeverBegins, LinkUp, LinkFails, Refused, NotBack, InfoFails,
                CloseReturns, Closes
  <2> QED BY <1>1, <2>1, CloseQuiet
<1> QED BY <1>2, <1>3, <1>4

LEMMA SpawnCloses ==
  ASSUME IInv, MemInv, EndInv, NEW a \in Addresses, GatherSees(a) \/ RecoverySees(a)
  PROVE  MemInv' /\ EndInv'
<1>1. UNCHANGED <<obj, sess, rem, gather, recovery, op>>
  BY DEF GatherSees, RecoverySees
<1>2. CallsGoOn
  BY <1>1, SameCalls
<1>3. MemInv'
  BY <1>1, <1>2, MemQuiet
<1>4. CASE recovery
  BY <1>1, <1>3, <1>4 DEF EndInv
<1>5. CASE ~recovery
  <2>1. gather /\ \E s, fresh : Spawn(a, s, "gather", fresh)
    BY <1>5 DEF GatherSees, RecoverySees
  <2>2. PICK s, fresh : Spawn(a, s, "gather", fresh)
    BY <2>1
  <2>3. PICK t \in Tries : try' = [try EXCEPT ![t] = [Free EXCEPT !.pc = "start", !.key = a, !.s = s,
                                                                !.fresh = fresh, !.src = "gather"]]
    BY <2>2 DEF Spawn
  <2>4. PICK r : r = [Free EXCEPT !.pc = "start", !.key = a, !.s = s, !.fresh = fresh, !.src = "gather"]
    OBVIOUS
  <2>5. r.src = "gather"
    BY <2>4 DEF Free
  <2>6. \A u \in Tries : try'[u] = IF u = t THEN r ELSE try[u]
    BY <2>3, <2>4, Types
  <2>7. \A u \in Tries : Untouched(u)' => try'[u].src = "gather"
    BY <1>5, <2>5, <2>6 DEF EndInv, Untouched, Works
  <2>8. \E p \in Ops : Closing(p)' /\ op'[p].pc = "recovery"
    BY <1>1, <1>5, <2>1 DEF EndInv, Closing
  <2> QED BY <1>3, <2>7, <2>8 DEF EndInv
<1> QED BY <1>4, <1>5

LEMMA CancelTasks ==
  ASSUME IInv, NEW keys, NEW why \in {"stop", "release", "aclose"}, CancelConnects(keys, why)
  PROVE  TasksGoOn /\ \A t \in Tries : Untouched(t)' => try[t].key \notin keys
BY CancelKeeps DEF TasksGoOn, GoOn, Untouched

LEMMA SameTasksGoOn == ASSUME UNCHANGED try PROVE TasksGoOn
BY DEF TasksGoOn, Untouched, Works

LEMMA NoneMine ==
  ASSUME IInv, NEW p \in Ops, op[p].pc \notin {"freed", "closing"}
  PROVE  op[p].mine = {} /\ op[p].marked = {}
BY DEF IInv, RelInv

\* Calls that end no task of recovery and release nothing.
LEMMA PlainCloses ==
  ASSUME IInv, MemInv, EndInv, NEW p \in Ops,
         \/ \E finish \in BOOLEAN : StopGather(p, finish)
         \/ PendingDone(p) \/ Stopped(p) \/ Freed(p) \/ \E s \in Sessions : CloseOne(p, s)
  PROVE  MemInv' /\ EndInv'
<1>1. op[p] \in Op
  BY Types
<1>2. CASE \E finish \in BOOLEAN : StopGather(p, finish)
  <2>1. PICK finish \in BOOLEAN : StopGather(p, finish)
    BY <1>2
  <2>2. PICK keys : keys = From("gather")
    OBVIOUS
  <2>3. PICK r : r = [Idle EXCEPT !.pc = IF finish THEN "pending" ELSE "stopped",
                                  !.kind = "stop", !.keys = keys, !.waits = TasksAt(keys)]
    OBVIOUS
  <2>4. r.pc \in {"pending", "stopped"} /\ r.kind = "stop" /\ r.mine = {} /\ r.marked = {}
    BY <2>3 DEF Idle
  <2>5. op' = [op EXCEPT ![p] = r] /\ op[p].pc = "idle" /\ gather' = FALSE
        /\ UNCHANGED <<sess, rem, recovery>>
    BY <2>1, <2>2, <2>3 DEF StopGather, EndsGather
  <2>6. ~Closing(p) /\ op[p].mine = {} /\ op[p].marked = {}
    BY <2>5, NoneMine DEF Closing
  <2>7. CallsGoOn
    BY <2>4, <2>5, <2>6, CallsOne
  <2>8. TasksGoOn
    <3>1. CASE finish
      BY <2>1, <3>1, SameTasksGoOn DEF StopGather, EndsGather
    <3>2. CASE ~finish
      BY <2>1, <3>2, CancelTasks DEF StopGather, EndsGather
    <3> QED BY <3>1, <3>2
  <2> QED BY <2>5, <2>7, <2>8, CloseQuiet
<1>3. CASE PendingDone(p)
  <2>1. PICK keys : keys = op[p].keys
    OBVIOUS
  <2>2. PICK r : r = [op[p] EXCEPT !.pc = "stopped", !.waits = TasksAt(keys)]
    OBVIOUS
  <2>3. r.pc = "stopped" /\ r.kind = op[p].kind /\ r.mine = op[p].mine /\ r.marked = op[p].marked
    BY <1>1, <2>2 DEF Op
  <2>4. op' = [op EXCEPT ![p] = r] /\ op[p].pc = "pending" /\ CancelConnects(keys, "stop")
        /\ UNCHANGED <<sess, rem, gather, recovery>>
    BY <1>3, <2>1, <2>2 DEF PendingDone
  <2>5. CallsGoOn
    BY <2>3, <2>4, CallsOne DEF Closing
  <2> QED BY <2>4, <2>5, CancelTasks, CloseQuiet
<1>4. CASE Stopped(p)
  <2>1. op' = [op EXCEPT ![p] = Idle] /\ op[p].pc = "stopped" /\ op[p].kind = "stop"
        /\ UNCHANGED <<sess, rem, try, gather, recovery>>
    BY <1>4 DEF Stopped
  <2>2. ~Closing(p) /\ op[p].mine = {} /\ op[p].marked = {}
    BY <2>1, NoneMine DEF Closing
  <2>3. CallsGoOn
    BY <2>1, <2>2, IdleFacts, CallsOne
  <2> QED BY <2>1, <2>3, SameTasksGoOn, CloseQuiet
<1>5. CASE Freed(p)
  <2>1. PICK todo : todo = op[p].mine \cup IF op[p].all THEN Unidentified ELSE {}
    OBVIOUS
  <2>2. PICK r : r = [op[p] EXCEPT !.pc = "closing", !.todo = todo]
    OBVIOUS
  <2>3. r.pc = "closing" /\ r.kind = op[p].kind /\ r.mine = op[p].mine /\ r.marked = op[p].marked
    BY <1>1, <2>2 DEF Op
  <2>4. op' = [op EXCEPT ![p] = r] /\ op[p].pc = "freed"
        /\ UNCHANGED <<sess, rem, try, gather, recovery>>
    BY <1>5, <2>1, <2>2 DEF Freed
  <2>5. CallsGoOn
    BY <2>3, <2>4, CallsOne DEF Closing
  <2> QED BY <2>4, <2>5, SameTasksGoOn, CloseQuiet
<1>6. CASE \E s \in Sessions : CloseOne(p, s)
  <2>1. PICK s \in Sessions : CloseOne(p, s)
    BY <1>6
  <2>2. PICK todo : todo = op[p].todo \ {s}
    OBVIOUS
  <2>3. PICK r : r = [op[p] EXCEPT !.todo = todo]
    OBVIOUS
  <2>4. r.pc = op[p].pc /\ r.kind = op[p].kind /\ r.mine = op[p].mine /\ r.marked = op[p].marked
    BY <1>1, <2>3 DEF Op
  <2>5. op' = [op EXCEPT ![p] = r] /\ try' = Shut(try, s) /\ UNCHANGED <<sess, rem, gather, recovery>>
    BY <2>1, <2>2, <2>3 DEF CloseOne
  <2>6. CallsGoOn
    BY <2>4, <2>5, CallsOne DEF Closing
  <2> QED BY <2>5, <2>6, ShutTasks, CloseQuiet
<1> QED BY <1>2, <1>3, <1>4, <1>5, <1>6

\* release() forgets what it marks.
LEMMA ReleaseCloses ==
  ASSUME IInv, MemInv, EndInv, NEW p \in Ops, NEW ids \in SUBSET Ids, NEW all, Release(p, ids, all)
  PROVE  MemInv' /\ EndInv'
<1>1. PICK mine : mine = {sess[i] : i \in ids}
  OBVIOUS
<1>2. PICK keys : keys = IF all THEN {a \in Addresses : conn[a] # None}
                         ELSE {a \in Addresses : conn[a] # None /\ try[conn[a]].s \in mine}
                              \cup {obj[s].addr : s \in mine}
  OBVIOUS
<1>3. PICK r : r = [Idle EXCEPT !.pc = "freed", !.kind = "release", !.all = all,
                                !.waits = TasksAt(keys), !.mine = mine,
                                !.marked = mine \ Releasing]
  OBVIOUS
<1>4. r.pc = "freed" /\ r.kind = "release" /\ r.mine = mine /\ r.marked = mine \ Releasing
  BY <1>3 DEF Idle
<1>5. /\ CancelConnects(keys, "release") /\ op' = [op EXCEPT ![p] = r] /\ op[p].pc = "idle"
      /\ \A i \in ids : sess[i] # None
      /\ rem' = [i \in Ids |-> IF i \in ids THEN None ELSE rem[i]]
      /\ UNCHANGED <<sess, gather, recovery>>
  BY <1>1, <1>2, <1>3 DEF Release, Releases
<1>6. \A q \in Ops : op'[q] = IF q = p THEN r ELSE op[q]
  BY <1>5, Types
<1>7. \A q \in Ops : Closing(q)' <=> q # p /\ Closing(q)
  BY <1>4, <1>5, <1>6 DEF Closing
<1>8. op[p].mine = {} /\ op[p].marked = {} /\ ~Closing(p)
  BY <1>5, NoneMine DEF Closing
<1>9. mine \subseteq Releasing' /\ Releasing \subseteq Releasing'
  BY <1>4, <1>6, <1>8 DEF Releasing
<1>10. \A i \in ids, j \in Ids : sess[j] = sess[i] => j = i
  BY <1>5 DEF IInv, IdInv
<1>11. ASSUME recovery', NEW j \in Ids
       PROVE  /\ rem'[j] # None => sess'[j] # None
              /\ sess'[j] # None => sess'[j] \in Releasing' \/ rem'[j] # None
              /\ \A q \in Ops : sess'[j] \in op'[q].mine => rem'[j] = None
  <2>1. /\ rem[j] # None => sess[j] # None
        /\ sess[j] # None => sess[j] \in Releasing \/ rem[j] # None
        /\ \A q \in Ops : sess[j] \in op[q].mine => rem[j] = None
    BY <1>5, <1>11 DEF MemInv
  <2>2. rem'[j] = IF j \in ids THEN None ELSE rem[j]
    BY <1>5
  <2>3. j \in ids <=> sess[j] \in mine
    BY <1>1, <1>10
  <2> QED BY <1>4, <1>5, <1>6, <1>9, <2>1, <2>2, <2>3
<1>12. MemInv'
  BY <1>5, <1>7, <1>11 DEF MemInv
<1>13. ClosersGoOn
  BY <1>6, <1>7, <1>8 DEF ClosersGoOn
<1>14. TasksGoOn
  BY <1>5, CancelTasks
<1> QED BY <1>5, <1>12, <1>13, <1>14, EndQuiet

\* ... and lets go of it; after that of an aclose() there is no session.
LEMMA ReleasedCloses ==
  ASSUME IInv, MemInv, EndInv, NEW p \in Ops, Released(p)
  PROVE  MemInv' /\ EndInv'
<1>1. PICK mine \in SUBSET Sessions : mine = op[p].mine
  BY Types DEF Op
<1>2. /\ op[p].pc = "closing"
      /\ sess' = [i \in Ids |-> IF sess[i] \in mine THEN None ELSE sess[i]]
      /\ op' = [op EXCEPT ![p] = Idle]
      /\ UNCHANGED <<rem, try, gather, recovery>>
  BY <1>1 DEF Released
<1>3. \A q \in Ops : op'[q] = IF q = p THEN Idle ELSE op[q]
  BY <1>2, Types
<1>4. \A q \in Ops : Closing(q)' <=> q # p /\ Closing(q)
  BY <1>3, IdleFacts DEF Closing
<1>5. op[p].marked \subseteq mine /\ None \notin Sessions
  BY <1>1, FleetAssumption DEF IInv, RelInv
<1>6. \A s \in Releasing : s \in mine \/ s \in Releasing'
  BY <1>3, <1>5 DEF Releasing
<1>7. ASSUME recovery', NEW j \in Ids
      PROVE  /\ rem'[j] # None => sess'[j] # None
             /\ sess'[j] # None => sess'[j] \in Releasing' \/ rem'[j] # None
             /\ \A q \in Ops : sess'[j] \in op'[q].mine => rem'[j] = None
  <2>1. /\ rem[j] # None => sess[j] # None
        /\ sess[j] # None => sess[j] \in Releasing \/ rem[j] # None
        /\ \A q \in Ops : sess[j] \in op[q].mine => rem[j] = None
    BY <1>2, <1>7 DEF MemInv
  <2>2. sess'[j] = IF sess[j] \in mine THEN None ELSE sess[j]
    BY <1>2
  <2>3. sess[j] \in mine => rem[j] = None
    BY <1>1, <2>1
  <2>4. \A q \in Ops : op'[q].mine \subseteq op[q].mine /\ None \notin op[q].mine
    BY <1>3, <1>5, IdleFacts, Types DEF Op
  <2> QED BY <1>2, <1>6, <2>1, <2>2, <2>3, <2>4
<1>8. MemInv'
  BY <1>2, <1>4, <1>7 DEF MemInv
<1>9. ASSUME ~recovery
      PROVE  /\ \A t \in Tries : Untouched(t)' => try'[t].src = "gather"
             /\ \/ \E q \in Ops : Closing(q)' /\ op'[q].pc = "recovery"
                \/ ~gather' /\ \A t \in Tries : ~Untouched(t)'
  <2>1. \A q \in Ops : Closing(q) /\ op[q].pc = "recovery" => Closing(q)' /\ op'[q].pc = "recovery"
    BY <1>2, <1>3, <1>4
  <2>2. \A t \in Tries : Untouched(t)' <=> Untouched(t)
    BY <1>2 DEF Untouched, Works
  <2> QED BY <1>2, <1>9, <2>1, <2>2 DEF EndInv
<1>10. ASSUME ~recovery
       PROVE  \/ \A i \in Ids : sess'[i] = None
              \/ \E q \in Ops : /\ Closing(q)'
                                /\ op'[q].pc \in {"freed", "closing"} =>
                                     \A i \in Ids : sess'[i] # None => sess'[i] \in op'[q].mine
  <2>1. CASE \A i \in Ids : sess[i] = None
    BY <1>2, <2>1
  <2>2. ASSUME NEW q \in Ops, Closing(q),
               op[q].pc \in {"freed", "closing"} => \A i \in Ids : sess[i] # None => sess[i] \in op[q].mine
        PROVE  \/ \A i \in Ids : sess'[i] = None
               \/ Closing(q)' /\ (op'[q].pc \in {"freed", "closing"} =>
                                    \A i \in Ids : sess'[i] # None => sess'[i] \in op'[q].mine)
    <3>1. CASE q = p
      BY <1>1, <1>2, <2>2, <3>1
    <3>2. CASE q # p
      BY <1>2, <1>3, <1>4, <2>2, <3>2
    <3> QED BY <3>1, <3>2
  <2> QED BY <1>10, <2>1, <2>2 DEF EndInv
<1>11. EndInv'
  BY <1>2, <1>9, <1>10 DEF EndInv
<1> QED BY <1>8, <1>11

LEMMA AcloseCloses ==
  ASSUME IInv, MemInv, EndInv, NEW p \in Ops, Aclose(p)
  PROVE  MemInv' /\ EndInv'
<1>1. PICK keys : keys = From("recovery")
  OBVIOUS
<1>2. PICK r : r = [Idle EXCEPT !.pc = "recovery", !.kind = "aclose", !.waits = TasksAt(keys)]
  OBVIOUS
<1>3. recovery' = FALSE /\ CancelConnects(keys, "aclose") /\ op' = [op EXCEPT ![p] = r]
  BY <1>1, <1>2 DEF Aclose
<1>4. op'[p].pc = "recovery" /\ Closing(p)'
  BY <1>2, <1>3, Types DEF Idle, Closing
<1>5. ASSUME NEW t \in Tries, Untouched(t)'
      PROVE  try'[t].src = "gather"
  <2>1. Untouched(t) /\ try'[t].src = try[t].src /\ try[t].key \notin keys
    BY <1>3, <1>5, CancelTasks DEF TasksGoOn
  <2>2. try[t].key \in From(try[t].src) /\ try[t].src \in {"gather", "recovery"}
    BY <2>1, FoundThere, Types DEF Try
  <2> QED BY <1>1, <2>1, <2>2
<1> QED BY <1>3, <1>4, <1>5 DEF MemInv, EndInv

LEMMA AcloseStopsCloses ==
  ASSUME IInv, MemInv, EndInv, NEW p \in Ops, AcloseStops(p)
  PROVE  MemInv' /\ EndInv'
<1>1. PICK keys : keys = From("gather")
  OBVIOUS
<1>2. PICK r : r = [Idle EXCEPT !.pc = "stopped", !.kind = "aclose", !.keys = keys,
                                !.waits = TasksAt(keys)]
  OBVIOUS
<1>3. /\ op[p].pc = "recovery" /\ gather' = FALSE /\ CancelConnects(keys, "stop")
      /\ op' = [op EXCEPT ![p] = r] /\ UNCHANGED <<sess, rem, recovery>>
  BY <1>1, <1>2 DEF AcloseStops, EndsGather
<1>4. ~recovery
  BY <1>3 DEF MemInv, Closing
<1>5. op'[p].pc = "stopped" /\ Closing(p)'
  BY <1>2, <1>3, Types DEF Idle, Closing
<1>6. ASSUME NEW t \in Tries, Untouched(t)'
      PROVE  FALSE
  <2>1. Untouched(t) /\ try[t].key \notin keys
    BY <1>3, <1>6, CancelTasks DEF TasksGoOn
  <2>2. try[t].key \in From(try[t].src) /\ try[t].src = "gather"
    BY <1>4, <2>1, FoundThere DEF EndInv
  <2> QED BY <1>1, <2>1, <2>2
<1> QED BY <1>3, <1>4, <1>5, <1>6 DEF MemInv, EndInv

LEMMA AcloseReleasesCloses ==
  ASSUME IInv, MemInv, EndInv, NEW p \in Ops, AcloseReleases(p)
  PROVE  MemInv' /\ EndInv'
<1>1. PICK mine : mine = {sess[i] : i \in {j \in Ids : sess[j] # None}}
  OBVIOUS
<1>2. PICK keys : keys = {a \in Addresses : conn[a] # None}
  OBVIOUS
<1>3. PICK r : r = [Idle EXCEPT !.pc = "freed", !.kind = "aclose", !.all = TRUE,
                                !.waits = TasksAt(keys), !.mine = mine,
                                !.marked = mine \ Releasing]
  OBVIOUS
<1>4. /\ op[p].pc = "stopped" /\ op[p].kind = "aclose" /\ CancelConnects(keys, "aclose")
      /\ op' = [op EXCEPT ![p] = r] /\ UNCHANGED <<sess, rem, gather, recovery>>
  BY <1>1, <1>2, <1>3 DEF AcloseReleases, Releases
<1>5. ~recovery
  BY <1>4 DEF MemInv, Closing
<1>6. \A q \in Ops : op'[q] = IF q = p THEN r ELSE op[q]
  BY <1>4, Types
<1>7. op'[p].mine = mine /\ Closing(p)'
  BY <1>3, <1>6 DEF Idle, Closing
<1>8. \A i \in Ids : sess[i] # None => sess[i] \in mine
  BY <1>1
<1>9. TasksGoOn
  BY <1>4, CancelTasks
<1>10. \A t \in Tries : Untouched(t)' => try'[t].src = "gather"
  BY <1>5, <1>9 DEF EndInv, TasksGoOn
<1>11. \/ \E q \in Ops : Closing(q)' /\ op'[q].pc = "recovery"
       \/ ~gather' /\ \A t \in Tries : ~Untouched(t)'
  <2>1. \A q \in Ops : op[q].pc = "recovery" => Closing(q)' /\ op'[q].pc = "recovery"
    BY <1>4, <1>6 DEF Closing
  <2> QED BY <1>4, <1>5, <1>9, <2>1 DEF EndInv, TasksGoOn
<1>12. EndInv'
  BY <1>4, <1>7, <1>8, <1>10, <1>11 DEF EndInv
<1> QED BY <1>4, <1>5, <1>12 DEF MemInv

LEMMA CloseStep ==
  ASSUME IInv, AddrInv, MemInv, EndInv, [Next]_vars
  PROVE  MemInv' /\ EndInv'
<1>1. CASE StartGather
  <2>1. recovery /\ UNCHANGED <<sess, rem, recovery, op>>
    BY <1>1 DEF StartGather
  <2> QED BY <2>1, SameCalls, MemQuiet DEF EndInv
<1>2. ASSUME NEW a \in Addresses, GatherSees(a) \/ RecoverySees(a) PROVE MemInv' /\ EndInv'
  BY <1>2, SpawnCloses
<1>3. ASSUME NEW t \in Tries, TryStep(t) PROVE MemInv' /\ EndInv'
  BY <1>3, TryStepCloses
<1>4. ASSUME NEW p \in Ops, OpStarts(p) PROVE MemInv' /\ EndInv'
  <2>1. PICK ids \in SUBSET Ids : ids = {i \in Ids : sess[i] # None}
    OBVIOUS
  <2>2. CASE \E x \in (SUBSET Ids) \ {{}} : Release(p, x, FALSE)
    BY <2>2, ReleaseCloses
  <2>3. CASE Release(p, {i \in Ids : sess[i] # None}, TRUE)
    BY <2>1, <2>3, ReleaseCloses
  <2>4. CASE \E finish \in BOOLEAN : StopGather(p, finish)
    BY <2>4, PlainCloses
  <2> QED BY <1>4, <2>2, <2>3, <2>4, AcloseCloses DEF OpStarts
<1>5. ASSUME NEW p \in Ops, OpStep(p) PROVE MemInv' /\ EndInv'
  BY <1>5, PlainCloses, ReleasedCloses, AcloseStopsCloses, AcloseReleasesCloses DEF OpStep
<1>6. ASSUME NEW s \in Sessions, Loses(s) \/ CloseElsewhere(s) PROVE MemInv' /\ EndInv'
  <2>1. try' = Shut(try, s) /\ UNCHANGED <<sess, rem, gather, recovery, op>>
    BY <1>6 DEF Loses, CloseElsewhere
  <2> QED BY <2>1, ShutTasks, SameCalls, CloseQuiet
<1>7. CASE UNCHANGED vars
  BY <1>7, SameTasksGoOn, SameCalls, CloseQuiet DEF vars
<1> QED BY <1>1, <1>2, <1>3, <1>4, <1>5, <1>6, <1>7 DEF Next

LEMMA CloseInductive == Spec => [](IInv /\ MemInv /\ EndInv)
<1>1. Init => IInv /\ AddrInv /\ MemInv /\ EndInv
  <2> SUFFICES ASSUME Init
               PROVE  IInv /\ AddrInv /\ MemInv /\ EndInv
    OBVIOUS
  <2>1. AddrInv
    BY FreeFacts DEF Init, AddrInv
  <2>2. recovery /\ \A p \in Ops : op[p] = Idle
    BY DEF Init
  <2>3. EndInv
    BY <2>2 DEF EndInv
  <2>4. (\A p \in Ops : ~Closing(p)) /\ \A i \in Ids : sess[i] = None <=> rem[i] = None
    BY <2>2, IdleFacts DEF Closing, Init
  <2>5. MemInv
    BY <2>2, <2>4, IdleFacts DEF MemInv
  <2> QED BY <2>1, <2>3, <2>5, InitInv
<1>2. IInv /\ AddrInv /\ MemInv /\ EndInv /\ [Next]_vars => (IInv /\ AddrInv /\ MemInv /\ EndInv)'
  BY NextInv, AddrStep, CloseStep
<1> QED BY <1>1, <1>2, PTL DEF Spec

-----------------------------------------------------------------------------
(* Every session keeps to LinkState *)

\* The link of session s becomes that of o as LinkState has it.
LinkTo(s, o) ==
  \/ o.link = obj[s].link /\ o.back = obj[s].back
  \/ obj[s].link \in {"DISCONNECTED", "LOST"} /\ o.link = "CONNECTING" /\ o.back = obj[s].link
  \/ obj[s].link = "CONNECTING" /\ o.link = "CONNECTED" /\ o.back = "CONNECTED"
  \/ obj[s].link = "CONNECTING" /\ o.link = obj[s].back /\ o.back = obj[s].back
  \/ obj[s].link = "CONNECTED" /\ o.link = "LOST" /\ o.back = "LOST"
  \/ obj[s].link # "DISCONNECTED" /\ o.link = "DISCONNECTED" /\ o.back = "DISCONNECTED"

LinksStep == \A s \in Sessions : LinkTo(s, obj'[s])

\* The session of a task that has yet to begin was not used before.
StartInv == \A t \in Tries : try[t].fresh /\ try[t].pc = "start" => obj[try[t].s].link = "DISCONNECTED"

SameStart(t) == try'[t].pc = try[t].pc /\ try'[t].fresh = try[t].fresh /\ try'[t].s = try[t].s

\* Only task t, if it is one and has begun, may connect a session that was not used before.
LEMMA StartKeeps ==
  ASSUME IInv, StartInv, NEW t, \A u \in Tries : u # t => SameStart(u), try'[t].pc # "start" \/ t \notin Tries,
         \A s \in Sessions : obj'[s].link \in {obj[s].link, "DISCONNECTED"}
                             \/ obj[s].link # "DISCONNECTED" \/ (t \in Tries /\ Works(t) /\ try[t].s = s)
  PROVE  StartInv'
<1> SUFFICES ASSUME NEW u \in Tries, try'[u].fresh, try'[u].pc = "start"
             PROVE  obj'[try'[u].s].link = "DISCONNECTED"
  BY DEF StartInv
<1>1. u # t /\ try[u].fresh /\ try[u].pc = "start" /\ try'[u].s = try[u].s
  BY DEF SameStart
<1>2. PICK s \in Sessions : s = try[u].s
  BY <1>1 DEF IInv, TaskInv, TaskOK, Works
<1>3. obj[s].link = "DISCONNECTED" /\ \A v \in Tries : Works(v) /\ try[v].s = s => v = u
  BY <1>1, <1>2 DEF StartInv, IInv, FreshInv, Works
<1> QED BY <1>1, <1>2, <1>3

LEMMA LinkOne ==
  ASSUME IInv, NEW s \in Sessions, NEW o, obj' = [obj EXCEPT ![s] = o], LinkTo(s, o)
  PROVE  LinksStep /\ \A u \in Sessions : u # s => obj'[u] = obj[u]
<1>1. \A u \in Sessions : obj'[u] = IF u = s THEN o ELSE obj[u]
  BY Types
<1> QED BY <1>1 DEF LinksStep, LinkTo

\* Closing a session, or making it new, is a step of its link.
LEMMA LinkDown ==
  ASSUME IInv, NEW s \in Sessions, NEW o, o.link = "DISCONNECTED", o.back = "DISCONNECTED"
  PROVE  LinkTo(s, o)
BY DEF IInv, BackInv, LinkTo

LEMMA LinkDropped == ASSUME IInv, NEW s \in Sessions PROVE LinkTo(s, Dropped(obj[s]))
<1>1. PICK o : o = Dropped(obj[s])
  OBVIOUS
<1>2. o.link = "DISCONNECTED" /\ o.back = "DISCONNECTED"
  BY <1>1, Types DEF Dropped, Session
<1> QED BY <1>1, <1>2, LinkDown

LEMMA TryStepTasks ==
  ASSUME IInv, NEW t \in Tries, TryStep(t)
  PROVE  Works(t) /\ try'[t].pc # "start" /\ \A u \in Tries : u # t => SameStart(u)
<1>1. try[t] \in Try /\ DOMAIN try = Tries /\ Free.pc = "free"
  BY Types DEF Free
<1>2. ASSUME NEW f, NEW r, try' = [f EXCEPT ![t] = r], DOMAIN f = Tries, r.pc # "start",
             \A u \in Tries : f[u].pc = try[u].pc /\ f[u].fresh = try[u].fresh /\ f[u].s = try[u].s
      PROVE  try'[t].pc # "start" /\ \A u \in Tries : u # t => SameStart(u)
  BY <1>2 DEF SameStart
<1>3. ASSUME NEW r, try' = [try EXCEPT ![t] = r], r.pc # "start"
      PROVE  try'[t].pc # "start" /\ \A u \in Tries : u # t => SameStart(u)
  BY <1>1, <1>2, <1>3
<1>4. ASSUME NEW s
      PROVE  /\ Shut(try, s) \in [Tries -> Try]
             /\ \A u \in Tries : LET g == Shut(try, s)[u] IN
                  g.pc = try[u].pc /\ g.fresh = try[u].fresh /\ g.s = try[u].s
  BY ShutKeeps
<1>5. ASSUME Closes(t) PROVE try'[t].pc # "start" /\ \A u \in Tries : u # t => SameStart(u)
  <2>1. PICK f : f = Shut(try, try[t].s)
    OBVIOUS
  <2>2. /\ f \in [Tries -> Try]
        /\ \A u \in Tries : f[u].pc = try[u].pc /\ f[u].fresh = try[u].fresh /\ f[u].s = try[u].s
    BY <1>4, <2>1
  <2>3. PICK r : r = [f[t] EXCEPT !.pc = "close", !.shut = FALSE]
    OBVIOUS
  <2>4. r.pc = "close"
    <3>1. PICK g \in Try : g = f[t]
      BY <2>2
    <3>2. [g EXCEPT !.pc = "close", !.shut = FALSE].pc = "close"
      BY DEF Try
    <3> QED BY <2>3, <3>1, <3>2
  <2>5. try' = [f EXCEPT ![t].pc = "close", ![t].shut = FALSE]
    BY <1>5, <2>1 DEF Closes
  <2>6. try' = [f EXCEPT ![t] = r]
    BY <2>2, <2>3, <2>5
  <2> QED BY <1>2, <2>2, <2>4, <2>6
<1>6. CASE Begins(t) \/ LinkUp(t)
  <2>1. PICK pc \in {"link", "info"} : try' = [try EXCEPT ![t] = [try[t] EXCEPT !.pc = pc]]
                                       \/ try' = [try EXCEPT ![t] = Free]
    BY <1>6 DEF Begins, LinkUp
  <2>2. PICK r : r = [try[t] EXCEPT !.pc = pc]
    OBVIOUS
  <2>3. r.pc = pc
    BY <1>1, <2>2 DEF Try
  <2> QED BY <1>1, <1>3, <1>6, <2>1, <2>2, <2>3 DEF Begins, LinkUp, Works
<1>7. CASE Identified(t)
  <2>1. PICK f : f = Shut(try, sess[obj[try[t].s].peer])
    OBVIOUS
  <2>2. /\ f \in [Tries -> Try]
        /\ \A u \in Tries : f[u].pc = try[u].pc /\ f[u].fresh = try[u].fresh /\ f[u].s = try[u].s
    BY <1>4, <2>1
  <2>3. try' = [f EXCEPT ![t] = Free] /\ Works(t)
    BY <1>7, <2>1 DEF Identified, Reads, Works
  <2> QED BY <1>1, <1>2, <2>2, <2>3
<1>8. CASE InfoFails(t)
  BY <1>1, <1>3, <1>5, <1>8 DEF InfoFails, Works
<1>9. CASE Refused(t) \/ NotBack(t)
  BY <1>5, <1>9 DEF Refused, NotBack, Reads, Works
<1>10. CASE NeverBegins(t) \/ LinkFails(t) \/ Back(t) \/ CloseReturns(t)
  BY <1>1, <1>3, <1>10 DEF NeverBegins, LinkFails, Back, CloseReturns, Reads, Works
<1> QED BY <1>6, <1>7, <1>8, <1>9, <1>10 DEF TryStep

LEMMA TryStepLinks ==
  ASSUME IInv, StartInv, NEW t \in Tries, TryStep(t)
  PROVE  LinksStep /\ \A u \in Sessions : \/ u = try[t].s
                                          \/ obj'[u].link \in {obj[u].link, "DISCONNECTED"}
<1>1. PICK s \in Sessions : s = try[t].s
  BY TryStepTasks DEF IInv, TaskInv, TaskOK
<1>2. obj[s] \in Session /\ TaskOK(t) /\ obj \in [Sessions -> Session]
  BY Types DEF IInv, TaskInv
<1>3. Blank.link = "DISCONNECTED" /\ Blank.back = "DISCONNECTED"
  BY BlankFacts
<1>4. ASSUME obj' = obj PROVE LinksStep /\ \A u \in Sessions : obj'[u].link = obj[u].link
  BY <1>4 DEF LinksStep, LinkTo
<1>5. ASSUME NEW o, obj' = [obj EXCEPT ![s] = o], LinkTo(s, o)
      PROVE  LinksStep /\ \A u \in Sessions : u = s \/ obj'[u].link = obj[u].link
  BY <1>5, LinkOne
<1>6. CASE Begins(t)
  <2>1. CASE Live(s)
    BY <1>1, <1>4, <1>6, <2>1 DEF Begins
  <2>2. CASE ~Live(s)
    <3>1. PICK o : o = IF try[t].fresh THEN [Blank EXCEPT !.link = "CONNECTING", !.addr = try[t].key]
                                       ELSE [obj[s] EXCEPT !.link = "CONNECTING"]
      OBVIOUS
    <3>2. obj' = [obj EXCEPT ![s] = o] /\ try[t].pc = "start"
      BY <1>1, <1>6, <2>2, <3>1 DEF Begins
    <3>3. obj[s].link \in {"DISCONNECTED", "LOST"} /\ obj[s].back = obj[s].link
      BY <1>2, <2>2 DEF Live, Session, IInv, BackInv
    <3>4. try[t].fresh => obj[s].link = "DISCONNECTED"
      BY <1>1, <3>2 DEF StartInv
    <3>5. o.link = "CONNECTING" /\ o.back = obj[s].link
      BY <1>2, <3>1, <3>3, <3>4 DEF Blank, Session
    <3>6. LinkTo(s, o)
      BY <3>3, <3>5 DEF LinkTo
    <3> QED BY <1>1, <1>5, <3>2, <3>6
  <2> QED BY <2>1, <2>2
<1>7. CASE LinkUp(t)
  <2>1. PICK i \in Ids : obj' = [obj EXCEPT ![s] = [obj[s] EXCEPT !.link = "CONNECTED", !.back = "CONNECTED",
                                                                  !.peer = i, !.read = "no"]]
    BY <1>1, <1>7 DEF LinkUp
  <2>2. PICK o : o = [obj[s] EXCEPT !.link = "CONNECTED", !.back = "CONNECTED", !.peer = i, !.read = "no"]
    OBVIOUS
  <2>3. o.link = "CONNECTED" /\ o.back = "CONNECTED" /\ obj[s].link = "CONNECTING"
    BY <1>1, <1>2, <1>7, <2>2 DEF Session, TaskOK, LinkUp
  <2> QED BY <1>1, <1>5, <2>1, <2>2, <2>3 DEF LinkTo
<1>8. CASE LinkFails(t)
  <2>1. PICK o : o = IF try[t].fresh THEN Blank ELSE IF try[t].shut THEN obj[s]
                     ELSE [obj[s] EXCEPT !.link = obj[s].back]
    OBVIOUS
  <2>2. obj' = [obj EXCEPT ![s] = o] /\ try[t].pc = "link"
    BY <1>1, <1>8, <2>1 DEF LinkFails
  <2>3. CASE try[t].fresh
    BY <1>1, <1>3, <1>5, <2>1, <2>2, <2>3, LinkDown
  <2>4. CASE ~try[t].fresh /\ try[t].shut
    BY <1>1, <1>5, <2>1, <2>2, <2>4 DEF LinkTo
  <2>5. CASE ~try[t].fresh /\ ~try[t].shut
    <3>1. obj[s].link = "CONNECTING" /\ o.link = obj[s].back /\ o.back = obj[s].back
      BY <1>1, <1>2, <2>1, <2>2, <2>5 DEF TaskOK, Session
    <3> QED BY <1>1, <1>5, <2>2, <3>1 DEF LinkTo
  <2> QED BY <2>3, <2>4, <2>5
<1>9. CASE Identified(t)
  <2>1. PICK i : i = obj[s].peer
    OBVIOUS
  <2>2. PICK old : old = sess[i]
    OBVIOUS
  <2>3. PICK o : o = [obj[s] EXCEPT !.id = i, !.read = "yes"]
    OBVIOUS
  <2>4. o.link = obj[s].link /\ o.back = obj[s].back
    BY <1>2, <2>3 DEF Session
  <2>5. \A u \in Sessions : obj'[u] = IF u = s THEN o ELSE IF u = old THEN Blank ELSE obj[u]
    BY <1>1, <1>9, <2>1, <2>2, <2>3 DEF Identified
  <2>6. ASSUME NEW u \in Sessions
        PROVE  LinkTo(u, obj'[u]) /\ obj'[u].link \in {obj[u].link, "DISCONNECTED"}
    <3>1. CASE u = s
      BY <2>4, <2>5, <3>1 DEF LinkTo
    <3>2. CASE u # s /\ u = old
      BY <1>3, <2>5, <3>2, LinkDown
    <3>3. CASE u # s /\ u # old
      BY <2>5, <3>3 DEF LinkTo
    <3> QED BY <3>1, <3>2, <3>3
  <2> QED BY <2>6 DEF LinksStep
<1>10. ASSUME Closes(t) PROVE LinksStep /\ \A u \in Sessions : u = s \/ obj'[u].link = obj[u].link
  <2>1. obj' = [obj EXCEPT ![s] = Dropped(obj[s])]
    BY <1>1, <1>10 DEF Closes
  <2> QED BY <1>5, <2>1, LinkDropped
<1>11. CASE Back(t)
  <2>1. PICK o : o = [obj[s] EXCEPT !.addr = try[t].key, !.read = "yes"]
    OBVIOUS
  <2>2. o.link = obj[s].link /\ o.back = obj[s].back
    BY <1>2, <2>1 DEF Session
  <2>3. obj' = [obj EXCEPT ![s] = o]
    BY <1>1, <1>11, <2>1 DEF Back
  <2> QED BY <1>1, <1>5, <2>2, <2>3 DEF LinkTo
<1>12. CASE InfoFails(t)
  <2>1. PICK o : o = [obj[s] EXCEPT !.read = "failed"]
    OBVIOUS
  <2>2. o.link = obj[s].link /\ o.back = obj[s].back
    BY <1>2, <2>1 DEF Session
  <2>3. Closes(t) \/ obj' = obj \/ obj' = [obj EXCEPT ![s] = o]
    BY <1>1, <1>12, <2>1 DEF InfoFails
  <2> QED BY <1>1, <1>4, <1>5, <1>10, <2>2, <2>3 DEF LinkTo
<1>13. CASE Refused(t) \/ NotBack(t)
  BY <1>1, <1>10, <1>13 DEF Refused, NotBack
<1>14. CASE NeverBegins(t)
  BY <1>4, <1>14 DEF NeverBegins
<1>15. CASE CloseReturns(t)
  <2>1. obj' = obj \/ obj' = [obj EXCEPT ![s] = Blank]
    BY <1>1, <1>15 DEF CloseReturns
  <2> QED BY <1>1, <1>3, <1>4, <1>5, <2>1, LinkDown
<1> QED BY <1>6, <1>7, <1>8, <1>9, <1>11, <1>12, <1>13, <1>14, <1>15 DEF TryStep

LEMMA CancelStarts ==
  ASSUME IInv, NEW keys, NEW why \in {"stop", "release", "aclose"}, CancelConnects(keys, why)
  PROVE  \A t \in Tries : SameStart(t)
BY CancelKeeps DEF SameStart

LEMMA CallTasks ==
  ASSUME IInv, NEW p \in Ops, OpStarts(p) \/ OpStep(p)
  PROVE  \A t \in Tries : SameStart(t)
<1>1. ASSUME UNCHANGED try PROVE \A t \in Tries : SameStart(t)
  BY <1>1 DEF SameStart
<1>2. ASSUME NEW kind, NEW finish \in BOOLEAN, EndsGather(p, kind, finish)
      PROVE  \A t \in Tries : SameStart(t)
  <2>1. CASE finish
    BY <1>1, <1>2, <2>1 DEF EndsGather
  <2>2. CASE ~finish
    BY <1>2, <2>2, CancelStarts DEF EndsGather
  <2> QED BY <2>1, <2>2
<1>3. ASSUME NEW ids, NEW all, NEW kind \in {"release", "aclose"}, Releases(p, ids, all, kind)
      PROVE  \A t \in Tries : SameStart(t)
  BY <1>3, CancelStarts DEF Releases
<1>4. CASE \E s \in Sessions : CloseOne(p, s)
  <2>1. PICK s \in Sessions : try' = Shut(try, s)
    BY <1>4 DEF CloseOne
  <2> QED BY <2>1, ShutKeeps DEF SameStart
<1>5. CASE Stopped(p) \/ Freed(p) \/ Released(p)
  BY <1>1, <1>5 DEF Stopped, Freed, Released
<1>6. CASE PendingDone(p) \/ Aclose(p)
  BY <1>6, CancelStarts DEF PendingDone, Aclose
<1>7. CASE AcloseStops(p) \/ \E finish \in BOOLEAN : StopGather(p, finish)
  BY <1>2, <1>7 DEF AcloseStops, StopGather
<1>8. CASE AcloseReleases(p) \/ (\E ids : \E all : Release(p, ids, all))
  BY <1>3, <1>8 DEF AcloseReleases, Release
<1> QED BY <1>4, <1>5, <1>6, <1>7, <1>8 DEF OpStarts, OpStep

LEMMA CallLinks ==
  ASSUME IInv, NEW p \in Ops, OpStarts(p) \/ OpStep(p)
  PROVE  LinksStep /\ \A u \in Sessions : obj'[u].link \in {obj[u].link, "DISCONNECTED"}
<1>1. CASE \E s \in Sessions : CloseOne(p, s)
  <2>1. PICK s \in Sessions : obj' = [obj EXCEPT ![s] = Dropped(obj[s])]
    BY <1>1 DEF CloseOne
  <2>2. PICK o : o = Dropped(obj[s])
    OBVIOUS
  <2>3. o.link = "DISCONNECTED"
    BY <2>2, Types DEF Dropped, Session
  <2>4. obj' = [obj EXCEPT ![s] = o] /\ LinkTo(s, o)
    BY <2>1, <2>2, LinkDropped
  <2>5. obj'[s] = o
    BY <2>4, Types
  <2>6. LinksStep /\ \A u \in Sessions : u # s => obj'[u] = obj[u]
    BY <2>4, LinkOne
  <2> QED BY <2>3, <2>5, <2>6
<1>2. CASE Released(p)
  <2>1. ASSUME NEW s \in Sessions
        PROVE  obj'[s].link = obj[s].link /\ obj'[s].back = obj[s].back
    <3>1. PICK o \in Session : o = obj[s]
      BY Types
    <3>2. obj'[s] \in {o, [o EXCEPT !.addr = None]}
      BY <1>2, <3>1 DEF Released
    <3> QED BY <3>1, <3>2 DEF Session
  <2> QED BY <2>1 DEF LinksStep, LinkTo
<1>3. CASE UNCHANGED obj
  BY <1>3 DEF LinksStep, LinkTo
<1> QED BY <1>1, <1>2, <1>3 DEF OpStarts, OpStep, StopGather, Release, Aclose, PendingDone, Stopped,
                                Freed, AcloseStops, AcloseReleases

LEMMA OutsideLinks ==
  ASSUME IInv, NEW s \in Sessions, Loses(s) \/ CloseElsewhere(s)
  PROVE  LinksStep /\ (\A t \in Tries : SameStart(t))
         /\ \A u \in Sessions : \/ obj'[u].link \in {obj[u].link, "DISCONNECTED"}
                                \/ obj[u].link # "DISCONNECTED"
<1>1. try' = Shut(try, s) /\ obj[s].link = "CONNECTED"
  BY DEF Loses, CloseElsewhere
<1>2. \A t \in Tries : SameStart(t)
  BY <1>1, ShutKeeps DEF SameStart
<1>3. PICK o : obj' = [obj EXCEPT ![s] = o] /\ LinkTo(s, o)
  <2>1. CASE Loses(s)
    <3>1. PICK d : d = Dropped(obj[s])
      OBVIOUS
    <3>2. d \in Session
      BY <3>1, Types DEF Dropped, Session
    <3>3. PICK o : o = [d EXCEPT !.link = "LOST", !.back = "LOST"]
      OBVIOUS
    <3>4. o.link = "LOST" /\ o.back = "LOST"
      BY <3>2, <3>3 DEF Session
    <3>5. obj' = [obj EXCEPT ![s] = o]
      BY <2>1, <3>1, <3>3 DEF Loses
    <3>6. LinkTo(s, o)
      BY <1>1, <3>4 DEF LinkTo
    <3> QED BY <3>5, <3>6
  <2>2. CASE CloseElsewhere(s)
    BY <2>2, LinkDropped DEF CloseElsewhere
  <2> QED BY <2>1, <2>2
<1>4. LinksStep /\ \A u \in Sessions : u # s => obj'[u] = obj[u]
  BY <1>3, LinkOne
<1> QED BY <1>1, <1>2, <1>4

LEMMA SpawnStart ==
  ASSUME IInv, StartInv, NEW a \in Addresses, GatherSees(a) \/ RecoverySees(a)
  PROVE  StartInv'
<1>1. obj' = obj /\ \E s, src, fresh : Spawn(a, s, src, fresh) /\ (fresh => obj[s].link = "DISCONNECTED")
  BY DEF GatherSees, RecoverySees, Unused
<1>2. PICK s, src, fresh : Spawn(a, s, src, fresh) /\ (fresh => obj[s].link = "DISCONNECTED")
  BY <1>1
<1>3. PICK t \in Tries : try' = [try EXCEPT ![t] = [Free EXCEPT !.pc = "start", !.key = a, !.s = s,
                                                              !.fresh = fresh, !.src = src]]
  BY <1>2 DEF Spawn
<1>4. PICK r : r = [Free EXCEPT !.pc = "start", !.key = a, !.s = s, !.fresh = fresh, !.src = src]
  OBVIOUS
<1>5. r.s = s /\ r.fresh = fresh
  BY <1>4 DEF Free
<1>6. \A u \in Tries : try'[u] = IF u = t THEN r ELSE try[u]
  BY <1>3, <1>4, Types
<1> QED BY <1>1, <1>2, <1>5, <1>6 DEF StartInv

LEMMA LinkStep ==
  ASSUME IInv, StartInv, [Next]_vars
  PROVE  LinksStep /\ StartInv'
<1>1. ASSUME UNCHANGED obj PROVE LinksStep
  BY <1>1 DEF LinksStep, LinkTo
<1>2. ASSUME UNCHANGED <<obj, try>> PROVE LinksStep /\ StartInv'
  BY <1>1, <1>2 DEF StartInv
<1>3. CASE StartGather \/ UNCHANGED vars
  BY <1>2, <1>3 DEF StartGather, vars
<1>4. ASSUME NEW a \in Addresses, GatherSees(a) \/ RecoverySees(a) PROVE LinksStep /\ StartInv'
  BY <1>1, <1>4, SpawnStart DEF GatherSees, RecoverySees
<1>5. ASSUME NEW t \in Tries, TryStep(t) PROVE LinksStep /\ StartInv'
  <2>1. LinksStep /\ \A u \in Sessions : \/ u = try[t].s
                                         \/ obj'[u].link \in {obj[u].link, "DISCONNECTED"}
    BY <1>5, TryStepLinks
  <2>2. Works(t) /\ try'[t].pc # "start" /\ \A u \in Tries : u # t => SameStart(u)
    BY <1>5, TryStepTasks
  <2>3. StartInv'
    BY <2>1, <2>2, StartKeeps
  <2> QED BY <2>1, <2>3
<1>6. ASSUME NEW p \in Ops, OpStarts(p) \/ OpStep(p) PROVE LinksStep /\ StartInv'
  BY <1>6, CallTasks, CallLinks, StartKeeps, FleetAssumption
<1>7. ASSUME NEW s \in Sessions, Loses(s) \/ CloseElsewhere(s) PROVE LinksStep /\ StartInv'
  BY <1>7, OutsideLinks, StartKeeps, FleetAssumption
<1> QED BY <1>3, <1>4, <1>5, <1>6, <1>7 DEF Next

LEMMA IsLinkStep == ASSUME NEW s, LinkTo(s, obj'[s]) PROVE [L(s)!LinkNext]_(L(s)!lvars)
BY DEF LinkTo, L!LinkNext, L!Begin, L!Succeed, L!Fail, L!Lost, L!Release, L!lvars

-----------------------------------------------------------------------------
(* Theorems *)

\* The sessions, the connect tasks and the calls of a Fleet (fleet.py) stay what the code makes
\* of them.
THEOREM TypeCorrect == Spec => []TypeOK
<1>1. IInv => TypeOK
  BY DEF IInv
<1> QED BY <1>1, Inductive, PTL

\* A session that has read who answers on its link is registered under that sensor's id,
\* whatever addresses the sensors take over from each other (Fleet.connect(), _regather()).
THEOREM SameSensorAlways == Spec => []SameSensor
<1>1. IInv => SameSensor
  BY DEF IInv
<1> QED BY <1>1, Inductive, PTL

\* Once no stop_gather() is under way and the loop is off, each task of the loop that still
\* runs has been cancelled.
THEOREM StopIsFinalAlways == Spec => []StopIsFinal
<1>1. IInv => StopIsFinal
  BY DEF IInv, StopInv, StopIsFinal, Untouched, Works
<1> QED BY <1>1, Inductive, PTL

\* What release() or aclose() has closed, no scan and no task brings back before it is forgotten.
THEOREM StaysReleasedAlways == Spec => []StaysReleased
<1>1. IInv => StaysReleased
  BY DEF IInv, RelInv, StaysReleased
<1> QED BY <1>1, Inductive, PTL

\* A link is registered, still being asked who it is, or has failed to say.
THEOREM NoStrayLinkAlways == Spec => []NoStrayLink
<1>1. IInv => NoStrayLink
  <2> SUFFICES ASSUME IInv, NEW s \in Sessions, obj[s].link = "CONNECTED"
               PROVE  \/ s \in Known
                      \/ \E t \in Tries : try[t].s = s
                      \/ obj[s].read = "failed"
    BY DEF NoStrayLink
  <2> QED BY KnownRegistered DEF IInv, StrayInv
<1> QED BY <1>1, Inductive, PTL

\* While the program runs, each remembered sensor has its session, and each session that is not
\* being released is remembered (Fleet._remember(), _release()).
THEOREM RemembersAlways == Spec => []RemembersWhatItHas
<1>1. IInv /\ MemInv => RemembersWhatItHas
  BY DEF MemInv, RemembersWhatItHas
<1> QED BY <1>1, CloseInductive, PTL

\* After aclose() no session is registered and what still connects has been cancelled, whatever
\* scans, connects and other calls it overtook.
THEOREM ClosedAlways == Spec => []ClosedForGood
<1>1. IInv /\ EndInv => ClosedForGood
  <2> SUFFICES ASSUME EndInv, ~recovery, \A p \in Ops : op[p].pc = "idle"
               PROVE  Known = {} /\ \A t \in Tries : try[t].pc # "free" => try[t].cancel # "no"
    BY DEF ClosedForGood
  <2>1. \A p \in Ops : ~Closing(p)
    BY DEF Closing
  <2>2. (\A t \in Tries : ~Untouched(t)) /\ \A i \in Ids : sess[i] = None
    BY <2>1 DEF EndInv
  <2> QED BY <2>2 DEF Known, Untouched, Works
<1> QED BY <1>1, CloseInductive, PTL

\* Whatever scans, connect tasks and calls do to it, the link of each session only ever makes
\* the steps that LinkState.tla promises of a DeviceSession.
THEOREM KeepsToLinkState == Spec => SessionsKeepTheirState
<1>1. Init => IInv /\ StartInv /\ \A s \in Sessions : L(s)!LinkInit
  <2> SUFFICES ASSUME Init
               PROVE  IInv /\ StartInv /\ \A s \in Sessions : L(s)!LinkInit
    OBVIOUS
  <2>1. StartInv
    BY FreeFacts DEF Init, StartInv
  <2>2. ASSUME NEW s \in Sessions
        PROVE  obj[s].link = "DISCONNECTED" /\ obj[s].back = "DISCONNECTED"
    BY DEF Init, Blank
  <2> QED BY <2>1, <2>2, InitInv DEF L!LinkInit
<1>2. IInv /\ StartInv /\ [Next]_vars => (IInv /\ StartInv)'
  BY NextInv, LinkStep
<1>3. IInv /\ StartInv /\ [Next]_vars => [\A s \in Sessions : [L(s)!LinkNext]_(L(s)!lvars)]_vars
  BY LinkStep, IsLinkStep DEF LinksStep
<1> QED BY <1>1, <1>2, <1>3, PTL DEF Spec, SessionsKeepTheirState
=============================================================================
