--------------------------- MODULE SessionProofs ---------------------------
(***************************************************************************)
(* Proofs about Session.tla, for every set of attempts, closers, tasks and *)
(* links.                                                                  *)
(***************************************************************************)
EXTENDS Session, TLAPS

\* The lock and the suspension points agree.
LockHeld == \A a \in Attempts : lock = a <=> att[a].pc \in Locked

\* The driver has no client while a connect holds the lock: TakeLock drops it, and every action
\* that sets it gives the lock back.
NoClientUnderLock == lock # None => client = None

\* disconnect() is only ever called on links that are up and that nobody uses any more.
AskedUnused == /\ asked \subseteq up
               /\ client \notin asked
               /\ \A a \in Attempts : att[a].pc = "open" => att[a].link \notin asked

OnlyOpenHasLink == \A a \in Attempts : att[a].pc # "open" => att[a].link = None

OwnerInv == LockHeld /\ OneOwner

GoneIsDown == gone \cap up = {}

LinkInv == NoClientUnderLock /\ AskedUnused /\ OnlyOpenHasLink /\ GoneIsDown
           /\ ConnectedHasLink /\ NoOrphanLink

-----------------------------------------------------------------------------
LEMMA TypeInit == Init => TypeOK
  BY DistinctTasks DEF Init, TypeOK, Idle, Ended, Attempt, Loop, Closer, Loops, Trying, Locked

LEMMA CutType == ASSUME NEW f \in [Loops -> Loop] PROVE Cut(f) \in [Loops -> Loop]
  BY DEF Cut, Loop

LEMMA CancelType == ASSUME NEW f \in [Loops -> Loop], NEW ts
                    PROVE  Cancel(f, ts) \in [Loops -> Loop]
  BY DEF Cancel, Loop

LEMMA LoopValues == Ended \in Loop /\ Asleep \in Loop /\ Request \in Loop
  BY DEF Ended, Asleep, Request, Loop

LEMMA LoseType ==
  ASSUME TypeOK, NEW f \in [Loops -> Loop], NEW me, Lose(f, me)
  PROVE  /\ state' \in {"DISCONNECTED", "CONNECTING", "CONNECTED", "LOST"}
         /\ kaTask' \in KLoops \cup {None}
         /\ pirTask' \in PLoops \cup {None}
         /\ loop' \in [Loops -> Loop]
  BY CancelType DEF Lose, TypeOK

\* An attempt that gives its link up is still an attempt.
LEMMA UnlinkType ==
  ASSUME NEW r \in Attempt, NEW pc \in Trying \cup {"idle", "pause"}
  PROVE  /\ [r EXCEPT !.pc = pc, !.link = None] \in Attempt
         /\ [r EXCEPT !.pc = pc, !.link = None, !.prev = "DISCONNECTED"] \in Attempt
<1>1. [r EXCEPT !.pc = pc, !.link = None] \in Attempt
  BY DEF Attempt
<1>2. [r EXCEPT !.pc = pc, !.link = None, !.prev = "DISCONNECTED"] \in Attempt
  BY DEF Attempt
<1>3. QED
  BY <1>1, <1>2

LEMMA FailsType ==
  ASSUME TypeOK, NEW a \in Attempts, Fails(a)
  PROVE  /\ state' \in {"DISCONNECTED", "CONNECTING", "CONNECTED", "LOST"}
         /\ lock' \in Attempts \cup {None}
         /\ att' \in [Attempts -> Attempt]
<1>1. PICK r : /\ att' = [att EXCEPT ![a] = r]
               /\ \E pc \in {"pause", "idle"} :
                    r = IF pc = "idle" THEN Idle
                        ELSE [att[a] EXCEPT !.pc = pc, !.link = None, !.prev = "DISCONNECTED"]
  BY DEF Fails
<1>2. att' \in [Attempts -> Attempt]
  <2>1. att[a] \in Attempt /\ Idle \in Attempt
    BY DEF TypeOK, Attempt, Idle
  <2>2. PICK pc \in {"pause", "idle"} :
          r = IF pc = "idle" THEN Idle
              ELSE [att[a] EXCEPT !.pc = pc, !.link = None, !.prev = "DISCONNECTED"]
    BY <1>1
  <2>3. CASE pc = "idle"
    BY <1>1, <2>1, <2>2, <2>3 DEF TypeOK
  <2>4. CASE pc = "pause"
    <3>1. r = [att[a] EXCEPT !.pc = "pause", !.link = None, !.prev = "DISCONNECTED"]
      BY <2>2, <2>4
    <3>2. r \in Attempt
      BY <2>1, <3>1, UnlinkType
    <3>3. QED
      BY <1>1, <3>2 DEF TypeOK
  <2>5. QED
    BY <2>3, <2>4
<1>3. QED
  BY <1>2 DEF Fails, TypeOK, Attempt

\* What the except clauses leave of the attempt.
LEMMA FailsLeaves ==
  ASSUME TypeOK, NEW a \in Attempts, Fails(a)
  PROVE  /\ att'[a].pc \in {"idle", "pause"} /\ att'[a].link = None
         /\ \A b \in Attempts \ {a} : att'[b] = att[b]
  BY DEF Fails, TypeOK, Idle, Attempt

LEMMA EstablishType ==
  ASSUME TypeOK, NEW a \in Attempts, NEW r \in BOOLEAN, Establish(a, r)
  PROVE  TypeOK'
  BY DEF Establish, TypeOK, tasks, radio, Attempt, Trying, Locked

LEMMA TypeAttempt ==
  ASSUME TypeOK, NEW a \in Attempts,
         \/ AttemptStep(a) \/ TakeLock(a) \/ StopRetrying(a)
         \/ Connect(a) \/ Reconnect(a) \/ Retry(a) \/ RadioLink(a)
         \/ GivesUp(a) \/ StopWaiting(a)
  PROVE  TypeOK'
<1>1. CASE ScanDone(a)
  BY <1>1 DEF ScanDone, TypeOK, Attempt, Trying, tasks, radio
<1>2. CASE StaleDone(a)
  BY <1>2 DEF StaleDone, TypeOK, Attempt, Trying, Locked, tasks, radio
<1>3. CASE OpenFails(a)
  <2>1. att' \in [Attempts -> Attempt]
    <3>1. PICK r : r = [att[a] EXCEPT !.pc = "abort", !.link = None]
      OBVIOUS
    <3>2. r \in Attempt
      BY <3>1, UnlinkType DEF TypeOK, Trying, Locked
    <3>3. att' = [att EXCEPT ![a] = r]
      BY <1>3, <3>1 DEF OpenFails
    <3>4. QED
      BY <3>2, <3>3 DEF TypeOK
  <2>2. QED
    BY <1>3, <2>1 DEF OpenFails, TypeOK, tasks
<1>4. CASE AbortDone(a)
  BY <1>4, FailsType DEF AbortDone, TypeOK, tasks, radio
<1>5. CASE OpenClosed(a)
  BY <1>5, CutType DEF OpenClosed, TypeOK, Attempt, Trying, Locked
<1>6. CASE UndoDone(a)
  BY <1>6, FailsType DEF UndoDone, TypeOK, tasks, radio
<1>7. CASE OpenDead(a)
  BY <1>7, FailsType DEF OpenDead, TypeOK, Attempt, tasks, radio
<1>8. CASE OpenOk(a)
  BY <1>8, LoopValues DEF OpenOk, TypeOK, Attempt, Idle, Loops, radio
<1>9. CASE TakeLock(a)
  BY <1>9, FailsType, CutType DEF TakeLock, TypeOK, DropClient, Attempt, Trying, Locked, tasks, radio
<1>10. CASE StopRetrying(a)
  BY <1>10 DEF StopRetrying, TypeOK, Attempt, Idle, tasks, radio
<1>11. CASE Connect(a)
  BY <1>11, EstablishType DEF Connect
<1>12. CASE Reconnect(a)
  <2>1. CASE Establish(a, TRUE)
    BY <2>1, EstablishType
  <2>2. CASE /\ att' = [att EXCEPT ![a] = [Idle EXCEPT !.pc = "pause", !.retry = TRUE]]
             /\ UNCHANGED <<state, lock, closer, client, tasks, radio>>
    <3>1. [Idle EXCEPT !.pc = "pause", !.retry = TRUE] \in Attempt
      BY DEF Idle, Attempt
    <3>2. QED
      BY <2>2, <3>1 DEF TypeOK, tasks, radio
  <2>3. QED
    BY <1>12, <2>1, <2>2 DEF Reconnect
<1>13. CASE Retry(a)
  BY <1>13, EstablishType DEF Retry
<1>14. CASE RadioLink(a)
  BY <1>14 DEF RadioLink, TypeOK, Attempt, tasks
<1>15. CASE GivesUp(a)
  BY <1>15, FailsType DEF GivesUp, TypeOK, tasks, radio
<1>16. CASE StopWaiting(a)
  BY <1>16, FailsType DEF StopWaiting, TypeOK, tasks, radio
<1> QED
  BY <1>1, <1>2, <1>3, <1>4, <1>5, <1>6, <1>7, <1>8, <1>9, <1>10, <1>11, <1>12, <1>13, <1>14, <1>15, <1>16 DEF AttemptStep

LEMMA TypeCloser ==
  ASSUME TypeOK, NEW c \in Closers, Close(c) \/ CloserStep(c)
  PROVE  TypeOK'
<1>1. CASE Close(c)
  <2>1. loop' \in [Loops -> Loop]
    <3>1. loop \in [Loops -> Loop]
      BY DEF TypeOK
    <3>2. QED
      BY <1>1, <3>1, CutType, CancelType DEF Close
  <2>2. att' \in [Attempts -> Attempt]
    <3>1. \A a \in Attempts : [att[a] EXCEPT !.closed = TRUE] \in Attempt
      BY DEF TypeOK, Attempt
    <3>2. QED
      BY <1>1, <3>1 DEF Close, TypeOK
  <2>3. closer' \in [Closers -> Closer]
    <3>1. {kaTask, pirTask} \ {None} \in SUBSET Loops
      BY DEF TypeOK, Loops
    <3>2. QED
      BY <1>1, <3>1 DEF Close, TypeOK, Closer
  <2>4. QED
    BY <1>1, <2>1, <2>2, <2>3 DEF Close, TypeOK, DropClient, radio
<1>2. CASE CloseDropped(c)
  BY <1>2 DEF CloseDropped, TypeOK, Closer, tasks, radio
<1>3. CASE CloseReturns(c)
  BY <1>3 DEF CloseReturns, TypeOK, Closer, tasks, radio
<1> QED
  BY <1>1, <1>2, <1>3 DEF CloserStep

LEMMA GivesUpType ==
  ASSUME TypeOK, NEW k \in KLoops, GivesLinkUp(k)
  PROVE  /\ state' \in {"DISCONNECTED", "CONNECTING", "CONNECTED", "LOST"}
         /\ kaTask' \in KLoops \cup {None}
         /\ pirTask' \in PLoops \cup {None}
         /\ loop' \in [Loops -> Loop]
  BY CancelType, LoopValues DEF GivesLinkUp, TypeOK

LEMMA TypePing ==
  ASSUME TypeOK, NEW k \in KLoops, PingStep(k)
  PROVE  TypeOK'
<1>1. CASE PingDue(k)
  BY <1>1, LoopValues DEF PingDue, TypeOK, Loops, radio
<1>2. CASE PingMissedOrAnswered(k)
  BY <1>2, LoopValues DEF PingMissedOrAnswered, TypeOK, Loops, radio
<1>3. CASE PingFails(k)
  BY <1>3, GivesUpType DEF PingFails, TypeOK, Loops, radio
<1>4. CASE PingStallEnds(k)
  BY <1>4, GivesUpType, LoopValues DEF PingStallEnds, TypeOK, Loops, radio
<1> QED
  BY <1>1, <1>2, <1>3, <1>4 DEF PingStep

LEMMA TypeRest ==
  ASSUME TypeOK,
         \/ \E p \in PLoops : PollStep(p)
         \/ \E t \in Loops : Stall(t) \/ CancelLands(t)
         \/ OtherStall
         \/ \E l \in Links : LinkDown(l) \/ OnDisconnected(l)
  PROVE  TypeOK'
<1>1. ASSUME NEW p \in PLoops, PollDue(p) PROVE TypeOK'
  BY <1>1, LoopValues DEF PollDue, TypeOK, Loops, radio
<1>2. ASSUME NEW p \in PLoops, PollDone(p) PROVE TypeOK'
  BY <1>2, LoopValues DEF PollDone, TypeOK, Loops, radio
<1>3. ASSUME NEW t \in Loops, Stall(t) PROVE TypeOK'
  <2>1. [loop EXCEPT ![t].pc = "stall"] \in [Loops -> Loop]
    BY DEF TypeOK, Loop
  <2>2. QED
    BY <1>3, <2>1, CutType, LoseType DEF Stall, DropClient, TypeOK
<1>4. ASSUME NEW t \in Loops, CancelLands(t) PROVE TypeOK'
  BY <1>4, LoopValues DEF CancelLands, TypeOK, radio
<1>5. CASE OtherStall
  <2>1. loop \in [Loops -> Loop]
    BY DEF TypeOK
  <2>2. QED
    BY <1>5, <2>1, CutType, LoseType DEF OtherStall, DropClient, TypeOK
<1>6. ASSUME NEW l \in Links, LinkDown(l) PROVE TypeOK'
  BY <1>6 DEF LinkDown, TypeOK, tasks
<1>7. ASSUME NEW l \in Links, OnDisconnected(l) PROVE TypeOK'
  <2>1. loop \in [Loops -> Loop]
    BY DEF TypeOK
  <2>2. QED
    BY <1>7, <2>1, CutType, LoseType DEF OnDisconnected, TypeOK, tasks
<1> QED
  BY <1>1, <1>2, <1>3, <1>4, <1>5, <1>6, <1>7 DEF PollStep

LEMMA TypeStep == ASSUME TypeOK, [Next]_vars PROVE TypeOK'
<1>1. CASE Next
  BY <1>1, TypeAttempt, TypeCloser, TypePing, TypeRest DEF Next
<1>2. CASE UNCHANGED vars
  BY <1>2 DEF vars, TypeOK
<1>3. QED
  BY <1>1, <1>2

\* The variables of DeviceSession and of its driver keep their types.
THEOREM TypeCorrect == Spec => []TypeOK
  BY TypeInit, TypeStep, PTL DEF Spec

-----------------------------------------------------------------------------
(* One owner *)

LEMMA OwnerFrame ==
  ASSUME OwnerInv, att' = att, lock' = lock,
         state' = state \/ (state = "CONNECTED" /\ state' = "LOST")
  PROVE  OwnerInv'
  BY DEF OwnerInv, LockHeld, OneOwner, Current

\* An attempt that is not in _establish() starts it.
LEMMA OwnerEstablish ==
  ASSUME TypeOK, OwnerInv, NEW a \in Attempts, att[a].pc \in {"idle", "pause"},
         NEW r \in BOOLEAN, Establish(a, r)
  PROVE  OwnerInv'
<1>1. PICK pc \in {"scan", "wait"} :
        att' = [att EXCEPT ![a] = [pc |-> pc, prev |-> state, closed |-> FALSE,
                                   retry |-> r, link |-> None]]
  BY DEF Establish
<1>2. \A b \in Attempts : ~Current(b)
  BY DEF OwnerInv, OneOwner, Establish
<1>3. /\ state' = "CONNECTING" /\ lock' = lock
      /\ att'[a].pc \in {"scan", "wait"} /\ ~att'[a].closed
      /\ \A b \in Attempts \ {a} : att'[b] = att[b]
  BY <1>1 DEF Establish, TypeOK
<1>4. LockHeld'
  BY <1>3 DEF OwnerInv, LockHeld, Locked
<1>5. OneOwner'
  BY <1>2, <1>3 DEF OneOwner, Current, Trying
<1>6. QED
  BY <1>4, <1>5 DEF OwnerInv

\* An attempt moves on inside _establish(), taking the lock or keeping what it has.
LEMMA OwnerMove ==
  ASSUME TypeOK, OwnerInv, NEW a \in Attempts, att[a].pc \in Trying, state' = state,
         att' \in [Attempts -> Attempt],
         \A b \in Attempts \ {a} : att'[b] = att[b],
         att'[a].pc \in Trying, att'[a].closed = att[a].closed,
         \/ lock' = lock /\ (att'[a].pc \in Locked <=> att[a].pc \in Locked)
         \/ lock = None /\ lock' = a /\ att'[a].pc \in Locked
  PROVE  OwnerInv'
<1>1. LockHeld'
  BY DistinctTasks DEF OwnerInv, LockHeld
<1>2. OneOwner'
  BY DEF OwnerInv, OneOwner, Current
<1>3. QED
  BY <1>1, <1>2 DEF OwnerInv

\* An attempt leaves _establish() by its except clauses.
LEMMA OwnerFails ==
  ASSUME TypeOK, OwnerInv, NEW a \in Attempts, att[a].pc \in Trying, Fails(a)
  PROVE  OwnerInv'
<1>1. /\ att'[a].pc \notin Trying
      /\ \A b \in Attempts \ {a} : att'[b] = att[b]
  BY DEF Fails, TypeOK, Idle, Trying, Locked, Attempt
<1>2. LockHeld'
  BY <1>1, DistinctTasks DEF Fails, OwnerInv, LockHeld, Trying
<1>3. OneOwner'
  <2>1. CASE att[a].closed
    BY <1>1, <2>1 DEF Fails, OwnerInv, OneOwner, Current
  <2>2. CASE ~att[a].closed
    <3>1. \A b \in Attempts : Current(b) => b = a
      BY <2>2 DEF OwnerInv, OneOwner, Current
    <3>2. state' # "CONNECTING"
      BY <2>2 DEF Fails, TypeOK, Attempt
    <3>3. QED
      BY <1>1, <3>1, <3>2 DEF OneOwner, Current
  <2>3. QED
    BY <2>1, <2>2
<1>4. QED
  BY <1>2, <1>3 DEF OwnerInv

LEMMA OwnerAttempt ==
  ASSUME TypeOK, TypeOK', OwnerInv, NEW a \in Attempts,
         \/ AttemptStep(a) \/ TakeLock(a) \/ StopRetrying(a)
         \/ Connect(a) \/ Reconnect(a) \/ Retry(a) \/ RadioLink(a)
         \/ GivesUp(a) \/ StopWaiting(a)
  PROVE  OwnerInv'
<1> USE DEF Trying, Locked
<1>0. att' \in [Attempts -> Attempt]
  BY DEF TypeOK
<1>1. CASE ScanDone(a)
  BY <1>0, <1>1, OwnerMove DEF ScanDone, TypeOK
<1>2. CASE StaleDone(a)
  BY <1>0, <1>2, OwnerMove DEF StaleDone, TypeOK
<1>3. CASE OpenFails(a)
  BY <1>0, <1>3, OwnerMove DEF OpenFails, TypeOK
<1>4. CASE OpenClosed(a)
  BY <1>0, <1>4, OwnerMove DEF OpenClosed, TypeOK
<1>5. CASE RadioLink(a)
  BY <1>0, <1>5, OwnerMove DEF RadioLink, TypeOK
<1>6. CASE AbortDone(a) \/ UndoDone(a) \/ OpenDead(a) \/ GivesUp(a) \/ StopWaiting(a)
  BY <1>6, OwnerFails DEF AbortDone, UndoDone, OpenDead, GivesUp, StopWaiting
<1>7. CASE TakeLock(a)
  <2>1. CASE att[a].closed
    BY <1>7, <2>1, OwnerFails DEF TakeLock
  <2>2. CASE ~att[a].closed
    <3>1. \E pc \in {"open", "stale"} : att' = [att EXCEPT ![a].pc = pc]
      BY <1>7, <2>2 DEF TakeLock
    <3>2. /\ att'[a].pc \in {"open", "stale"} /\ att'[a].closed = att[a].closed
          /\ \A b \in Attempts \ {a} : att'[b] = att[b]
      BY <3>1 DEF TypeOK, Attempt
    <3>3. QED
      BY <1>0, <1>7, <2>2, <3>2, OwnerMove DEF TakeLock
  <2>3. QED
    BY <2>1, <2>2
<1>8. CASE Connect(a) \/ Retry(a)
  BY <1>8, OwnerEstablish DEF Connect, Retry
<1>9. CASE Reconnect(a)
  <2>1. CASE Establish(a, TRUE)
    BY <1>9, <2>1, OwnerEstablish DEF Reconnect
  <2>2. CASE /\ att' = [att EXCEPT ![a] = [Idle EXCEPT !.pc = "pause", !.retry = TRUE]]
             /\ state' = state /\ lock' = lock
    <3>1. [Idle EXCEPT !.pc = "pause", !.retry = TRUE].pc = "pause"
      BY DEF Idle
    <3>2. /\ att'[a].pc = "pause" /\ att[a].pc = "idle"
          /\ \A b \in Attempts \ {a} : att'[b] = att[b]
      BY <1>9, <2>2, <3>1 DEF Reconnect, TypeOK
    <3>3. QED
      BY <2>2, <3>2 DEF OwnerInv, LockHeld, OneOwner, Current
  <2>3. QED
    BY <1>9, <2>1, <2>2 DEF Reconnect
<1>10. CASE StopRetrying(a)
  BY <1>10 DEF StopRetrying, Idle, OwnerInv, LockHeld, OneOwner, Current, TypeOK
<1>11. CASE OpenOk(a)
  <2>1. /\ lock = a /\ lock' = None /\ state' = "CONNECTED" /\ att'[a].pc = "idle"
        /\ \A b \in Attempts \ {a} : att'[b] = att[b]
    BY <1>11 DEF OpenOk, OwnerInv, LockHeld, Idle, TypeOK
  <2>2. \A b \in Attempts : Current(b) => b = a
    BY <1>11 DEF OpenOk, OwnerInv, OneOwner, Current
  <2>3. QED
    BY <2>1, <2>2, DistinctTasks DEF OwnerInv, LockHeld, OneOwner, Current
<1> QED
  BY <1>1, <1>2, <1>3, <1>4, <1>5, <1>6, <1>7, <1>8, <1>9, <1>10, <1>11 DEF AttemptStep

LEMMA OwnerClose ==
  ASSUME TypeOK, OwnerInv, NEW c \in Closers, Close(c)
  PROVE  OwnerInv'
<1>1. /\ lock' = lock /\ state' = "DISCONNECTED"
      /\ \A a \in Attempts : att'[a].pc = att[a].pc /\ ~Current(a)'
  <2>1. \A a \in Attempts : [att[a] EXCEPT !.closed = TRUE].pc = att[a].pc
                            /\ [att[a] EXCEPT !.closed = TRUE].closed = TRUE
    BY DEF TypeOK, Attempt
  <2>2. QED
    BY <2>1 DEF Close, Current, Trying, Locked
<1>2. QED
  BY <1>1 DEF OwnerInv, LockHeld, OneOwner

LEMMA OwnerStep ==
  ASSUME TypeOK, TypeOK', OwnerInv, [Next]_vars
  PROVE  OwnerInv'
<1>1. CASE UNCHANGED vars
  BY <1>1, OwnerFrame DEF vars
<1>2. ASSUME NEW c \in Closers, CloserStep(c) PROVE OwnerInv'
  BY <1>2, OwnerFrame DEF CloserStep, CloseDropped, CloseReturns
<1>3. ASSUME NEW k \in KLoops, PingStep(k) PROVE OwnerInv'
  BY <1>3, OwnerFrame
     DEF PingStep, PingDue, PingMissedOrAnswered, PingFails, PingStallEnds, GivesLinkUp
<1>4. ASSUME NEW p \in PLoops, PollStep(p) PROVE OwnerInv'
  BY <1>4, OwnerFrame DEF PollStep, PollDue, PollDone
<1>5. ASSUME NEW t \in Loops, Stall(t) \/ CancelLands(t) PROVE OwnerInv'
  BY <1>5, OwnerFrame DEF Stall, CancelLands, Lose
<1>6. CASE OtherStall
  BY <1>6, OwnerFrame DEF OtherStall, Lose
<1>7. ASSUME NEW l \in Links, LinkDown(l) \/ OnDisconnected(l) PROVE OwnerInv'
  BY <1>7, OwnerFrame DEF LinkDown, OnDisconnected, Lose
<1>8. QED
  BY <1>1, <1>2, <1>3, <1>4, <1>5, <1>6, <1>7, OwnerAttempt, OwnerClose DEF Next

-----------------------------------------------------------------------------
(* The link *)

IInv == TypeOK /\ OwnerInv /\ LinkInv /\ KeptAliveWhileConnected

LEMMA LinkInit == Init => LinkInv
  BY DistinctTasks DEF Init, LinkInv, NoClientUnderLock, GoneIsDown, AskedUnused, OnlyOpenHasLink,
     ConnectedHasLink, NoOrphanLink, Idle

\* A step that leaves the attempts, the driver and the radio alone, and does not connect.
LEMMA LinkFrame ==
  ASSUME LinkInv, UNCHANGED <<lock, att, client, up, asked, gone>>,
         state' = state \/ state' # "CONNECTED"
  PROVE  LinkInv'
  BY DEF LinkInv, NoClientUnderLock, GoneIsDown, AskedUnused, OnlyOpenHasLink, ConnectedHasLink, NoOrphanLink

\* A step of an attempt on its way: nobody else's link changes.
LEMMA LinkMove ==
  ASSUME TypeOK, TypeOK', OwnerInv, LinkInv, NEW a \in Attempts,
         UNCHANGED <<lock, client, up, asked, gone>>,
         state' = state \/ state' # "CONNECTED",
         att'[a].link = None, att[a].link = None, att'[a].pc # "open" \/ lock = a,
         \A b \in Attempts \ {a} : att'[b] = att[b]
  PROVE  LinkInv'
<1>1. None \notin asked
  BY DistinctTasks DEF TypeOK
<1>2. NoOrphanLink'
  <2>1. \A b \in Attempts : att'[b].link = att[b].link
    OBVIOUS
  <2>2. QED
    BY <2>1 DEF LinkInv, NoOrphanLink
<1>3. QED
  BY <1>1, <1>2 DEF LinkInv, NoClientUnderLock, GoneIsDown, AskedUnused, OnlyOpenHasLink, ConnectedHasLink

\* The driver lets go of its client and asks it to disconnect; the session is not CONNECTED after.
LEMMA LinkDropClient ==
  ASSUME TypeOK, TypeOK', OwnerInv, LinkInv, DropClient, state' # "CONNECTED",
         \A b \in Attempts : att'[b].link = att[b].link
                             /\ (att'[b].pc = "open" => att[b].pc = "open" \/ att[b].link = None)
                             /\ (att'[b].pc # "open" => att[b].link = None),
         lock' = lock \/ (lock = None)
  PROVE  LinkInv'
<1>1. None \notin asked /\ None \notin up
  BY DistinctTasks DEF TypeOK
<1>2. AskedUnused'
  <2>1. asked' \subseteq up' /\ client' \notin asked'
    BY <1>1 DEF DropClient, LinkInv, AskedUnused
  <2>2. ASSUME NEW b \in Attempts, att'[b].pc = "open" PROVE att'[b].link \notin asked'
    <3>1. CASE att[b].link = None
      BY <1>1, <3>1 DEF DropClient
    <3>2. CASE att[b].pc = "open"
      <4>1. client = None
        BY <3>2, DistinctTasks DEF LinkInv, NoClientUnderLock, OwnerInv, LockHeld, Locked
      <4>2. QED
        BY <1>1, <3>2, <4>1 DEF DropClient, LinkInv, AskedUnused
    <3>3. QED
      BY <2>2, <3>1, <3>2
  <2>3. QED
    BY <2>1, <2>2 DEF AskedUnused
<1>3. NoOrphanLink'
  <2>1. ASSUME NEW l \in up, l \notin asked'
        PROVE  \E b \in Attempts : lock' = b /\ att'[b].link = l
    <3>1. l # client /\ l \notin asked
      BY <2>1 DEF DropClient
    <3>2. PICK b \in Attempts : lock = b /\ att[b].link = l
      BY <2>1, <3>1 DEF LinkInv, NoOrphanLink
    <3>3. QED
      BY <3>2, DistinctTasks
  <2>2. QED
    BY <2>1 DEF DropClient, NoOrphanLink
<1>4. QED
  BY <1>2, <1>3 DEF DropClient, LinkInv, NoClientUnderLock, GoneIsDown, OnlyOpenHasLink, ConnectedHasLink

\* An attempt that has no client object of its own leaves by the except clauses.
LEMMA LinkFails ==
  ASSUME TypeOK, TypeOK', OwnerInv, LinkInv, NEW a \in Attempts,
         att[a].pc \in Trying \ {"open"}, Fails(a), UNCHANGED <<client, up, asked, gone>>
  PROVE  LinkInv'
<1>1. /\ att[a].link = None /\ att'[a].link = None /\ att'[a].pc # "open"
      /\ \A b \in Attempts \ {a} : att'[b] = att[b]
  BY DEF Fails, Idle, TypeOK, Attempt, LinkInv, OnlyOpenHasLink
<1>2. None \notin up
  BY DistinctTasks DEF TypeOK
<1>3. NoOrphanLink'
  BY <1>1, <1>2 DEF Fails, LinkInv, NoOrphanLink
<1>4. ConnectedHasLink'
  BY DEF Fails, LinkInv, ConnectedHasLink, TypeOK, Attempt
<1>5. (NoClientUnderLock /\ GoneIsDown /\ AskedUnused /\ OnlyOpenHasLink)'
  BY <1>1 DEF Fails, LinkInv, NoClientUnderLock, GoneIsDown, AskedUnused, OnlyOpenHasLink
<1>6. QED
  BY <1>3, <1>4, <1>5 DEF LinkInv

\* An attempt asks the client object it was opening to disconnect.
LEMMA LinkDropOpen ==
  ASSUME TypeOK, TypeOK', OwnerInv, LinkInv, NEW a \in Attempts, att[a].pc = "open",
         att'[a].pc \in {"abort", "undo"}, att'[a].link = None,
         \A b \in Attempts \ {a} : att'[b] = att[b],
         asked' = asked \cup ({att[a].link} \cap up),
         UNCHANGED <<state, lock, client, up, gone>>
  PROVE  LinkInv'
<1>1. lock = a /\ client = None /\ None \notin up /\ None \notin asked
  BY DistinctTasks DEF OwnerInv, LockHeld, Locked, LinkInv, NoClientUnderLock, TypeOK
<1>2. \A b \in Attempts \ {a} : att[b].pc # "open"
  BY <1>1 DEF OwnerInv, LockHeld, Locked
<1>3. AskedUnused'
  BY <1>1, <1>2 DEF LinkInv, AskedUnused
<1>4. NoOrphanLink'
  BY <1>1 DEF LinkInv, NoOrphanLink
<1>5. QED
  BY <1>1, <1>3, <1>4 DEF LinkInv, NoClientUnderLock, GoneIsDown, OnlyOpenHasLink, ConnectedHasLink

\* MS605.reconnect() returns: the client object the attempt was opening becomes the driver's.
LEMMA LinkOpened ==
  ASSUME TypeOK, TypeOK', OwnerInv, LinkInv, NEW a \in Attempts, att[a].pc = "open",
         att'[a].pc # "open", att'[a].link = None,
         \A b \in Attempts \ {a} : att'[b] = att[b],
         client' = att[a].link, lock' = None,
         state' # "CONNECTED" \/ att[a].link \in up,
         UNCHANGED <<up, asked, gone>>
  PROVE  LinkInv'
<1>1. lock = a /\ client = None /\ None \notin up
  BY DistinctTasks DEF OwnerInv, LockHeld, Locked, LinkInv, NoClientUnderLock, TypeOK
<1>2. NoOrphanLink'
  BY <1>1 DEF LinkInv, NoOrphanLink
<1>3. AskedUnused'
  BY DEF LinkInv, AskedUnused
<1>4. QED
  BY <1>2, <1>3 DEF LinkInv, NoClientUnderLock, GoneIsDown, OnlyOpenHasLink, ConnectedHasLink

LEMMA LinkAttempt ==
  ASSUME TypeOK, TypeOK', OwnerInv, LinkInv, NEW a \in Attempts,
         \/ AttemptStep(a) \/ TakeLock(a) \/ StopRetrying(a)
         \/ Connect(a) \/ Reconnect(a) \/ Retry(a) \/ RadioLink(a)
         \/ GivesUp(a) \/ StopWaiting(a)
  PROVE  LinkInv'
<1> USE DEF Trying, Locked
<1>1. CASE ScanDone(a) \/ StaleDone(a) \/ StopRetrying(a)
  <2>1. /\ att[a].link = None /\ att'[a].link = None
        /\ att'[a].pc # "open" \/ lock = a
        /\ \A b \in Attempts \ {a} : att'[b] = att[b]
    BY <1>1 DEF ScanDone, StaleDone, StopRetrying, Idle, TypeOK, Attempt, LinkInv,
                OnlyOpenHasLink, OwnerInv, LockHeld
  <2>2. QED
    BY <1>1, <2>1, LinkMove DEF ScanDone, StaleDone, StopRetrying, radio
<1>2. CASE Connect(a) \/ Reconnect(a) \/ Retry(a)
  <2>1. /\ att[a].link = None /\ att[a].pc \in {"idle", "pause"}
        /\ UNCHANGED <<lock, client, radio>>
        /\ state' = state \/ state' # "CONNECTED"
    BY <1>2 DEF Connect, Reconnect, Retry, Establish, LinkInv, OnlyOpenHasLink
  <2>2. CASE \E r \in BOOLEAN : Establish(a, r)
    <3>1. /\ att'[a].link = None /\ att'[a].pc # "open"
          /\ \A b \in Attempts \ {a} : att'[b] = att[b]
      BY <2>2 DEF Establish, TypeOK
    <3>2. QED
      BY <2>1, <3>1, LinkMove DEF radio
  <2>3. CASE att' = [att EXCEPT ![a] = [Idle EXCEPT !.pc = "pause", !.retry = TRUE]]
    <3>1. /\ [Idle EXCEPT !.pc = "pause", !.retry = TRUE].pc = "pause"
          /\ [Idle EXCEPT !.pc = "pause", !.retry = TRUE].link = None
      BY DEF Idle
    <3>2. /\ att'[a].link = None /\ att'[a].pc # "open"
          /\ \A b \in Attempts \ {a} : att'[b] = att[b]
      BY <2>3, <3>1 DEF TypeOK
    <3>3. QED
      BY <2>1, <3>2, LinkMove DEF radio
  <2>4. QED
    BY <1>2, <2>2, <2>3 DEF Connect, Reconnect, Retry
<1>3. CASE AbortDone(a) \/ UndoDone(a) \/ GivesUp(a) \/ StopWaiting(a)
  BY <1>3, LinkFails DEF AbortDone, UndoDone, GivesUp, StopWaiting, radio
<1>4. CASE OpenFails(a) \/ OpenClosed(a)
  <2>1. /\ att'[a].pc \in {"abort", "undo"} /\ att'[a].link = None
        /\ \A b \in Attempts \ {a} : att'[b] = att[b]
    BY <1>4 DEF OpenFails, OpenClosed, TypeOK, Attempt
  <2>2. QED
    BY <1>4, <2>1, LinkDropOpen DEF OpenFails, OpenClosed
<1>5. CASE OpenDead(a) \/ OpenOk(a)
  <2>1. lock = a
    BY <1>5 DEF OpenDead, OpenOk, OwnerInv, LockHeld
  <2>2. /\ att'[a].pc # "open" /\ att'[a].link = None /\ lock' = None
        /\ \A b \in Attempts \ {a} : att'[b] = att[b]
    <3>1. CASE OpenDead(a)
      BY <2>1, <3>1, FailsLeaves DEF OpenDead, Fails
    <3>2. CASE OpenOk(a)
      BY <3>2 DEF OpenOk, Idle, TypeOK
    <3>3. QED
      BY <1>5, <3>1, <3>2
  <2>3. state' # "CONNECTED" \/ att[a].link \in up
    BY <1>5 DEF OpenDead, OpenOk, Fails, TypeOK, Attempt
  <2>4. QED
    BY <1>5, <2>2, <2>3, LinkOpened DEF OpenDead, OpenOk, radio
<1>6. CASE TakeLock(a)
  <2>1. CASE att[a].closed
    BY <1>6, <2>1, LinkFails DEF TakeLock, radio
  <2>2. CASE ~att[a].closed
    <3>1. \E pc \in {"open", "stale"} : att' = [att EXCEPT ![a].pc = pc]
      BY <1>6, <2>2 DEF TakeLock
    <3>2. \A b \in Attempts : /\ att'[b].link = att[b].link
                              /\ b # a => att'[b] = att[b]
      BY <3>1 DEF TypeOK, Attempt
    <3>3. att[a].link = None
      BY <1>6 DEF TakeLock, LinkInv, OnlyOpenHasLink
    <3>4. state' # "CONNECTED"
      BY <1>6, <2>2 DEF TakeLock, OwnerInv, OneOwner, Current
    <3>5. \A b \in Attempts : att'[b].pc # "open" => att[b].link = None
      BY <3>2, <3>3 DEF LinkInv, OnlyOpenHasLink
    <3>6. \A b \in Attempts : att'[b].pc = "open" => att[b].pc = "open" \/ att[b].link = None
      BY <3>2, <3>3
    <3>7. QED
      BY <1>6, <2>2, <3>2, <3>4, <3>5, <3>6, LinkDropClient DEF TakeLock
  <2>3. QED
    BY <2>1, <2>2
<1>7. CASE RadioLink(a)
  <2>1. lock = a /\ client = None
    BY <1>7, DistinctTasks DEF RadioLink, OwnerInv, LockHeld, LinkInv, NoClientUnderLock
  <2>2. PICK l \in Links : att' = [att EXCEPT ![a].link = l] /\ up' = {l}
    BY <1>7 DEF RadioLink
  <2>3. /\ att'[a].link = l /\ att'[a].pc = "open" /\ att[a].pc = "open"
        /\ \A b \in Attempts \ {a} : att'[b] = att[b]
    BY <1>7, <2>2 DEF RadioLink, TypeOK, Attempt
  <2>4. asked = {} /\ asked' = {}
    BY <1>7 DEF RadioLink, LinkInv, AskedUnused
  <2>5. NoOrphanLink'
    BY <1>7, <2>1, <2>2, <2>3 DEF RadioLink, NoOrphanLink
  <2>6. ConnectedHasLink'
    BY <1>7, <2>1, DistinctTasks DEF RadioLink, LinkInv, ConnectedHasLink, TypeOK
  <2>7. QED
    BY <1>7, <2>1, <2>3, <2>4, <2>5, <2>6
       DEF RadioLink, LinkInv, NoClientUnderLock, GoneIsDown, AskedUnused, OnlyOpenHasLink
<1> QED
  BY <1>1, <1>2, <1>3, <1>4, <1>5, <1>6, <1>7 DEF AttemptStep

LEMMA LinkClose ==
  ASSUME TypeOK, TypeOK', OwnerInv, LinkInv, NEW c \in Closers, Close(c)
  PROVE  LinkInv'
<1>1. \A b \in Attempts : att'[b].link = att[b].link /\ att'[b].pc = att[b].pc
  <2>1. \A b \in Attempts : /\ [att[b] EXCEPT !.closed = TRUE].link = att[b].link
                            /\ [att[b] EXCEPT !.closed = TRUE].pc = att[b].pc
    BY DEF TypeOK, Attempt
  <2>2. QED
    BY <2>1 DEF Close
<1>2. CASE state = "DISCONNECTED"
  BY <1>1, <1>2 DEF Close, radio, LinkInv, NoClientUnderLock, GoneIsDown, AskedUnused, OnlyOpenHasLink,
                    ConnectedHasLink, NoOrphanLink
<1>3. CASE state # "DISCONNECTED"
  <2>1. \A b \in Attempts : att'[b].pc # "open" => att[b].link = None
    BY <1>1 DEF LinkInv, OnlyOpenHasLink
  <2>2. QED
    BY <1>1, <1>3, <2>1, LinkDropClient DEF Close
<1>4. QED
  BY <1>2, <1>3

\* A stalled write: the driver drops its client, and the session learns of it.
LEMMA LinkStall ==
  ASSUME TypeOK, TypeOK', OwnerInv, LinkInv, DropClient, UNCHANGED <<lock, att>>,
         state' = IF state = "CONNECTED" THEN "LOST" ELSE state
  PROVE  LinkInv'
<1>1. \A b \in Attempts : att'[b].pc # "open" => att[b].link = None
  BY DEF LinkInv, OnlyOpenHasLink
<1>2. QED
  BY <1>1, LinkDropClient

LEMMA LinkRadio ==
  ASSUME TypeOK, TypeOK', OwnerInv, LinkInv, NEW l \in Links, LinkDown(l) \/ OnDisconnected(l)
  PROVE  LinkInv'
<1>1. CASE LinkDown(l)
  BY <1>1 DEF LinkDown, LinkInv, NoClientUnderLock, GoneIsDown, AskedUnused, OnlyOpenHasLink,
              ConnectedHasLink, NoOrphanLink
<1>2. CASE OnDisconnected(l) /\ l # client
  BY <1>2 DEF OnDisconnected, LinkInv, NoClientUnderLock, GoneIsDown, AskedUnused, OnlyOpenHasLink,
              ConnectedHasLink, NoOrphanLink
<1>3. CASE OnDisconnected(l) /\ l = client
  <2>1. state' # "CONNECTED"
    BY <1>3 DEF OnDisconnected, Lose
  <2>2. l \notin up
    BY <1>3 DEF OnDisconnected, LinkInv, GoneIsDown
  <2>3. QED
    BY <1>3, <2>1, <2>2, DistinctTasks
       DEF OnDisconnected, LinkInv, NoClientUnderLock, GoneIsDown, AskedUnused, OnlyOpenHasLink,
           ConnectedHasLink, NoOrphanLink, TypeOK
<1>4. QED
  BY <1>1, <1>2, <1>3

LEMMA LinkStep ==
  ASSUME TypeOK, TypeOK', OwnerInv, LinkInv, [Next]_vars
  PROVE  LinkInv'
<1>1. CASE UNCHANGED vars
  BY <1>1, LinkFrame DEF vars
<1>2. ASSUME NEW c \in Closers, CloserStep(c) PROVE LinkInv'
  BY <1>2, LinkFrame DEF CloserStep, CloseDropped, CloseReturns, radio
<1>3. ASSUME NEW k \in KLoops, PingStep(k) PROVE LinkInv'
  BY <1>3, LinkFrame
     DEF PingStep, PingDue, PingMissedOrAnswered, PingFails, PingStallEnds, GivesLinkUp, radio
<1>4. ASSUME NEW p \in PLoops, PollStep(p) PROVE LinkInv'
  BY <1>4, LinkFrame DEF PollStep, PollDue, PollDone, radio
<1>5. ASSUME NEW t \in Loops, CancelLands(t) PROVE LinkInv'
  BY <1>5, LinkFrame DEF CancelLands, radio
<1>6. ASSUME NEW t \in Loops, Stall(t) PROVE LinkInv'
  BY <1>6, LinkStall DEF Stall, Lose
<1>7. CASE OtherStall
  BY <1>7, LinkStall DEF OtherStall, Lose
<1>8. QED
  BY <1>1, <1>2, <1>3, <1>4, <1>5, <1>6, <1>7, LinkAttempt, LinkClose, LinkRadio DEF Next

-----------------------------------------------------------------------------
(* The keep-alive *)

\* A step that leaves the session's own keep-alive as it is.
LEMMA KeptFrame ==
  ASSUME TypeOK, KeptAliveWhileConnected, kaTask' = kaTask,
         state' = "CONNECTED" <=> state = "CONNECTED",
         kaTask # None => /\ loop'[kaTask].pc \in {"sleep", "io"}
                          /\ loop'[kaTask].cancel = loop[kaTask].cancel
  PROVE  KeptAliveWhileConnected'
  BY DEF KeptAliveWhileConnected

LEMMA KeptCut ==
  ASSUME TypeOK, KeptAliveWhileConnected, kaTask' = kaTask,
         state' = "CONNECTED" <=> state = "CONNECTED", loop' = Cut(loop)
  PROVE  KeptAliveWhileConnected'
<1>1. kaTask # None => kaTask \in Loops
  BY DEF TypeOK, Loops
<1>2. \A t \in Loops : /\ [loop[t] EXCEPT !.cut = TRUE].pc = loop[t].pc
                       /\ [loop[t] EXCEPT !.cut = TRUE].cancel = loop[t].cancel
  BY DEF TypeOK, Loop
<1>3. QED
  BY <1>1, <1>2, KeptFrame DEF Cut, KeptAliveWhileConnected

\* Once the session is not CONNECTED and counts on no keep-alive, nothing is claimed of one.
LEMMA KeptNone ==
  ASSUME state' # "CONNECTED", kaTask' = None
  PROVE  KeptAliveWhileConnected'
  BY DEF KeptAliveWhileConnected

\* _lose() with a detach that leaves the session's keep-alive alone unless it clears it.
LEMMA KeptLose ==
  ASSUME TypeOK, KeptAliveWhileConnected, NEW f, NEW me, Lose(f, me)
  PROVE  KeptAliveWhileConnected'
<1>1. CASE state = "CONNECTED"
  BY <1>1, KeptNone DEF Lose
<1>2. CASE state # "CONNECTED"
  BY <1>2, KeptNone DEF Lose, KeptAliveWhileConnected
<1>3. QED
  BY <1>1, <1>2

LEMMA KeptAttempt ==
  ASSUME TypeOK, TypeOK', OwnerInv, KeptAliveWhileConnected, NEW a \in Attempts,
         \/ AttemptStep(a) \/ TakeLock(a) \/ StopRetrying(a)
         \/ Connect(a) \/ Reconnect(a) \/ Retry(a) \/ RadioLink(a)
         \/ GivesUp(a) \/ StopWaiting(a)
  PROVE  KeptAliveWhileConnected'
<1> USE DEF Trying, Locked
<1>1. CASE OpenOk(a)
  BY <1>1, DistinctTasks DEF OpenOk, KeptAliveWhileConnected, Asleep, TypeOK, Loops
<1>2. ASSUME Fails(a), att[a].pc \in Trying, UNCHANGED tasks
      PROVE  KeptAliveWhileConnected'
  <2>1. state' = "CONNECTED" <=> state = "CONNECTED"
    BY <1>2 DEF Fails, OwnerInv, OneOwner, Current, TypeOK, Attempt
  <2>2. QED
    BY <1>2, <2>1 DEF tasks, KeptAliveWhileConnected
<1>3. CASE AbortDone(a) \/ UndoDone(a) \/ OpenDead(a) \/ GivesUp(a) \/ StopWaiting(a)
  BY <1>2, <1>3 DEF AbortDone, UndoDone, OpenDead, GivesUp, StopWaiting
<1>4. CASE ScanDone(a) \/ StaleDone(a) \/ OpenFails(a) \/ StopRetrying(a) \/ RadioLink(a)
  BY <1>4 DEF ScanDone, StaleDone, OpenFails, StopRetrying, RadioLink, tasks, KeptAliveWhileConnected
<1>5. CASE Connect(a) \/ Reconnect(a) \/ Retry(a)
  BY <1>5 DEF Connect, Reconnect, Retry, Establish, tasks, KeptAliveWhileConnected
<1>6. CASE OpenClosed(a)
  BY <1>6, KeptCut DEF OpenClosed
<1>7. CASE TakeLock(a)
  BY <1>2, <1>7, KeptCut DEF TakeLock
<1> QED
  BY <1>1, <1>3, <1>4, <1>5, <1>6, <1>7 DEF AttemptStep

LEMMA KeptLoops ==
  ASSUME TypeOK, TypeOK', KeptAliveWhileConnected,
         \/ \E k \in KLoops : PingStep(k)
         \/ \E p \in PLoops : PollStep(p)
         \/ \E t \in Loops : CancelLands(t)
  PROVE  KeptAliveWhileConnected'
<1>1. kaTask # None => kaTask \in Loops /\ kaTask \notin PLoops
  BY DistinctTasks DEF TypeOK, Loops
<1>2. ASSUME NEW k \in KLoops, PingDue(k) PROVE KeptAliveWhileConnected'
  BY <1>1, <1>2 DEF PingDue, Request, KeptAliveWhileConnected, TypeOK
<1>3. ASSUME NEW k \in KLoops, PingMissedOrAnswered(k) PROVE KeptAliveWhileConnected'
  BY <1>1, <1>3 DEF PingMissedOrAnswered, Asleep, KeptAliveWhileConnected, TypeOK
<1>4. ASSUME NEW k \in KLoops, GivesLinkUp(k) PROVE KeptAliveWhileConnected'
  BY <1>4, KeptNone DEF GivesLinkUp
<1>5. ASSUME NEW k \in KLoops, PingStallEnds(k) PROVE KeptAliveWhileConnected'
  BY <1>1, <1>4, <1>5 DEF PingStallEnds, Asleep, KeptAliveWhileConnected, TypeOK
<1>6. ASSUME NEW p \in PLoops, PollStep(p) PROVE KeptAliveWhileConnected'
  BY <1>1, <1>6 DEF PollStep, PollDue, PollDone, KeptAliveWhileConnected, TypeOK
<1>7. ASSUME NEW t \in Loops, CancelLands(t) PROVE KeptAliveWhileConnected'
  BY <1>1, <1>7 DEF CancelLands, KeptAliveWhileConnected, TypeOK
<1>8. QED
  BY <1>2, <1>3, <1>4, <1>5, <1>6, <1>7 DEF PingStep, PingFails

LEMMA KeptStep ==
  ASSUME TypeOK, TypeOK', OwnerInv, KeptAliveWhileConnected, [Next]_vars
  PROVE  KeptAliveWhileConnected'
<1>1. CASE UNCHANGED vars
  BY <1>1 DEF vars, KeptAliveWhileConnected
<1>2. ASSUME NEW c \in Closers, Close(c) PROVE KeptAliveWhileConnected'
  BY <1>2, KeptNone DEF Close
<1>3. ASSUME NEW c \in Closers, CloserStep(c) PROVE KeptAliveWhileConnected'
  BY <1>3 DEF CloserStep, CloseDropped, CloseReturns, tasks, KeptAliveWhileConnected
<1>4. ASSUME NEW t \in Loops, Stall(t) PROVE KeptAliveWhileConnected'
  BY <1>4, KeptLose DEF Stall
<1>5. CASE OtherStall
  BY <1>5, KeptLose DEF OtherStall
<1>6. ASSUME NEW l \in Links, LinkDown(l) \/ OnDisconnected(l) PROVE KeptAliveWhileConnected'
  BY <1>6, KeptLose DEF LinkDown, OnDisconnected, tasks, KeptAliveWhileConnected
<1>7. QED
  BY <1>1, <1>2, <1>3, <1>4, <1>5, <1>6, KeptAttempt, KeptLoops DEF Next

-----------------------------------------------------------------------------
(* The invariant, and the properties that follow from it *)

\* The inductive invariant.
THEOREM Invariance == Spec => []IInv
<1>1. Init => IInv
  BY TypeInit, LinkInit, DistinctTasks
     DEF Init, IInv, OwnerInv, LockHeld, OneOwner, Current, KeptAliveWhileConnected,
         Idle, Trying, Locked
<1>2. ASSUME IInv, [Next]_vars PROVE IInv'
  <2>1. TypeOK'
    BY <1>2, TypeStep DEF IInv
  <2>2. QED
    BY <1>2, <2>1, OwnerStep, LinkStep, KeptStep DEF IInv
<1>3. QED
  BY <1>1, <1>2, PTL DEF Spec

\* CONNECTING has exactly one attempt behind it, whatever close() calls interleave.
THEOREM OneOwnerAlways == Spec => []OneOwner
  BY Invariance, PTL DEF IInv, OwnerInv

\* A CONNECTED session has a link, or its loss is about to be reported.
THEOREM ConnectedHasLinkAlways == Spec => []ConnectedHasLink
  BY Invariance, PTL DEF IInv, LinkInv

\* No link outlives its owner without having been told to disconnect.
THEOREM NoOrphanLinkAlways == Spec => []NoOrphanLink
  BY Invariance, PTL DEF IInv, LinkInv

\* A CONNECTED session has a running keep-alive.
THEOREM KeptAliveAlways == Spec => []KeptAliveWhileConnected
  BY Invariance, PTL DEF IInv

-----------------------------------------------------------------------------
(* Refinement *)

LEMMA BackIsPrev ==
  ASSUME OneOwner, NEW a \in Attempts, Current(a)
  PROVE  BackState = att[a].prev
<1>1. state = "CONNECTING" /\ \A b \in Attempts : Current(b) => b = a
  BY DEF OneOwner
<1>2. (CHOOSE b \in Attempts : Current(b)) = a
  BY <1>1
<1>3. QED
  BY <1>1, <1>2 DEF BackState

LEMMA BackIsPrevNext ==
  ASSUME OneOwner', NEW a \in Attempts, Current(a)'
  PROVE  BackState' = att'[a].prev
<1>1. state' = "CONNECTING" /\ \A b \in Attempts : Current(b)' => b = a
  BY DEF OneOwner
<1>2. (CHOOSE b \in Attempts : Current(b)') = a
  BY <1>1
<1>3. QED
  BY <1>1, <1>2 DEF BackState

\* A step that leaves the state and the owner's `previous` alone is invisible.
LEMMA LinkStutters ==
  ASSUME OneOwner, OneOwner', state' = state,
         \A a \in Attempts : Current(a) => Current(a)' /\ att'[a].prev = att[a].prev
  PROVE  UNCHANGED Link!lvars
<1>1. CASE state # "CONNECTING"
  BY <1>1 DEF Link!lvars, BackState
<1>2. CASE state = "CONNECTING"
  <2>1. PICK a \in Attempts : Current(a)
    BY <1>2 DEF OneOwner
  <2>2. QED
    BY <2>1, BackIsPrev, BackIsPrevNext DEF Link!lvars
<1>3. QED
  BY <1>1, <1>2

LEMMA LinkFailsStep ==
  ASSUME TypeOK, OneOwner, OneOwner', NEW a \in Attempts, att[a].pc \in Trying, Fails(a)
  PROVE  [Link!LinkNext]_(Link!lvars)
<1>1. /\ att'[a].pc \notin Trying
      /\ \A b \in Attempts \ {a} : att'[b] = att[b]
  BY FailsLeaves DEF Trying, Locked
<1>2. CASE att[a].closed
  BY <1>1, <1>2, LinkStutters DEF Fails, Current
<1>3. CASE ~att[a].closed
  <2>1. state = "CONNECTING" /\ BackState = att[a].prev
    BY <1>3, BackIsPrev DEF Current, OneOwner
  <2>2. state' = att[a].prev /\ state' # "CONNECTING"
    BY <1>3 DEF Fails, TypeOK, Attempt
  <2>3. QED
    BY <2>1, <2>2 DEF Link!LinkNext, Link!Fail, BackState
<1>4. QED
  BY <1>2, <1>3

LEMMA LinkEstablish ==
  ASSUME TypeOK, OneOwner, OneOwner', NEW a \in Attempts, NEW r \in BOOLEAN, Establish(a, r)
  PROVE  Link!Begin
<1>1. Current(a)' /\ att'[a].prev = state
  BY DEF Establish, Current, Trying, TypeOK
<1>2. BackState' = state
  BY <1>1, BackIsPrevNext
<1>3. QED
  BY <1>2 DEF Establish, Link!Begin

LEMMA LinkAttemptStep ==
  ASSUME TypeOK, TypeOK', OneOwner, OneOwner', NEW a \in Attempts,
         \/ AttemptStep(a) \/ TakeLock(a) \/ StopRetrying(a)
         \/ Connect(a) \/ Reconnect(a) \/ Retry(a) \/ RadioLink(a)
         \/ GivesUp(a) \/ StopWaiting(a)
  PROVE  [Link!LinkNext]_(Link!lvars)
<1> USE DEF Trying, Locked
<1>1. CASE AbortDone(a) \/ UndoDone(a) \/ OpenDead(a) \/ GivesUp(a) \/ StopWaiting(a)
  BY <1>1, LinkFailsStep DEF AbortDone, UndoDone, OpenDead, GivesUp, StopWaiting
<1>2. CASE Connect(a) \/ Retry(a)
  BY <1>2, LinkEstablish DEF Connect, Retry, Link!LinkNext
<1>3. ASSUME state' = state, \A b \in Attempts \ {a} : att'[b] = att[b],
             Current(a) => Current(a)' /\ att'[a].prev = att[a].prev
      PROVE  UNCHANGED Link!lvars
  BY <1>3, LinkStutters DEF Current
<1>4. CASE Reconnect(a)
  <2>1. CASE Establish(a, TRUE)
    BY <2>1, LinkEstablish DEF Link!LinkNext
  <2>2. CASE state' = state /\ att' = [att EXCEPT ![a] = [Idle EXCEPT !.pc = "pause", !.retry = TRUE]]
    BY <1>3, <1>4, <2>2 DEF Reconnect, Current, TypeOK
  <2>3. QED
    BY <1>4, <2>1, <2>2 DEF Reconnect
<1>5. CASE ScanDone(a) \/ StaleDone(a) \/ OpenFails(a) \/ OpenClosed(a) \/ RadioLink(a)
           \/ StopRetrying(a)
  <2>1. /\ state' = state
        /\ \A b \in Attempts \ {a} : att'[b] = att[b]
    BY <1>5 DEF ScanDone, StaleDone, OpenFails, OpenClosed, RadioLink, StopRetrying, TypeOK
  <2>2. Current(a) => Current(a)' /\ att'[a].prev = att[a].prev
    BY <1>5 DEF ScanDone, StaleDone, OpenFails, OpenClosed, RadioLink, StopRetrying, Current,
                TypeOK, Attempt
  <2>3. QED
    BY <1>3, <2>1, <2>2
<1>6. CASE TakeLock(a)
  <2>1. CASE att[a].closed
    BY <1>6, <2>1, LinkFailsStep DEF TakeLock
  <2>2. CASE ~att[a].closed
    <3>1. \E pc \in {"open", "stale"} : att' = [att EXCEPT ![a].pc = pc]
      BY <1>6, <2>2 DEF TakeLock
    <3>2. /\ \A b \in Attempts \ {a} : att'[b] = att[b]
          /\ Current(a) => Current(a)' /\ att'[a].prev = att[a].prev
      BY <3>1 DEF Current, TypeOK, Attempt
    <3>3. QED
      BY <1>3, <1>6, <2>2, <3>2 DEF TakeLock
  <2>3. QED
    BY <2>1, <2>2
<1>7. CASE OpenOk(a)
  BY <1>7 DEF OpenOk, Current, OneOwner, Link!LinkNext, Link!Succeed, BackState
<1> QED
  BY <1>1, <1>2, <1>4, <1>5, <1>6, <1>7 DEF AttemptStep

\* A step of anything else: the state is left alone, or CONNECTED is LOST.
LEMMA LinkLost ==
  ASSUME OneOwner, OneOwner', att' = att,
         state' = state \/ (state = "CONNECTED" /\ state' = "LOST")
  PROVE  [Link!LinkNext]_(Link!lvars)
<1>1. CASE state' = state
  BY <1>1, LinkStutters DEF Current
<1>2. CASE state = "CONNECTED" /\ state' = "LOST"
  BY <1>2 DEF Link!LinkNext, Link!Lost, BackState
<1>3. QED
  BY <1>1, <1>2

\* The session implements the link its readers are promised.
THEOREM Refinement == Spec => ImplementsLink
<1>1. Init => Link!LinkInit
  BY DEF Init, Link!LinkInit, BackState
<1>2. ASSUME IInv, IInv', [Next]_vars PROVE [Link!LinkNext]_(Link!lvars)
  <2>1. TypeOK /\ TypeOK' /\ OneOwner /\ OneOwner'
    BY <1>2 DEF IInv, OwnerInv
  <2>2. CASE UNCHANGED vars
    BY <2>1, <2>2, LinkLost DEF vars
  <2>3. ASSUME NEW c \in Closers, Close(c) PROVE [Link!LinkNext]_(Link!lvars)
    <3>1. state' = "DISCONNECTED"
      BY <2>3 DEF Close
    <3>2. QED
      BY <3>1 DEF Link!LinkNext, Link!Release, Link!lvars, BackState
  <2>4. ASSUME NEW c \in Closers, CloserStep(c) PROVE [Link!LinkNext]_(Link!lvars)
    BY <2>1, <2>4, LinkLost DEF CloserStep, CloseDropped, CloseReturns
  <2>5. ASSUME NEW k \in KLoops, PingStep(k) PROVE [Link!LinkNext]_(Link!lvars)
    BY <2>1, <2>5, LinkLost
       DEF PingStep, PingDue, PingMissedOrAnswered, PingFails, PingStallEnds, GivesLinkUp
  <2>6. ASSUME NEW p \in PLoops, PollStep(p) PROVE [Link!LinkNext]_(Link!lvars)
    BY <2>1, <2>6, LinkLost DEF PollStep, PollDue, PollDone
  <2>7. ASSUME NEW t \in Loops, Stall(t) \/ CancelLands(t) PROVE [Link!LinkNext]_(Link!lvars)
    BY <2>1, <2>7, LinkLost DEF Stall, CancelLands, Lose
  <2>8. CASE OtherStall
    BY <2>1, <2>8, LinkLost DEF OtherStall, Lose
  <2>9. ASSUME NEW l \in Links, LinkDown(l) \/ OnDisconnected(l)
        PROVE  [Link!LinkNext]_(Link!lvars)
    BY <2>1, <2>9, LinkLost DEF LinkDown, OnDisconnected, Lose
  <2>10. QED
    BY <1>2, <2>1, <2>2, <2>3, <2>4, <2>5, <2>6, <2>7, <2>8, <2>9, LinkAttemptStep DEF Next
<1>3. QED
  BY <1>1, <1>2, Invariance, PTL DEF Spec, ImplementsLink, Link!LinkSpec
=============================================================================
