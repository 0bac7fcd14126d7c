---------------------------- MODULE Calibration ----------------------------
(***************************************************************************)
(* Auto-calibrations of one sensor: the jobs that run them                 *)
(* (src/ms605/calibration.py, CalibrationJob), the driver call each waits  *)
(* in (src/ms605/driver.py, start_auto_calibration()), the operation lock  *)
(* they contend for, the sensor that learns and the messages on their way. *)
(*                                                                         *)
(* A job is two tasks: the one that runs run(), at `pc`, and the waiter it *)
(* starts, at `w`.  Either is cancelled at an await: by cancel(), which    *)
(* only asks, or from outside, which interrupts whatever run() awaits.     *)
(* The link is the abstract one of LinkState.tla.  A sensor that loses its *)
(* link forgets what it was learning.                                      *)
(***************************************************************************)
EXTENDS LinkState, Naturals, Sequences

CONSTANTS
  Jobs,         \* CalibrationJobs made for this session, one after another or at once
  None,
  MaxCancels    \* how often the task of a run() is cancelled from outside

ASSUME CalibrationAssumption == None \notin Jobs /\ MaxCancels \in Nat

VARIABLES
  busy,      \* DeviceSession.busy
  job,       \* the jobs
  learning,  \* the sensor is in space learning
  last,      \* the job whose tag52=4 the sensor took last
  air        \* messages of the sensor on their way, oldest first

vars == <<link, back, busy, job, learning, last, air>>
sensor == <<learning, last, air>>

\* How the waiter can end: a tag62, a lost link, a write that failed on a link that is up, no
\* answer in time, a refused start.
Ended == {"done", "lost", "unwritten", "timeout", "error"}

Job == [pc : {"new", "identify", "before", "learn", "drop", "close", "stop", "after", "leave", "done"},
        state : {"IDLE", "STARTING", "LEARNING", "SUCCEEDED", "FAILED", "CANCELLED", "LOST", "TIMEOUT"},
        started : BOOLEAN,
        asked : BOOLEAN,                      \* _cancel_requested
        hits : 0..MaxCancels,                 \* cancels from outside
        cut : BOOLEAN,                        \* the link ended under the read it awaits
        w : {"none", "write", "ack", "acked", "wait"} \cup Ended,
        fut : {"none", "early", "good", "bad", "gone", "earlygone"},  \* result_fut
        by : Jobs \cup {None}]                \* whose start that result answers

\* "ack", "nak": the answer to tag52=4.  "good", "bad": tag62.
Message == [is : {"ack", "nak", "good", "bad"}, by : Jobs]

TypeOK ==
  /\ LinkTypeOK
  /\ busy \in {"none", "identify", "other", "calibration"}
  /\ job \in [Jobs -> Job]
  /\ learning \in BOOLEAN
  /\ last \in Jobs \cup {None}
  /\ air \in Seq(Message)

Init ==
  /\ LinkInit
  /\ busy = "none"
  /\ job = [j \in Jobs |-> [pc |-> "new", state |-> "IDLE", started |-> FALSE, asked |-> FALSE,
                            hits |-> 0, cut |-> FALSE, w |-> "none", fut |-> "none", by |-> None]]
  /\ learning = FALSE /\ last = None /\ air = <<>>

-----------------------------------------------------------------------------
(* What several steps share *)

\* _finish() on the way out of the operation lock, or before it was taken.
Finish(j, outcome) == job' = [job EXCEPT ![j].pc = "leave", ![j].state = outcome]
Refuse(j, outcome) == job' = [job EXCEPT ![j].pc = "done", ![j].state = outcome]

\* _run() from its check of the lock to the first read inside it, with no await between.
Enter(j) ==
  IF busy # "none" THEN Refuse(j, "FAILED") /\ UNCHANGED busy
  ELSE IF link # "CONNECTED" THEN Refuse(j, "LOST") /\ UNCHANGED busy
  ELSE /\ busy' = "calibration"
       /\ job' = [job EXCEPT ![j].pc = "before", ![j].cut = FALSE]

\* _detach(): every request and every tag62 waiter of the link fails.
Cut(r) ==
  [r EXCEPT !.cut = TRUE,
            !.w = IF @ \in {"write", "ack", "wait"} THEN "lost" ELSE @,
            !.fut = IF r.w # "acked" THEN @
                    ELSE CASE @ = "none" -> "gone" [] @ = "early" -> "earlygone" [] OTHER -> @]

LinkGone(f) == /\ job' = [j \in Jobs |-> Cut(f[j])]
               /\ learning' = FALSE /\ air' = <<>>
               /\ UNCHANGED last

-----------------------------------------------------------------------------
(* run(), up to the start of learning *)

Run(j) ==
  /\ job[j].pc = "new"
  /\ IF busy = "identify"
     THEN job' = [job EXCEPT ![j].pc = "identify"] /\ UNCHANGED busy
     ELSE Enter(j)
  /\ UNCHANGED <<lvars, sensor>>

\* The identify lock is gone, the wait for it is over, or cancel() was called.
IdentifyEnds(j) ==
  /\ job[j].pc = "identify"
  /\ IF job[j].asked THEN Refuse(j, "CANCELLED") /\ UNCHANGED busy ELSE Enter(j)
  /\ UNCHANGED <<lvars, sensor>>

\* No other job's frame is still being written: requests queue for the send lock.
Unblocked(j) == \A k \in Jobs \ {j} : job[k].w # "write"

\* read_config() before the start raises, also by a write that stalls and so ends the link ...
BeforeFails(j) ==
  /\ job[j].pc = "before" /\ (job[j].cut \/ Unblocked(j))
  /\ \/ /\ \E outcome \in IF job[j].cut THEN {"LOST"} ELSE {"FAILED", "LOST"} : Finish(j, outcome)
        /\ UNCHANGED <<lvars, sensor>>
     \/ /\ ~job[j].cut
        /\ Lost /\ LinkGone([job EXCEPT ![j].pc = "leave", ![j].state = "FAILED"])
  /\ UNCHANGED busy

\* ... or returns, and the waiter writes tag52=4.
BeforeRead(j) ==
  /\ job[j].pc = "before" /\ ~job[j].cut /\ Unblocked(j)
  /\ IF job[j].asked THEN Finish(j, "CANCELLED")
     ELSE job' = [job EXCEPT ![j].pc = "learn", ![j].state = "STARTING", ![j].started = TRUE,
                             ![j].w = "write"]
  /\ UNCHANGED <<lvars, busy, sensor>>

-----------------------------------------------------------------------------
(* The waiter, start_auto_calibration(), and the sensor *)

\* The frame reaches the sensor, which refuses it or learns (afresh, or on: it is busy already).
\* A cancelled writer finishes its frame first, also when its job is over.
SensorStarts(j) ==
  /\ job[j].w = "write" /\ link = "CONNECTED"
  /\ job' = [job EXCEPT ![j].w = "ack"]
  /\ \/ /\ learning' = TRUE /\ last' = j
        /\ air' = Append(air, [is |-> "ack", by |-> j])
     \/ /\ air' = Append(air, [is |-> "nak", by |-> j])
        /\ UNCHANGED <<learning, last>>
  /\ UNCHANGED <<lvars, busy>>

SensorEnds ==
  /\ learning
  /\ learning' = FALSE
  /\ \E result \in {"good", "bad"} : air' = Append(air, [is |-> result, by |-> last])
  /\ UNCHANGED <<lvars, busy, job, last>>

\* A message is lost (its CRC is bad).
MessageLost == /\ air # <<>>
               /\ air' = Tail(air)
               /\ UNCHANGED <<lvars, busy, job, learning, last>>

\* A tag62 resolves the waiter's future, if there is one that is not resolved yet.
TakeResult(r, m) ==
  IF r.pc # "learn" \/ r.fut # "none" THEN r
  ELSE CASE r.w \in {"write", "ack"} -> [r EXCEPT !.fut = "early"]
         [] r.w = "acked" -> [r EXCEPT !.fut = m.is, !.by = m.by]
         [] r.w = "wait" -> [r EXCEPT !.fut = m.is, !.by = m.by, !.w = "done"]
         [] OTHER -> r

\* The answer to tag52=4 is known by its message id.
TakeAnswer(r, m) ==
  IF r.pc # "learn" \/ r.w # "ack" THEN r
  ELSE [r EXCEPT !.w = IF m.is = "ack" THEN "acked" ELSE "error"]

Deliver ==
  /\ air # <<>>
  /\ air' = Tail(air)
  /\ LET m == Head(air) IN
     job' = IF m.is \in {"good", "bad"} THEN [j \in Jobs |-> TakeResult(job[j], m)]
            ELSE [job EXCEPT ![m.by] = TakeAnswer(@, m)]
  /\ UNCHANGED <<lvars, busy, learning, last>>

\* Mutant of Started: a tag62 that came before the ACK counts.
StartedTrusting(r) ==
  [r EXCEPT !.state = "LEARNING",
            !.fut = IF @ = "early" THEN "good" ELSE @,
            !.w = IF r.fut = "none" THEN "wait"
                  ELSE IF r.fut \in {"gone", "earlygone"} THEN "lost" ELSE "done"]

\* The waiter resumes after the ACK.  A tag62 that came before it belongs to an earlier run.
Started(r) ==
  CASE r.fut = "earlygone" -> [r EXCEPT !.w = "lost"]
    [] r.fut = "early" -> [r EXCEPT !.state = "LEARNING", !.fut = "none", !.w = "wait"]
    [] r.fut = "none" -> [r EXCEPT !.state = "LEARNING", !.w = "wait"]
    [] r.fut = "gone" -> [r EXCEPT !.state = "LEARNING", !.w = "lost"]
    [] OTHER -> [r EXCEPT !.state = "LEARNING", !.w = "done"]

Resume(j) == /\ job[j].pc = "learn" /\ job[j].w = "acked"
             /\ job' = [job EXCEPT ![j] = Started(@)]
             /\ UNCHANGED <<lvars, busy, sensor>>

\* Mutant of WaiterTimesOut: nobody bounds the wait for the ACK.
WaiterTimesOutLate(j) == /\ job[j].pc = "learn" /\ job[j].w = "wait"
                         /\ job' = [job EXCEPT ![j].w = "timeout"]
                         /\ UNCHANGED <<lvars, busy, sensor>>

\* No ACK, or no tag62, in time; or the start is not written in time, which ends the link.
WaiterTimesOut(j) ==
  /\ job[j].pc = "learn"
  /\ LET late == [job EXCEPT ![j].w = "timeout"]
     IN \/ job[j].w \in {"ack", "wait"} /\ job' = late /\ UNCHANGED <<lvars, sensor>>
        \/ job[j].w = "write" /\ Lost /\ LinkGone(late)
  /\ UNCHANGED busy

\* The backend fails to write the start, or a keep-alive ping, on a link that stays up.
WaiterWriteFails(j) == /\ job[j].w = "write" \/ (job[j].pc = "learn" /\ job[j].w = "wait")
                       /\ job' = [job EXCEPT ![j].w = "unwritten"]
                       /\ UNCHANGED <<lvars, busy, sensor>>

-----------------------------------------------------------------------------
(* run(), from the end of the waiter *)

\* The waiter ended; the progress timer is stopped first, if it runs.
WaiterEnded(j) ==
  /\ job[j].pc = "learn" /\ job[j].w \in Ended
  /\ job' = [job EXCEPT ![j].pc = "stop"]
  /\ UNCHANGED <<lvars, busy, sensor>>

Outcome(r) == CASE r.w \in {"lost", "unwritten"} -> "LOST"
                [] r.w = "timeout" -> "TIMEOUT"
                [] OTHER -> "FAILED"

Stopped(j) ==
  /\ job[j].pc = "stop"
  /\ IF job[j].w = "done" /\ job[j].fut = "good"
     THEN job' = [job EXCEPT ![j].pc = "after"]
     ELSE Finish(j, Outcome(job[j]))
  /\ UNCHANGED <<lvars, busy, sensor>>

\* _succeeded(): the read-back may fail, the calibration has succeeded.
ReadBack(j) == /\ job[j].pc = "after"
               /\ Finish(j, "SUCCEEDED")
               /\ UNCHANGED <<lvars, busy, sensor>>

\* cancel() while learning: the waiter, which may be about to end, is cancelled ...
CancelSeen(j) == /\ job[j].pc = "learn" /\ job[j].asked
                 /\ job' = [job EXCEPT ![j].pc = "drop"]
                 /\ UNCHANGED <<lvars, busy, sensor>>

\* Mutant of DropLink: the job gives up without closing the session.
DropLinkNot(j) == /\ job[j].pc = "drop"
                  /\ job' = [job EXCEPT ![j].pc = "close"]
                  /\ UNCHANGED <<lvars, busy, sensor>>

\* ... and when it has ended the session is closed, which drops the link.
DropLink(j) ==
  /\ job[j].pc = "drop"
  /\ LET f == [job EXCEPT ![j].pc = "close"] IN
     IF link = "DISCONNECTED"
     THEN job' = f /\ UNCHANGED <<lvars, sensor>>
     ELSE Release /\ LinkGone(f)
  /\ UNCHANGED busy

Closed(j) == /\ job[j].pc = "close"
             /\ Finish(j, "CANCELLED")
             /\ UNCHANGED <<lvars, busy, sensor>>

Leave(j) == /\ job[j].pc = "leave"
            /\ job' = [job EXCEPT ![j].pc = "done"]
            /\ busy' = "none"
            /\ UNCHANGED <<lvars, sensor>>

-----------------------------------------------------------------------------
(* Cancels *)

\* cancel()
Ask(j) ==
  /\ ~job[j].asked /\ job[j].state \notin {"SUCCEEDED", "FAILED", "CANCELLED", "LOST", "TIMEOUT"}
  /\ job' = IF job[j].pc = "new"
            THEN [job EXCEPT ![j].pc = "done", ![j].state = "CANCELLED"]
            ELSE [job EXCEPT ![j].asked = TRUE]
  /\ UNCHANGED <<lvars, busy, sensor>>

\* Mutant of Interrupted: records a second result over the first.
InterruptedTwice(r) ==
  CASE r.pc = "identify" -> [r EXCEPT !.pc = "done", !.state = "CANCELLED"]
    [] r.pc = "learn" -> [r EXCEPT !.pc = "drop"]
    [] r.pc = "after" -> [r EXCEPT !.pc = "leave", !.state = "SUCCEEDED"]
    [] OTHER -> [r EXCEPT !.pc = "leave", !.state = "CANCELLED"]

\* The task of run() is cancelled from outside, at the await where it stands.
Interrupted(r) ==
  CASE r.pc = "identify" -> [r EXCEPT !.pc = "done", !.state = "CANCELLED"]
    [] r.pc = "learn" -> [r EXCEPT !.pc = "drop"]
    [] r.pc = "after" -> [r EXCEPT !.pc = "leave", !.state = "SUCCEEDED"]
    [] r.pc = "leave" -> r
    [] OTHER -> [r EXCEPT !.pc = "leave", !.state = "CANCELLED"]

Interrupt(j) ==
  /\ job[j].pc \notin {"new", "done"} /\ job[j].hits < MaxCancels
  /\ job[j].pc = "stop" => job[j].state = "LEARNING"   \* else there is no timer to await
  /\ job' = [job EXCEPT ![j] = [Interrupted(job[j]) EXCEPT !.hits = job[j].hits + 1]]
  /\ UNCHANGED <<lvars, busy, sensor>>

-----------------------------------------------------------------------------
(* The rest of the session *)

\* Another operation takes the lock, which fails at once for whoever finds it taken.
OtherStarts(reason) == /\ busy = "none" /\ link = "CONNECTED"
                       /\ busy' = reason
                       /\ UNCHANGED <<lvars, job, sensor>>

OtherEnds == /\ busy \in {"identify", "other"}
             /\ busy' = "none"
             /\ UNCHANGED <<lvars, job, sensor>>

LinkEnds == /\ Lost \/ Release
            /\ LinkGone(job)
            /\ UNCHANGED busy

LinkComes == /\ Begin \/ Succeed \/ Fail
             /\ UNCHANGED <<busy, job, sensor>>

-----------------------------------------------------------------------------
Waiter(j) == Resume(j) \/ WaiterTimesOut(j) \/ WaiterWriteFails(j) \/ SensorStarts(j)

Step(j) == \/ IdentifyEnds(j) \/ BeforeFails(j) \/ BeforeRead(j)
           \/ WaiterEnded(j) \/ Stopped(j) \/ ReadBack(j)
           \/ CancelSeen(j) \/ DropLink(j) \/ Closed(j) \/ Leave(j)

Next == \/ \E j \in Jobs : Run(j) \/ Waiter(j) \/ Step(j) \/ Ask(j) \/ Interrupt(j)
        \/ SensorEnds \/ MessageLost \/ Deliver
        \/ \E reason \in {"identify", "other"} : OtherStarts(reason)
        \/ OtherEnds \/ LinkEnds \/ LinkComes

Spec == Init /\ [][Next]_vars

\* Reads, writes, the waits for an ACK, for tag62 and for the link to close all have deadlines.
Fairness == \A j \in Jobs : WF_vars(Waiter(j)) /\ WF_vars(Step(j))

FairSpec == Spec /\ Fairness

-----------------------------------------------------------------------------
(* Properties *)

\* The "calibration" lock is held exactly while one job is inside it: nobody else's tag writes
\* mix with a calibration, and a job that is over never keeps the sensor busy.
Inside(j) == job[j].pc \notin {"new", "identify", "done"}
LockExact ==
  /\ \A j, k \in Jobs : Inside(j) /\ Inside(k) => j = k
  /\ busy = "calibration" <=> \E j \in Jobs : Inside(j)

\* A job reports success only for a result the sensor sent after it took this job's start: a
\* late tag62 of a run that timed out or was given up is not taken for it (the receive
\* sequence numbers compared in start_auto_calibration()).
OwnResult ==
  \A j \in Jobs : job[j].state = "SUCCEEDED" => job[j].fut = "good" /\ job[j].by = j

Over(j, outcome) == job[j].pc = "done" /\ job[j].state = outcome /\ last = j

\* A sensor whose last calibration is over as CANCELLED is not learning on: it cannot change its
\* thresholds behind the app's back.  Here for a run() whose own task nobody cancelled ...
CancelStops == \A j \in Jobs : Over(j, "CANCELLED") /\ job[j].hits = 0 => ~learning

\* ... and for any (docs/CORE_API.md 5.3).  The code breaks this: see README.md.
AnyCancelStops == \A j \in Jobs : Over(j, "CANCELLED") => ~learning

\* Nor is one whose last calibration is over as LOST, unless a write failed on a link that is
\* still up (driver.py:837 takes that for a lost link).
LostStops == \A j \in Jobs : Over(j, "LOST") /\ job[j].w # "unwritten" => ~learning

\* The jobs' states as a screen sees them keep the promise of JobState.
Promise == INSTANCE JobState WITH phase <- [j \in Jobs |-> job[j].state]
ImplementsJob == Promise!JobSpec

\* Every run() that began returns, so a cancel() that waits for it does.
JobsEnd == \A j \in Jobs : job[j].pc # "new" ~> job[j].pc = "done"
=============================================================================
