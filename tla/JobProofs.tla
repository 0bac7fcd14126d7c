------------------------------ MODULE JobProofs ------------------------------
(***************************************************************************)
(* Proofs about the calibrations: Calibration, the jobs of one sensor,     *)
(* then Batch, the rounds that start them and what is shown of them.       *)
(*                                                                         *)
(* Calibration, for any number of jobs on one sensor and of cancels from   *)
(* outside.  The operation lock and the queue for the send lock make one   *)
(* job at a time the one whose start may reach the sensor (Sends).         *)
(* Messages arrive in the order they were sent, so from its ACK on a job   *)
(* meets only results sent after its start (AirOK).  A sensor that learns  *)
(* has its link, and a job that is over as CANCELLED or LOST saw that link *)
(* end after its start (StopOK).                                           *)
(*                                                                         *)
(* Batch, for any set of sensors and any number of rounds.  What is shown  *)
(* of a sensor is the last round that counts.  A round may stop counting   *)
(* only while its job has not started, and as long as that is possible     *)
(* `previous` holds what was shown before it: the last of the other rounds *)
(* that count, and how many they are.                                      *)
(***************************************************************************)
EXTENDS Calibration, Batch, SequenceTheorems, FiniteSetTheorems, TLAPS

(* -- the jobs of one sensor ------------------------------------------------- *)

Results == {"good", "bad"}
AtWork == {"STARTING", "LEARNING"}
Verdicts == {"SUCCEEDED", "FAILED", "CANCELLED", "LOST", "TIMEOUT"}

\* How far a job is, and what is known of it there.
StateOK(r) ==
  /\ r.pc \in {"new", "identify", "before"} => r.state = "IDLE" /\ ~r.started
  /\ r.pc \in {"learn", "drop", "close", "stop"} => r.state \in AtWork /\ r.started
  /\ r.pc \in {"leave", "done"} => r.state \in Verdicts
  /\ r.pc = "after" => r.state = "LEARNING" /\ r.w = "done" /\ r.fut = "good"
  /\ r.pc = "stop" => r.w \in Ended
  /\ r.pc \in {"learn", "stop"} /\ r.w \in {"wait", "done"} => r.state = "LEARNING"
  /\ r.state = "SUCCEEDED" => r.fut = "good"
  /\ ~r.started => r.w = "none"
  /\ r.w \in {"none", "write", "ack"} => r.fut \in {"none", "early"}
  /\ r.w = "write" => \/ r.pc \in {"learn", "drop"}
                      \/ r.pc \in {"leave", "done"} /\ r.state = "CANCELLED" /\ r.hits # 0

\* A result under way is that of j's start.
Own(j, m) == m.is \in Results => m.by = j
AckOf(j, m) == m.is = "ack" /\ m.by = j

\* What is under way while j waits for its ACK and then for its result.
AirOK(j, r) ==
  /\ r.fut \in Results => r.by = j
  /\ r.w \in {"none", "write"} => \A n \in 1..Len(air) : ~AckOf(j, air[n])
  /\ r.pc = "learn" /\ r.w = "ack" =>
       \A n \in 1..Len(air) : AckOf(j, air[n]) =>
         last = j /\ \A i \in 1..Len(air) : n < i => Own(j, air[i])
  /\ r.pc = "learn" /\ r.w \in {"acked", "wait"} =>
       last = j /\ \A n \in 1..Len(air) : Own(j, air[n])

\* The link of the job's start is gone.
Unlinked(r) == r.w = "lost" \/ (r.w = "acked" /\ r.fut \in {"gone", "earlygone"})

\* What is known of the job whose calibration the sensor runs.
StopOK(j, r) ==
  last = j =>
    /\ r.started
    /\ learning =>
         /\ ~Unlinked(r) /\ r.pc # "close"
         /\ ~(r.pc \in {"leave", "done"} /\ r.state = "CANCELLED" /\ r.hits = 0)
         /\ ~(r.pc \in {"leave", "done"} /\ r.state = "LOST" /\ r.w # "unwritten")

JobOK(j, r) == StateOK(r) /\ AirOK(j, r) /\ StopOK(j, r)

IInv == /\ TypeOK
        /\ LockExact
        /\ learning => link = "CONNECTED" /\ last # None
        /\ \A j \in Jobs : JobOK(j, job[j])

\* A read or a start under way has its link, and nobody else waits for the sensor meanwhile.
Sends ==
  \A j \in Jobs :
    /\ job[j].w = "write" \/ (job[j].pc = "before" /\ ~job[j].cut) => link = "CONNECTED"
    /\ job[j].w = "write" => \A k \in Jobs \ {j} : job[k].pc # "learn"

\* Inside, of a record.
InsideOf(r) == r.pc \notin {"new", "identify", "done"}

-----------------------------------------------------------------------------
(* Steps of one job *)

\* What a job's next record must satisfy for a step that touches nothing else but the lock.
LEMMA OneJob ==
  ASSUME IInv, NEW j \in Jobs, NEW r \in Job,
         job' = [job EXCEPT ![j] = r],
         link' = link, back' = back, learning' = learning, last' = last, air' = air,
         JobOK(j, r),
         \/ InsideOf(r) = Inside(j) /\ busy' = busy
         \/ InsideOf(r) /\ busy = "none" /\ busy' = "calibration"
         \/ ~InsideOf(r) /\ Inside(j) /\ busy' = "none"
  PROVE  IInv'
<1>1. /\ job' \in [Jobs -> Job]
      /\ job'[j] = r
      /\ \A k \in Jobs : k # j => job'[k] = job[k]
  BY DEF IInv, TypeOK
<1>2. TypeOK'
  BY <1>1 DEF IInv, TypeOK, LinkTypeOK
<1>3. LockExact'
  <2>1. /\ Inside(j)' = InsideOf(r)
        /\ \A k \in Jobs : k # j => Inside(k)' = Inside(k)
    BY <1>1 DEF Inside, InsideOf
  <2>2. CASE InsideOf(r) = Inside(j) /\ busy' = busy
    BY <2>1, <2>2 DEF IInv, LockExact
  <2>3. CASE InsideOf(r) /\ busy = "none" /\ busy' = "calibration"
    BY <2>1, <2>3 DEF IInv, LockExact
  <2>4. CASE ~InsideOf(r) /\ Inside(j) /\ busy' = "none"
    BY <2>1, <2>4 DEF IInv, LockExact
  <2> QED BY <2>2, <2>3, <2>4
<1>4. (\A k \in Jobs : JobOK(k, job[k]))'
  BY <1>1 DEF IInv, JobOK, AirOK, StopOK, AckOf, Own
<1> QED BY <1>2, <1>3, <1>4 DEF IInv

\* The ways to leave, which several actions share.
LEMMA RefuseStep ==
  ASSUME IInv, NEW j \in Jobs, NEW outcome \in {"FAILED", "CANCELLED", "LOST"},
         job[j].pc \in {"new", "identify"}, Refuse(j, outcome),
         UNCHANGED <<lvars, busy, sensor>>
  PROVE  IInv'
<1> DEFINE r == [job[j] EXCEPT !.pc = "done", !.state = outcome]
<1>1. job[j] \in Job /\ JobOK(j, job[j])
  BY DEF IInv, TypeOK
<1>2. job' = [job EXCEPT ![j] = r] /\ r \in Job
  BY <1>1 DEF IInv, TypeOK, Job, Refuse
<1>3. JobOK(j, r)
  BY <1>1 DEF JobOK, StateOK, AirOK, StopOK, Unlinked, Verdicts, Job
<1>4. InsideOf(r) = Inside(j)
  BY <1>1 DEF Inside, InsideOf, Job
<1> HIDE DEF r
<1> QED BY <1>2, <1>3, <1>4, OneJob DEF lvars, sensor

LEMMA EnterStep ==
  ASSUME IInv, NEW j \in Jobs, job[j].pc \in {"new", "identify"}, Enter(j),
         UNCHANGED <<lvars, sensor>>
  PROVE  IInv'
<1>1. CASE busy # "none" \/ link # "CONNECTED"
  BY <1>1, RefuseStep DEF Enter
<1>2. CASE busy = "none" /\ link = "CONNECTED"
  <2> DEFINE r == [job[j] EXCEPT !.pc = "before", !.cut = FALSE]
  <2>1. job[j] \in Job /\ JobOK(j, job[j])
    BY DEF IInv, TypeOK
  <2>2. job' = [job EXCEPT ![j] = r] /\ r \in Job
    BY <1>2, <2>1 DEF IInv, TypeOK, Job, Enter
  <2>3. JobOK(j, r)
    BY <2>1 DEF JobOK, StateOK, AirOK, StopOK, Unlinked, Job
  <2>4. InsideOf(r) /\ busy = "none" /\ busy' = "calibration"
    BY <1>2, <2>1 DEF InsideOf, Job, Enter
  <2> HIDE DEF r
  <2> QED BY <2>2, <2>3, <2>4, OneJob DEF lvars, sensor
<1> QED BY <1>1, <1>2

LEMMA VerdictType ==
  ASSUME NEW x \in Job, NEW verdict \in Verdicts
  PROVE  [x EXCEPT !.pc = "leave", !.state = verdict] \in Job
BY DEF Job, Verdicts

LEMMA FinishStep ==
  ASSUME IInv, NEW j \in Jobs, NEW outcome \in Verdicts, Finish(j, outcome), Inside(j),
         outcome = "SUCCEEDED" => job[j].pc = "after",
         outcome = "CANCELLED" => job[j].pc \in {"before", "close"},
         outcome = "LOST" => job[j].pc = "before" \/ job[j].w \in {"lost", "unwritten"},
         job[j].pc \in {"before", "stop", "after", "close"},
         UNCHANGED <<lvars, busy, sensor>>
  PROVE  IInv'
<1> DEFINE r == [job[j] EXCEPT !.pc = "leave", !.state = outcome]
<1>1. job[j] \in Job /\ JobOK(j, job[j])
  BY DEF IInv, TypeOK
<1>2. job' = [job EXCEPT ![j] = r] /\ r \in Job
  <2>1. job' = [job EXCEPT ![j] = r]
    BY DEF Finish
  <2>2. r \in Job
    BY <1>1, VerdictType
  <2>3. QED
    BY <2>1, <2>2
<1>3. StateOK(r) /\ AirOK(j, r) /\ StopOK(j, r)
  <2>1. job[j].w # "write"
    BY <1>1 DEF JobOK, StateOK, Ended
  <2> QED BY <1>1, <2>1 DEF JobOK, StateOK, AirOK, StopOK, Unlinked, Verdicts, Job
<1>4. InsideOf(r) = Inside(j)
  BY <1>1 DEF Inside, InsideOf, Job
<1> HIDE DEF r
<1> QED BY <1>2, <1>3, <1>4, OneJob DEF lvars, sensor, JobOK

LEMMA RunStep == ASSUME IInv, NEW j \in Jobs, Run(j) PROVE IInv'
<1>1. CASE busy = "identify"
  <2> DEFINE r == [job[j] EXCEPT !.pc = "identify"]
  <2>1. job[j] \in Job /\ JobOK(j, job[j]) /\ job[j].pc = "new"
    BY DEF IInv, TypeOK, Run
  <2>2. job' = [job EXCEPT ![j] = r] /\ r \in Job
    BY <1>1, <2>1 DEF IInv, TypeOK, Job, Run
  <2>3. JobOK(j, r)
    BY <2>1 DEF JobOK, StateOK, AirOK, StopOK, Unlinked, Job
  <2>4. InsideOf(r) = Inside(j) /\ busy' = busy
    BY <1>1, <2>1 DEF Inside, InsideOf, Job, Run
  <2> HIDE DEF r
  <2> QED BY <2>2, <2>3, <2>4, OneJob DEF lvars, sensor, Run
<1>2. CASE busy # "identify"
  BY <1>2, EnterStep DEF Run
<1> QED BY <1>1, <1>2

LEMMA IdentifyEndsStep == ASSUME IInv, NEW j \in Jobs, IdentifyEnds(j) PROVE IInv'
<1>1. CASE job[j].asked
  BY <1>1, RefuseStep DEF IdentifyEnds
<1>2. CASE ~job[j].asked
  BY <1>2, EnterStep DEF IdentifyEnds
<1> QED BY <1>1, <1>2

LEMMA BeforeReadStep == ASSUME IInv, NEW j \in Jobs, BeforeRead(j) PROVE IInv'
<1>1. CASE job[j].asked
  BY <1>1, FinishStep DEF BeforeRead, Inside, Verdicts
<1>2. CASE ~job[j].asked
  <2> DEFINE r == [job[j] EXCEPT !.pc = "learn", !.state = "STARTING", !.started = TRUE,
                                 !.w = "write"]
  <2>1. job[j] \in Job /\ JobOK(j, job[j]) /\ job[j].pc = "before"
    BY DEF IInv, TypeOK, BeforeRead
  <2>2. job' = [job EXCEPT ![j] = r] /\ r \in Job
    BY <1>2, <2>1 DEF IInv, TypeOK, Job, BeforeRead
  <2>3. JobOK(j, r)
    BY <2>1 DEF JobOK, StateOK, AirOK, StopOK, Unlinked, AtWork, Job
  <2>4. InsideOf(r) = Inside(j) /\ busy' = busy
    BY <2>1 DEF Inside, InsideOf, Job, BeforeRead
  <2> HIDE DEF r
  <2> QED BY <2>2, <2>3, <2>4, OneJob DEF lvars, sensor, BeforeRead
<1> QED BY <1>1, <1>2

\* A waiter that resumes leaves a record of a job.
LEMMA LearningType == ASSUME NEW x \in Job PROVE [x EXCEPT !.state = "LEARNING"] \in Job
BY DEF Job

LEMMA ForgetType == ASSUME NEW x \in Job PROVE [x EXCEPT !.fut = "none"] \in Job
BY DEF Job

LEMMA WaiterType ==
  ASSUME NEW x \in Job, NEW w \in {"lost", "wait", "done"}
  PROVE  [x EXCEPT !.w = w] \in Job
BY DEF Job, Ended

LEMMA StartedType == ASSUME NEW r \in Job PROVE Started(r) \in Job
<1>1. CASE r.fut = "earlygone"
  <2>1. Started(r) = [r EXCEPT !.w = "lost"]
    BY <1>1 DEF Started
  <2>2. QED
    BY <2>1, WaiterType
<1>2. CASE r.fut # "earlygone"
  <2>1. PICK x : x = [r EXCEPT !.state = "LEARNING"]
    OBVIOUS
  <2>2. x \in Job /\ x.fut = r.fut
    BY <2>1, LearningType DEF Job
  <2>3. PICK y : y = IF r.fut = "early" THEN [x EXCEPT !.fut = "none"] ELSE x
    OBVIOUS
  <2>4. y \in Job
    BY <2>2, <2>3, ForgetType
  <2>5. PICK w \in {"lost", "wait", "done"} : Started(r) = [y EXCEPT !.w = w]
    <3>1. CASE r.fut = "early"
      <4>1. Started(r) = [r EXCEPT !.state = "LEARNING", !.fut = "none", !.w = "wait"]
        BY <3>1 DEF Started
      <4>2. y = [r EXCEPT !.state = "LEARNING", !.fut = "none"]
        BY <2>1, <2>3, <3>1 DEF Job
      <4>3. Started(r) = [y EXCEPT !.w = "wait"]
        BY <4>1, <4>2 DEF Job
      <4>4. QED
        BY <4>3
    <3>2. CASE r.fut # "early"
      <4>1. y = [r EXCEPT !.state = "LEARNING"]
        BY <2>1, <2>3, <3>2
      <4>2. \E w \in {"lost", "wait", "done"} : Started(r) = [r EXCEPT !.state = "LEARNING", !.w = w]
        BY <1>2, <3>2 DEF Started
      <4>3. \A w : [y EXCEPT !.w = w] = [r EXCEPT !.state = "LEARNING", !.w = w]
        BY <4>1 DEF Job
      <4>4. QED
        BY <4>2, <4>3
    <3>3. QED
      BY <3>1, <3>2
  <2>6. QED
    BY <2>4, <2>5, WaiterType
<1>3. QED
  BY <1>1, <1>2

\* What the resumed waiter changes of its job.
LEMMA StartedKeeps ==
  ASSUME NEW r \in Job
  PROVE  /\ Started(r) \in Job
         /\ Started(r).pc = r.pc /\ Started(r).by = r.by /\ Started(r).started = r.started
         /\ Started(r).hits = r.hits
         /\ Started(r).state = IF r.fut = "earlygone" THEN r.state ELSE "LEARNING"
         /\ Started(r).fut = IF r.fut = "early" THEN "none" ELSE r.fut
         /\ Started(r).w = IF r.fut \in {"gone", "earlygone"} THEN "lost"
                           ELSE IF r.fut \in {"none", "early"} THEN "wait" ELSE "done"
<1> DEFINE state == IF r.fut = "earlygone" THEN r.state ELSE "LEARNING"
           fut == IF r.fut = "early" THEN "none" ELSE r.fut
           w == IF r.fut \in {"gone", "earlygone"} THEN "lost"
                ELSE IF r.fut \in {"none", "early"} THEN "wait" ELSE "done"
<1>1. Started(r) = [r EXCEPT !.state = state, !.fut = fut, !.w = w]
  BY DEF Started, Job
<1> HIDE DEF state, fut, w
<1>3. Started(r) \in Job
  BY StartedType
<1>4. /\ Started(r).pc = r.pc /\ Started(r).by = r.by /\ Started(r).started = r.started
      /\ Started(r).hits = r.hits
  BY <1>1 DEF Job
<1>5. Started(r).state = state /\ Started(r).fut = fut /\ Started(r).w = w
  BY <1>1 DEF Job
<1>6. QED
  BY <1>3, <1>4, <1>5 DEF state, fut, w

LEMMA ResumeStep == ASSUME IInv, NEW j \in Jobs, Resume(j) PROVE IInv'
<1> DEFINE r == Started(job[j])
<1>1. job[j] \in Job /\ JobOK(j, job[j])
  BY DEF IInv, TypeOK
<1>2. job' = [job EXCEPT ![j] = r] /\ r \in Job
  BY <1>1, StartedKeeps DEF Resume
<1>3. StateOK(r) /\ AirOK(j, r) /\ StopOK(j, r)
  <2>1. /\ r.pc = "learn" /\ job[j].pc = "learn" /\ job[j].w = "acked"
        /\ r.by = job[j].by /\ r.started = job[j].started /\ r.hits = job[j].hits
        /\ r.state = IF job[j].fut = "earlygone" THEN job[j].state ELSE "LEARNING"
        /\ r.fut = IF job[j].fut = "early" THEN "none" ELSE job[j].fut
        /\ r.w = IF job[j].fut \in {"gone", "earlygone"} THEN "lost"
                 ELSE IF job[j].fut \in {"none", "early"} THEN "wait" ELSE "done"
    BY <1>1, StartedKeeps DEF Resume
  <2> HIDE DEF r
  <2>2. StateOK(r)
    BY <1>1, <2>1 DEF JobOK, StateOK, AtWork, Ended
  <2>3. AirOK(j, r)
    BY <1>1, <2>1 DEF JobOK, AirOK, Results
  <2>4. StopOK(j, r)
    BY <1>1, <2>1 DEF JobOK, StopOK, Unlinked
  <2>5. QED
    BY <2>2, <2>3, <2>4
<1>4. InsideOf(r) = Inside(j) /\ busy' = busy
  BY <1>1 DEF Inside, InsideOf, Job, Resume, Started
<1> HIDE DEF r
<1> QED BY <1>2, <1>3, <1>4, OneJob DEF lvars, sensor, JobOK, Resume

LEMMA WaiterWriteFailsStep == ASSUME IInv, NEW j \in Jobs, WaiterWriteFails(j) PROVE IInv'
<1> DEFINE r == [job[j] EXCEPT !.w = "unwritten"]
<1>1. job[j] \in Job /\ JobOK(j, job[j])
  BY DEF IInv, TypeOK
<1>2. job' = [job EXCEPT ![j] = r] /\ r \in Job
  BY <1>1 DEF IInv, TypeOK, Job, WaiterWriteFails, Ended
<1>3. StateOK(r) /\ AirOK(j, r) /\ StopOK(j, r)
  BY <1>1
     DEF JobOK, StateOK, AirOK, StopOK, Unlinked, Verdicts, AtWork, Ended, Results, Job, WaiterWriteFails
<1>4. InsideOf(r) = Inside(j) /\ busy' = busy
  BY <1>1 DEF Inside, InsideOf, Job, WaiterWriteFails
<1> HIDE DEF r
<1> QED BY <1>2, <1>3, <1>4, OneJob DEF lvars, sensor, JobOK, WaiterWriteFails

LEMMA WaiterEndedStep == ASSUME IInv, NEW j \in Jobs, WaiterEnded(j) PROVE IInv'
<1> DEFINE r == [job[j] EXCEPT !.pc = "stop"]
<1>1. job[j] \in Job /\ JobOK(j, job[j])
  BY DEF IInv, TypeOK
<1>2. job' = [job EXCEPT ![j] = r] /\ r \in Job
  BY <1>1 DEF IInv, TypeOK, Job, WaiterEnded, Ended
<1>3. StateOK(r) /\ AirOK(j, r) /\ StopOK(j, r)
  BY <1>1
     DEF JobOK, StateOK, AirOK, StopOK, Unlinked, Verdicts, AtWork, Ended, Results, Job, WaiterEnded
<1>4. InsideOf(r) = Inside(j) /\ busy' = busy
  BY <1>1 DEF Inside, InsideOf, Job, WaiterEnded
<1> HIDE DEF r
<1> QED BY <1>2, <1>3, <1>4, OneJob DEF lvars, sensor, JobOK, WaiterEnded

LEMMA StoppedStep == ASSUME IInv, NEW j \in Jobs, Stopped(j) PROVE IInv'
<1>1. CASE job[j].w = "done" /\ job[j].fut = "good"
  <2> DEFINE r == [job[j] EXCEPT !.pc = "after"]
  <2>1. job[j] \in Job /\ JobOK(j, job[j]) /\ job[j].pc = "stop"
    BY DEF IInv, TypeOK, Stopped
  <2>2. job' = [job EXCEPT ![j] = r] /\ r \in Job
    BY <1>1, <2>1 DEF IInv, TypeOK, Job, Stopped
  <2>3. StateOK(r) /\ AirOK(j, r) /\ StopOK(j, r)
    BY <1>1, <2>1 DEF JobOK, StateOK, AirOK, StopOK, Unlinked, Results, Job
  <2>4. InsideOf(r) = Inside(j) /\ busy' = busy
    BY <2>1 DEF Inside, InsideOf, Job, Stopped
  <2> HIDE DEF r
  <2> QED BY <2>2, <2>3, <2>4, OneJob DEF lvars, sensor, Stopped, JobOK
<1>2. CASE ~(job[j].w = "done" /\ job[j].fut = "good")
  <2>1. /\ Outcome(job[j]) \in Verdicts \ {"SUCCEEDED", "CANCELLED"}
        /\ Outcome(job[j]) = "LOST" => job[j].w \in {"lost", "unwritten"}
    BY DEF Outcome, Verdicts
  <2> QED BY <1>2, <2>1, FinishStep DEF Stopped, Inside, Verdicts
<1> QED BY <1>1, <1>2

LEMMA ReadBackStep == ASSUME IInv, NEW j \in Jobs, ReadBack(j) PROVE IInv'
BY FinishStep DEF ReadBack, Inside, Verdicts

LEMMA CancelSeenStep == ASSUME IInv, NEW j \in Jobs, CancelSeen(j) PROVE IInv'
<1> DEFINE r == [job[j] EXCEPT !.pc = "drop"]
<1>1. job[j] \in Job /\ JobOK(j, job[j])
  BY DEF IInv, TypeOK
<1>2. job' = [job EXCEPT ![j] = r] /\ r \in Job
  BY <1>1 DEF IInv, TypeOK, Job, CancelSeen, Ended
<1>3. StateOK(r) /\ AirOK(j, r) /\ StopOK(j, r)
  BY <1>1
     DEF JobOK, StateOK, AirOK, StopOK, Unlinked, Verdicts, AtWork, Ended, Results, Job, CancelSeen
<1>4. InsideOf(r) = Inside(j) /\ busy' = busy
  BY <1>1 DEF Inside, InsideOf, Job, CancelSeen
<1> HIDE DEF r
<1> QED BY <1>2, <1>3, <1>4, OneJob DEF lvars, sensor, JobOK, CancelSeen

LEMMA ClosedStep == ASSUME IInv, NEW j \in Jobs, Closed(j) PROVE IInv'
BY FinishStep DEF Closed, Inside, Verdicts

LEMMA LeaveStep == ASSUME IInv, NEW j \in Jobs, Leave(j) PROVE IInv'
<1> DEFINE r == [job[j] EXCEPT !.pc = "done"]
<1>1. job[j] \in Job /\ JobOK(j, job[j])
  BY DEF IInv, TypeOK
<1>2. job' = [job EXCEPT ![j] = r] /\ r \in Job
  BY <1>1 DEF IInv, TypeOK, Job, Leave
<1>3. StateOK(r) /\ AirOK(j, r) /\ StopOK(j, r)
  BY <1>1 DEF JobOK, StateOK, AirOK, StopOK, Unlinked, Verdicts, Job, Leave
<1>4. ~InsideOf(r) /\ Inside(j) /\ busy' = "none"
  BY <1>1 DEF Inside, InsideOf, Job, Leave
<1> HIDE DEF r
<1> QED BY <1>2, <1>3, <1>4, OneJob DEF lvars, sensor, Leave, JobOK

LEMMA AskStep == ASSUME IInv, NEW j \in Jobs, Ask(j) PROVE IInv'
<1> DEFINE r == [job[j] EXCEPT !.asked = TRUE]
<1>1. job[j] \in Job /\ JobOK(j, job[j])
  BY DEF IInv, TypeOK
<1>2. CASE job[j].pc = "new"
  BY <1>2, RefuseStep DEF Ask, Refuse
<1>3. CASE job[j].pc # "new"
  <2>1. job' = [job EXCEPT ![j] = r] /\ r \in Job
    BY <1>1, <1>3 DEF IInv, TypeOK, Job, Ask
  <2>2. StateOK(r) /\ AirOK(j, r) /\ StopOK(j, r)
    BY <1>1 DEF JobOK, StateOK, AirOK, StopOK, Unlinked, Job
  <2>3. InsideOf(r) = Inside(j) /\ busy' = busy
    BY <1>1 DEF Inside, InsideOf, Job, Ask
  <2> HIDE DEF r
  <2> QED BY <2>1, <2>2, <2>3, OneJob DEF lvars, sensor, Ask, JobOK
<1> QED BY <1>2, <1>3

\* Interrupted and the count of cancels keep a record of a job.
LEMMA InterruptedType ==
  ASSUME NEW r \in Job
  PROVE  Interrupted(r) \in Job /\ Interrupted(r).hits = r.hits
<1>1. /\ [r EXCEPT !.pc = "done", !.state = "CANCELLED"] \in Job
      /\ [r EXCEPT !.pc = "done", !.state = "CANCELLED"].hits = r.hits
  BY DEF Job
<1>2. [r EXCEPT !.pc = "drop"] \in Job /\ [r EXCEPT !.pc = "drop"].hits = r.hits
  BY DEF Job
<1>3. /\ [r EXCEPT !.pc = "leave", !.state = "SUCCEEDED"] \in Job
      /\ [r EXCEPT !.pc = "leave", !.state = "SUCCEEDED"].hits = r.hits
  BY DEF Job
<1>4. /\ [r EXCEPT !.pc = "leave", !.state = "CANCELLED"] \in Job
      /\ [r EXCEPT !.pc = "leave", !.state = "CANCELLED"].hits = r.hits
  BY DEF Job
<1>5. QED
  BY <1>1, <1>2, <1>3, <1>4 DEF Interrupted

LEMMA CountType ==
  ASSUME NEW q \in Job, NEW n \in 0..MaxCancels
  PROVE  [q EXCEPT !.hits = n] \in Job /\ [q EXCEPT !.hits = n].hits = n
BY DEF Job

LEMMA InterruptStep == ASSUME IInv, NEW j \in Jobs, Interrupt(j) PROVE IInv'
<1> DEFINE q == Interrupted(job[j])
           r == [q EXCEPT !.hits = job[j].hits + 1]
<1>1. job[j] \in Job /\ JobOK(j, job[j])
  BY DEF IInv, TypeOK
<1>2. q \in Job /\ q.hits = job[j].hits
  BY <1>1, InterruptedType
<1>3. r \in Job /\ r.hits = job[j].hits + 1
  <2>1. job[j].hits \in 0..MaxCancels
    BY <1>1 DEF Job
  <2>2. job[j].hits + 1 \in 0..MaxCancels
    BY <2>1, CalibrationAssumption DEF Interrupt
  <2>3. QED
    BY <1>2, <2>2, CountType
<1>4. job' = [job EXCEPT ![j] = r]
  BY DEF Interrupt
<1>5. /\ r.w = job[j].w /\ r.fut = job[j].fut /\ r.by = job[j].by /\ r.started = job[j].started
      /\ \/ job[j].pc = "identify" /\ r.pc = "done" /\ r.state = "CANCELLED"
         \/ job[j].pc = "learn" /\ r.pc = "drop" /\ r.state = job[j].state
         \/ job[j].pc = "after" /\ r.pc = "leave" /\ r.state = "SUCCEEDED"
         \/ job[j].pc = "leave" /\ r.pc = "leave" /\ r.state = job[j].state
         \/ /\ job[j].pc \in {"before", "drop", "close", "stop"}
            /\ r.pc = "leave" /\ r.state = "CANCELLED"
  BY <1>1 DEF Job, Interrupted, Interrupt
<1>6. r.hits # 0
  BY <1>1, <1>3, CalibrationAssumption DEF Job
<1> HIDE DEF r, q
<1>7. StateOK(r) /\ AirOK(j, r)
  <2>1. StateOK(r)
    BY <1>1, <1>5, <1>6 DEF JobOK, StateOK, Verdicts, AtWork
  <2>2. AirOK(j, r)
    BY <1>1, <1>5 DEF JobOK, AirOK
  <2> QED BY <2>1, <2>2
<1>8. StopOK(j, r)
  BY <1>1, <1>3, <1>5, <1>6 DEF JobOK, StateOK, StopOK, Unlinked, Job
<1>9. CASE r.pc = "done"
  BY <1>1, <1>3, <1>4, <1>5, <1>7, <1>8, <1>9, OneJob
     DEF lvars, sensor, Interrupt, JobOK, Inside, InsideOf
<1>10. CASE r.pc # "done"
  BY <1>1, <1>3, <1>4, <1>5, <1>7, <1>8, <1>10, OneJob
     DEF lvars, sensor, Interrupt, JobOK, Inside, InsideOf
<1> QED BY <1>9, <1>10

-----------------------------------------------------------------------------
(* The end of the link *)

LEMMA CutType ==
  ASSUME NEW x \in Job, NEW w \in {"none", "write", "ack", "acked", "wait"} \cup Ended,
         NEW fut \in {"none", "early", "good", "bad", "gone", "earlygone"}
  PROVE  [x EXCEPT !.cut = TRUE, !.w = w, !.fut = fut] \in Job
BY DEF Job

LEMMA CutKeeps ==
  ASSUME NEW r \in Job
  PROVE  /\ Cut(r) \in Job
         /\ Cut(r).pc = r.pc /\ Cut(r).state = r.state /\ Cut(r).started = r.started
         /\ Cut(r).by = r.by
         /\ Cut(r).w = IF r.w \in {"write", "ack", "wait"} THEN "lost" ELSE r.w
         /\ Cut(r).fut \in Results \/ r.fut = "good" \/ r.w # "acked" => Cut(r).fut = r.fut
<1> DEFINE w == IF r.w \in {"write", "ack", "wait"} THEN "lost" ELSE r.w
           fut == IF r.w # "acked" THEN r.fut
                  ELSE CASE r.fut = "none" -> "gone" [] r.fut = "early" -> "earlygone"
                         [] OTHER -> r.fut
<1>1. Cut(r) = [r EXCEPT !.cut = TRUE, !.w = w, !.fut = fut]
  BY DEF Cut, Job
<1>2. w \in {"none", "write", "ack", "acked", "wait"} \cup Ended
  BY DEF Job, Ended
<1>3. /\ fut \in {"none", "early", "good", "bad", "gone", "earlygone"}
      /\ fut \in Results \/ r.fut = "good" \/ r.w # "acked" => fut = r.fut
  BY DEF Job, Results
<1> HIDE DEF w, fut
<1>4. /\ Cut(r) \in Job
      /\ Cut(r).pc = r.pc /\ Cut(r).state = r.state /\ Cut(r).started = r.started
      /\ Cut(r).by = r.by /\ Cut(r).w = w /\ Cut(r).fut = fut
  <2>1. Cut(r) \in Job
    <3>1. [r EXCEPT !.cut = TRUE, !.w = w, !.fut = fut] \in Job
      BY <1>2, <1>3, CutType
    <3>2. QED
      BY <1>1, <3>1
  <2>2. /\ Cut(r).pc = r.pc /\ Cut(r).state = r.state /\ Cut(r).started = r.started
        /\ Cut(r).by = r.by /\ Cut(r).w = w /\ Cut(r).fut = fut
    BY <1>1 DEF Job
  <2>3. QED
    BY <2>1, <2>2
<1> QED BY <1>3, <1>4 DEF w

LEMMA CutOK ==
  ASSUME NEW r \in Job, StateOK(r)
  PROVE  StateOK(Cut(r))
<1>1. PICK q : q = Cut(r)
  OBVIOUS
<1>2. /\ q.pc = r.pc /\ q.state = r.state /\ q.started = r.started
      /\ q.w = IF r.w \in {"write", "ack", "wait"} THEN "lost" ELSE r.w
      /\ r.fut = "good" \/ r.w # "acked" => q.fut = r.fut
  BY <1>1, CutKeeps
<1>3. StateOK(q)
  BY <1>2 DEF StateOK, Ended
<1> QED BY <1>1, <1>3

\* The link goes while the jobs are in a state f that differs only in where they stand.
LEMMA LinkGoneStep ==
  ASSUME IInv, NEW f \in [Jobs -> Job], LinkGone(f), LinkTypeOK', busy' = busy,
         \A j \in Jobs : /\ StateOK(Cut(f[j])) /\ InsideOf(f[j]) = Inside(j)
                         /\ f[j].fut = job[j].fut /\ f[j].by = job[j].by /\ f[j].started = job[j].started
                         /\ f[j].pc = "learn" => job[j].pc = "learn"
                         /\ f[j].w = "acked" => job[j].w = "acked"
  PROVE  IInv'
<1>1. /\ \A j \in Jobs : job[j] \in Job /\ job'[j] = Cut(f[j])
      /\ learning' = FALSE /\ air' = <<>> /\ last' = last
  BY DEF IInv, TypeOK, LinkGone
<1>3. \A j \in Jobs :
        /\ job'[j] \in Job
        /\ job'[j].pc = f[j].pc /\ job'[j].started = job[j].started
        /\ job'[j].by = job[j].by
        /\ job'[j].w = IF f[j].w \in {"write", "ack", "wait"} THEN "lost" ELSE f[j].w
        /\ job'[j].fut \in Results => job'[j].fut = job[j].fut
  BY <1>1, CutKeeps
<1>4. TypeOK'
  <2>1. job' \in [Jobs -> Job]
    BY <1>3 DEF LinkGone
  <2>2. air' \in Seq(Message)
    BY <1>1
  <2> QED BY <1>1, <2>1, <2>2 DEF IInv, TypeOK
<1>5. LockExact'
  <2>1. \A j \in Jobs : Inside(j)' = Inside(j)
    BY <1>3 DEF Inside, InsideOf
  <2> QED BY <2>1 DEF IInv, LockExact
<1>6. ASSUME NEW j \in Jobs PROVE JobOK(j, job[j])'
  <2>1. JobOK(j, job[j])
    BY DEF IInv
  <2>2. StateOK(job[j])'
    <3>1. PICK q : q = job'[j]
      OBVIOUS
    <3>2. StateOK(q)
      BY <1>1, <3>1
    <3> QED BY <3>1, <3>2 DEF StateOK
  <2>3. Len(air') = 0
    BY <1>1
  <2>4. AirOK(j, job[j])'
    <3>1. job'[j].pc = "learn" /\ job'[j].w \in {"acked", "wait"} => job[j].pc = "learn" /\ job[j].w = "acked"
      BY <1>3
    <3> QED BY <1>1, <1>3, <2>1, <2>3, <3>1 DEF JobOK, AirOK
  <2>5. StopOK(j, job[j])'
    BY <1>1, <1>3, <2>1 DEF JobOK, StopOK
  <2> QED BY <2>2, <2>4, <2>5 DEF JobOK
<1> QED BY <1>1, <1>4, <1>5, <1>6 DEF IInv

\* The same, when one job has moved on.
LEMMA OneGoneStep ==
  ASSUME IInv, NEW j \in Jobs, NEW r \in Job, LinkGone([job EXCEPT ![j] = r]), LinkTypeOK', busy' = busy,
         StateOK(Cut(r)), InsideOf(r) = Inside(j),
         r.fut = job[j].fut, r.by = job[j].by, r.started = job[j].started,
         r.pc = "learn" => job[j].pc = "learn",
         r.w = "acked" => job[j].w = "acked"
  PROVE  IInv'
<1>1. PICK f : f = [job EXCEPT ![j] = r]
  OBVIOUS
<1>2. f \in [Jobs -> Job] /\ f[j] = r /\ \A k \in Jobs \ {j} : f[k] = job[k] /\ job[k] \in Job
  BY <1>1 DEF IInv, TypeOK
<1>3. \A k \in Jobs \ {j} : StateOK(Cut(job[k])) /\ InsideOf(job[k]) = Inside(k)
  BY <1>2, CutOK DEF IInv, JobOK, Inside, InsideOf
<1>4. LinkGone(f)
  BY <1>1
<1>5. \A k \in Jobs : /\ StateOK(Cut(f[k])) /\ InsideOf(f[k]) = Inside(k)
                      /\ f[k].fut = job[k].fut /\ f[k].by = job[k].by /\ f[k].started = job[k].started
                      /\ f[k].pc = "learn" => job[k].pc = "learn"
                      /\ f[k].w = "acked" => job[k].w = "acked"
  <2> TAKE k \in Jobs
  <2>1. CASE k = j
    BY <1>2, <2>1
  <2>2. CASE k # j
    BY <1>2, <1>3, <2>2
  <2> QED BY <2>1, <2>2
<1> QED BY <1>2, <1>4, <1>5, LinkGoneStep

LEMMA LinkEndsStep == ASSUME IInv, LinkEnds PROVE IInv'
<1>1. LinkTypeOK'
  BY DEF IInv, TypeOK, LinkEnds, Lost, Release, LinkTypeOK, LinkStates
<1>2. job \in [Jobs -> Job]
  BY DEF IInv, TypeOK
<1>3. \A j \in Jobs : StateOK(Cut(job[j])) /\ InsideOf(job[j]) = Inside(j)
  BY <1>2, CutOK DEF IInv, JobOK, Inside, InsideOf
<1> QED BY <1>1, <1>2, <1>3, LinkGoneStep DEF LinkEnds

LEMMA LostType == ASSUME Lost PROVE LinkTypeOK'
BY DEF Lost, LinkTypeOK, LinkStates

LEMMA BeforeFailsStep == ASSUME IInv, NEW j \in Jobs, BeforeFails(j) PROVE IInv'
<1>1. CASE UNCHANGED <<lvars, sensor>> /\ \E outcome \in {"FAILED", "LOST"} : Finish(j, outcome)
  BY <1>1, FinishStep DEF BeforeFails, Inside, Verdicts
<1>2. CASE Lost /\ LinkGone([job EXCEPT ![j].pc = "leave", ![j].state = "FAILED"])
  <2>1. PICK r : r = [job[j] EXCEPT !.pc = "leave", !.state = "FAILED"]
    OBVIOUS
  <2>2. job[j] \in Job /\ JobOK(j, job[j]) /\ job[j].pc = "before" /\ busy' = busy
    BY DEF IInv, TypeOK, BeforeFails
  <2>3. /\ r \in Job /\ r.pc = "leave" /\ r.state = "FAILED" /\ r.fut = job[j].fut /\ r.by = job[j].by
        /\ r.started = job[j].started /\ r.w = job[j].w
    BY <2>1, <2>2 DEF Job
  <2>4. StateOK(r)
    BY <2>2, <2>3 DEF JobOK, StateOK, Verdicts
  <2>5. InsideOf(r) = Inside(j)
    BY <2>2, <2>3 DEF InsideOf, Inside
  <2>6. [job EXCEPT ![j].pc = "leave", ![j].state = "FAILED"] = [job EXCEPT ![j] = r]
    BY <2>1, <2>2 DEF IInv, TypeOK
  <2> QED BY <1>2, <2>2, <2>3, <2>4, <2>5, <2>6, LostType, CutOK, OneGoneStep
<1> QED BY <1>1, <1>2 DEF BeforeFails

LEMMA WaiterTimesOutStep == ASSUME IInv, NEW j \in Jobs, WaiterTimesOut(j) PROVE IInv'
<1>1. PICK r : r = [job[j] EXCEPT !.w = "timeout"]
  OBVIOUS
<1>2. job[j] \in Job /\ JobOK(j, job[j]) /\ job[j].pc = "learn" /\ job[j].w \in {"write", "ack", "wait"}
  BY DEF IInv, TypeOK, WaiterTimesOut
<1>3. /\ r \in Job /\ r.w = "timeout" /\ r.pc = job[j].pc /\ r.state = job[j].state /\ r.fut = job[j].fut
      /\ r.by = job[j].by /\ r.started = job[j].started /\ r.hits = job[j].hits
  BY <1>1, <1>2 DEF Job, Ended
<1>4. StateOK(r) /\ AirOK(j, r) /\ StopOK(j, r)
  BY <1>2, <1>3 DEF JobOK, StateOK, AirOK, StopOK, Unlinked
<1>5. InsideOf(r) = Inside(j) /\ busy' = busy
  BY <1>3 DEF Inside, InsideOf, WaiterTimesOut
<1>6. [job EXCEPT ![j].w = "timeout"] = [job EXCEPT ![j] = r]
  BY <1>1
<1>7. CASE job' = [job EXCEPT ![j].w = "timeout"] /\ UNCHANGED <<lvars, sensor>>
  BY <1>3, <1>4, <1>5, <1>6, <1>7, OneJob DEF lvars, sensor, JobOK
<1>8. CASE Lost /\ LinkGone([job EXCEPT ![j].w = "timeout"])
  BY <1>3, <1>4, <1>5, <1>6, <1>8, LostType, CutOK, OneGoneStep
<1> QED BY <1>7, <1>8 DEF WaiterTimesOut

LEMMA DropLinkStep == ASSUME IInv, Sends, NEW j \in Jobs, DropLink(j) PROVE IInv'
<1> DEFINE r == [job[j] EXCEPT !.pc = "close"]
<1>1. job[j] \in Job /\ JobOK(j, job[j]) /\ job[j].pc = "drop"
  BY DEF IInv, TypeOK, DropLink
<1>2. [job EXCEPT ![j].pc = "close"] = [job EXCEPT ![j] = r] /\ r \in Job
  BY <1>1 DEF IInv, TypeOK, Job
<1>3. CASE link = "DISCONNECTED"
  <2>1. ~learning /\ job[j].w # "write"
    BY <1>3 DEF IInv, Sends
  <2>2. StateOK(r) /\ AirOK(j, r) /\ StopOK(j, r)
    BY <1>1, <2>1 DEF JobOK, StateOK, AirOK, StopOK, Job
  <2>3. InsideOf(r) = Inside(j) /\ busy' = busy
    BY <1>1 DEF Inside, InsideOf, Job, DropLink
  <2> HIDE DEF r
  <2> QED BY <1>2, <1>3, <2>2, <2>3, OneJob DEF lvars, sensor, DropLink, JobOK
<1>4. CASE link # "DISCONNECTED"
  <2>1. LinkTypeOK'
    BY <1>4 DEF DropLink, Release, LinkTypeOK, LinkStates
  <2>2. /\ r.pc = "close" /\ r.state = job[j].state /\ r.w = job[j].w /\ r.fut = job[j].fut
        /\ r.by = job[j].by /\ r.started = job[j].started
    BY <1>1 DEF Job
  <2>3. InsideOf(r) = Inside(j)
    BY <1>1, <2>2 DEF InsideOf, Inside
  <2> HIDE DEF r
  <2>4. StateOK(Cut(r))
    <3>1. PICK q : q = Cut(r)
      OBVIOUS
    <3>2. /\ q.pc = r.pc /\ q.state = r.state /\ q.started = r.started
          /\ q.w = IF r.w \in {"write", "ack", "wait"} THEN "lost" ELSE r.w
          /\ r.fut = "good" \/ r.w # "acked" => q.fut = r.fut
      BY <1>2, <3>1, CutKeeps
    <3>3. StateOK(q)
      BY <1>1, <2>2, <3>2 DEF JobOK, StateOK, AtWork
    <3> QED BY <3>1, <3>3
  <2>5. LinkGone([job EXCEPT ![j] = r]) /\ busy' = busy
    BY <1>2, <1>4 DEF DropLink
  <2> QED BY <1>2, <2>1, <2>2, <2>3, <2>4, <2>5, OneGoneStep
<1> QED BY <1>3, <1>4

-----------------------------------------------------------------------------
(* The sensor and its messages *)

LEMMA SensorStartsStep == ASSUME IInv, Sends, NEW j \in Jobs, SensorStarts(j) PROVE IInv'
<1>1. /\ job[j] \in Job /\ JobOK(j, job[j]) /\ job[j].w = "write"
      /\ link = "CONNECTED"
  BY DEF IInv, TypeOK, SensorStarts
<1>2. PICK r : r = [job[j] EXCEPT !.w = "ack"]
  OBVIOUS
<1>3. /\ job' = [job EXCEPT ![j] = r] /\ r \in Job
      /\ link' = link /\ back' = back /\ busy' = busy
  BY <1>2, <1>1 DEF IInv, TypeOK, Job, SensorStarts, lvars
<1>4. /\ r.w = "ack" /\ r.pc = job[j].pc /\ r.state = job[j].state /\ r.started = job[j].started
      /\ r.fut = job[j].fut /\ r.by = job[j].by /\ r.hits = job[j].hits
  BY <1>2, <1>1 DEF Job
<1>5. /\ job' \in [Jobs -> Job] /\ job'[j] = r
      /\ \A k \in Jobs : k # j => job'[k] = job[k]
  BY <1>3 DEF IInv, TypeOK
<1>6. PICK m \in Message :
        /\ m.by = j /\ air' = Append(air, m)
        /\ \/ m.is = "ack" /\ learning' = TRUE /\ last' = j
           \/ m.is = "nak" /\ learning' = learning /\ last' = last
  <2>1. CASE /\ learning' = TRUE /\ last' = j
             /\ air' = Append(air, [is |-> "ack", by |-> j])
    <3> DEFINE m == [is |-> "ack", by |-> j]
    <3>1. m \in Message /\ m.by = j /\ m.is = "ack"
      BY DEF Message
    <3> QED BY <2>1, <3>1
  <2>2. CASE /\ air' = Append(air, [is |-> "nak", by |-> j])
             /\ UNCHANGED <<learning, last>>
    <3> DEFINE m == [is |-> "nak", by |-> j]
    <3>1. m \in Message /\ m.by = j /\ m.is = "nak"
      BY DEF Message
    <3> QED BY <2>2, <3>1
  <2> QED BY <2>1, <2>2 DEF SensorStarts
<1>7. air \in Seq(Message) /\ air' \in Seq(Message)
  BY <1>6 DEF IInv, TypeOK
<1>8. TypeOK'
  BY <1>3, <1>5, <1>6, <1>7 DEF IInv, TypeOK, LinkTypeOK
<1>9. LockExact'
  BY <1>3, <1>4, <1>5 DEF IInv, LockExact, Inside
<1>10. /\ Len(air') = Len(air) + 1 /\ air'[Len(air) + 1] = m
      /\ \A n \in 1..Len(air) : air'[n] = air[n]
      /\ Len(air) \in Nat
  BY <1>6, <1>7
<1>11. JobOK(j, r)'
  <2>1. StateOK(r)'
    BY <1>1, <1>4 DEF JobOK, StateOK, Ended
  <2>2. AirOK(j, r)'
    BY <1>1, <1>4, <1>6, <1>10 DEF JobOK, AirOK, AckOf, Own, Results
  <2>3. StopOK(j, r)'
    BY <1>1, <1>4 DEF JobOK, StateOK, StopOK, Unlinked
  <2> QED BY <2>1, <2>2, <2>3 DEF JobOK
<1>12. ASSUME NEW k \in Jobs, k # j PROVE JobOK(k, job[k])'
  <2>1. job'[k] = job[k] /\ JobOK(k, job[k]) /\ job[k].pc # "learn"
    BY <1>1, <1>5, <1>12 DEF IInv, Sends
  <2>2. AirOK(k, job[k])'
    BY <1>6, <1>10, <1>12, <2>1 DEF JobOK, AirOK, AckOf
  <2>3. StopOK(k, job[k])'
    BY <1>6, <1>12, <2>1 DEF JobOK, StopOK
  <2> QED BY <2>1, <2>2, <2>3 DEF JobOK
<1>13. (learning => link = "CONNECTED" /\ last # None)'
  BY <1>1, <1>3, <1>6, CalibrationAssumption DEF IInv
<1>14. (\A k \in Jobs : JobOK(k, job[k]))'
  BY <1>5, <1>11, <1>12
<1> QED BY <1>8, <1>9, <1>13, <1>14 DEF IInv

LEMMA SensorEndsStep == ASSUME IInv, SensorEnds PROVE IInv'
<1>1. PICK m \in Message : /\ m.is \in Results /\ m.by = last
                           /\ air' = Append(air, m)
  <2>1. PICK result \in Results : air' = Append(air, [is |-> result, by |-> last])
    BY DEF SensorEnds, Results
  <2> DEFINE m == [is |-> result, by |-> last]
  <2>2. m \in Message /\ m.is \in Results /\ m.by = last
    BY DEF IInv, TypeOK, SensorEnds, Message, Results
  <2> QED BY <2>1, <2>2
<1>2. /\ learning' = FALSE /\ job' = job /\ last' = last /\ busy' = busy
      /\ link' = link /\ back' = back
  BY DEF SensorEnds, lvars
<1>3. air \in Seq(Message) /\ air' \in Seq(Message)
  BY <1>1 DEF IInv, TypeOK
<1>4. TypeOK' /\ LockExact'
  BY <1>2, <1>3 DEF IInv, TypeOK, LinkTypeOK, LockExact, Inside
<1>5. /\ Len(air') = Len(air) + 1 /\ air'[Len(air) + 1] = m
      /\ \A n \in 1..Len(air) : air'[n] = air[n]
      /\ Len(air) \in Nat
  BY <1>1, <1>3
<1>6. ASSUME NEW j \in Jobs PROVE JobOK(j, job[j])'
  <2>1. JobOK(j, job[j])
    BY DEF IInv
  <2>2. AirOK(j, job[j])'
    BY <1>1, <1>2, <1>5, <2>1 DEF JobOK, AirOK, AckOf, Own, Results
  <2>3. StateOK(job[j])' /\ StopOK(j, job[j])'
    BY <1>2, <2>1 DEF JobOK, StateOK, StopOK
  <2> QED BY <2>2, <2>3 DEF JobOK
<1> QED BY <1>2, <1>4, <1>6 DEF IInv

\* What holds of the messages under way holds without the oldest.
LEMMA TailFacts ==
  ASSUME NEW s \in Seq(Message), s # <<>>
  PROVE  /\ Tail(s) \in Seq(Message) /\ Len(Tail(s)) = Len(s) - 1
         /\ Len(s) \in Nat /\ 1 \in 1..Len(s) /\ Head(s) = s[1] /\ Head(s) \in Message
         /\ \A n \in 1..Len(Tail(s)) : n + 1 \in 1..Len(s) /\ Tail(s)[n] = s[n + 1]
OBVIOUS

\* What a result changes of a job.
LEMMA TakeResultKeeps ==
  ASSUME NEW r \in Job, NEW m, m.is \in Results, m.by \in Jobs
  PROVE  LET q == TakeResult(r, m) IN
         /\ q \in Job
         /\ q.pc = r.pc /\ q.state = r.state /\ q.started = r.started /\ q.hits = r.hits
         /\ \/ q = r
            \/ /\ r.pc = "learn" /\ r.w \in {"write", "ack"} /\ r.fut = "none"
               /\ q.fut = "early" /\ q.w = r.w
            \/ /\ r.pc = "learn" /\ r.w \in {"acked", "wait"} /\ r.fut = "none"
               /\ q.fut = m.is /\ q.by = m.by
               /\ q.w = IF r.w = "wait" THEN "done" ELSE "acked"
<1>1. PICK q : q = TakeResult(r, m)
  OBVIOUS
<1>2. CASE r.pc # "learn" \/ r.fut # "none" \/ r.w \notin {"write", "ack", "acked", "wait"}
  BY <1>1, <1>2 DEF TakeResult
<1>3. CASE r.pc = "learn" /\ r.fut = "none" /\ r.w \in {"write", "ack"}
  <2>1. q = [r EXCEPT !.fut = "early"]
    BY <1>1, <1>3 DEF TakeResult
  <2>2. QED
    BY <1>1, <1>3, <2>1 DEF Job
<1>4. CASE r.pc = "learn" /\ r.fut = "none" /\ r.w = "acked"
  <2>1. q = [r EXCEPT !.fut = m.is, !.by = m.by]
    BY <1>1, <1>4 DEF TakeResult
  <2>2. q \in Job
    BY <2>1 DEF Job, Results
  <2>3. QED
    BY <1>1, <1>4, <2>1, <2>2 DEF Job
<1>5. CASE r.pc = "learn" /\ r.fut = "none" /\ r.w = "wait"
  <2>1. q = [r EXCEPT !.fut = m.is, !.by = m.by, !.w = "done"]
    BY <1>1, <1>5 DEF TakeResult
  <2>2. q \in Job
    BY <2>1 DEF Job, Results, Ended
  <2>3. QED
    BY <1>1, <1>5, <2>1, <2>2 DEF Job
<1>6. QED
  BY <1>2, <1>3, <1>4, <1>5

LEMMA TailAir ==
  ASSUME NEW j \in Jobs, NEW r, AirOK(j, r), air \in Seq(Message), air # <<>>,
         air' = Tail(air), last' = last
  PROVE  AirOK(j, r)'
BY TailFacts DEF AirOK

LEMMA MessageLostStep == ASSUME IInv, MessageLost PROVE IInv'
<1>1. /\ learning' = learning /\ job' = job /\ last' = last /\ busy' = busy
      /\ link' = link /\ back' = back /\ air' = Tail(air)
      /\ air \in Seq(Message) /\ air # <<>>
  BY DEF IInv, TypeOK, MessageLost, lvars
<1>2. TypeOK' /\ LockExact'
  BY <1>1, TailFacts DEF IInv, TypeOK, LinkTypeOK, LockExact, Inside
<1>3. ASSUME NEW j \in Jobs PROVE JobOK(j, job[j])'
  <2>1. JobOK(j, job[j])
    BY DEF IInv
  <2>2. AirOK(j, job[j])'
    BY <1>1, <2>1, TailFacts DEF JobOK, AirOK
  <2>3. StateOK(job[j])' /\ StopOK(j, job[j])'
    BY <1>1, <2>1 DEF JobOK, StateOK, StopOK
  <2> QED BY <2>2, <2>3 DEF JobOK
<1> QED BY <1>1, <1>2, <1>3 DEF IInv

LEMMA DeliverStep == ASSUME IInv, Deliver PROVE IInv'
<1>1. PICK m : m = Head(air)
  OBVIOUS
<1>2. /\ learning' = learning /\ last' = last /\ busy' = busy
      /\ link' = link /\ back' = back /\ air' = Tail(air)
      /\ air \in Seq(Message) /\ air # <<>> /\ m \in Message
      /\ job \in [Jobs -> Job]
  BY <1>1, TailFacts DEF IInv, TypeOK, Deliver, lvars
<1>3. CASE m.is \in Results
  <2>1. job' = [j \in Jobs |-> TakeResult(job[j], m)]
    BY <1>1, <1>3 DEF Deliver, Results
  <2>2. ASSUME NEW j \in Jobs
        PROVE  /\ job'[j] \in Job
               /\ job'[j].pc = job[j].pc /\ job'[j].state = job[j].state
               /\ job'[j].started = job[j].started /\ job'[j].hits = job[j].hits
               /\ \/ job'[j] = job[j]
                  \/ /\ job[j].pc = "learn" /\ job[j].w \in {"write", "ack"} /\ job[j].fut = "none"
                     /\ job'[j].fut = "early" /\ job'[j].w = job[j].w
                  \/ /\ job[j].pc = "learn" /\ job[j].w \in {"acked", "wait"} /\ job[j].fut = "none"
                     /\ job'[j].fut = m.is /\ job'[j].by = m.by
                     /\ job'[j].w = IF job[j].w = "wait" THEN "done" ELSE "acked"
    <3>1. job[j] \in Job /\ job'[j] = TakeResult(job[j], m) /\ m.by \in Jobs
      BY <1>2, <2>1 DEF Message
    <3>2. QED
      BY <1>3, <3>1, TakeResultKeeps
  <2>3. job' \in [Jobs -> Job]
    BY <2>1, <2>2
  <2>4. TypeOK' /\ LockExact'
    <3>1. Tail(air) \in Seq(Message)
      BY <1>2, TailFacts
    <3>2. TypeOK'
      BY <1>2, <2>3, <3>1 DEF IInv, TypeOK, LinkTypeOK
    <3>3. \A j \in Jobs : Inside(j)' = Inside(j)
      BY <2>2 DEF Inside
    <3>4. LockExact'
      BY <1>2, <3>3 DEF IInv, LockExact
    <3>5. QED
      BY <3>2, <3>4
  <2>5. ASSUME NEW j \in Jobs PROVE JobOK(j, job[j])'
    <3>1. JobOK(j, job[j]) /\ job[j] \in Job
      BY DEF IInv, TypeOK
    <3>2. StateOK(job[j])'
      BY <2>2, <3>1 DEF JobOK, StateOK, AtWork
    <3>3. AirOK(j, job[j])'
      <4>1. job[j].pc = "learn" /\ job[j].w \in {"acked", "wait"} => m.by = j
        BY <1>1, <1>2, <1>3, <3>1, TailFacts DEF JobOK, AirOK, Own
      <4>2. CASE job'[j] = job[j]
        BY <1>2, <3>1, <4>2, TailFacts DEF JobOK, AirOK
      <4>3. CASE job'[j] # job[j]
        BY <1>2, <2>2, <3>1, <4>1, <4>3, TailFacts DEF JobOK, AirOK, Results
      <4> QED BY <4>2, <4>3
    <3>4. StopOK(j, job[j])'
      BY <1>2, <1>3, <2>2, <3>1 DEF JobOK, StopOK, Unlinked, Results
    <3> QED BY <3>2, <3>3, <3>4 DEF JobOK
  <2> QED BY <1>2, <2>4, <2>5 DEF IInv
<1>4. CASE m.is \notin Results
  <2>1. PICK k : k = m.by
    OBVIOUS
  <2>2. PICK r : r = TakeAnswer(job[k], m)
    OBVIOUS
  <2>3. k \in Jobs /\ m.is \in {"ack", "nak"} /\ job' = [job EXCEPT ![k] = r]
    BY <1>1, <1>2, <1>4, <2>1, <2>2 DEF Deliver, Results, Message
  <2>4. job[k] \in Job /\ JobOK(k, job[k])
    BY <2>3 DEF IInv, TypeOK
  <2>5. /\ r \in Job
        /\ \/ r = job[k] /\ ~(job[k].pc = "learn" /\ job[k].w = "ack")
           \/ /\ job[k].pc = "learn" /\ job[k].w = "ack"
              /\ r.pc = "learn" /\ r.state = job[k].state /\ r.started = job[k].started
              /\ r.fut = job[k].fut /\ r.by = job[k].by
              /\ r.w = IF m.is = "ack" THEN "acked" ELSE "error"
    BY <2>2, <2>4 DEF TakeAnswer, Job, Ended
  <2>6. /\ job' \in [Jobs -> Job] /\ job'[k] = r
        /\ \A j \in Jobs : j # k => job'[j] = job[j]
    BY <1>2, <2>3, <2>5
  <2>7. TypeOK' /\ LockExact'
    BY <1>2, <2>3, <2>5, <2>6, TailFacts DEF IInv, TypeOK, LinkTypeOK, LockExact, Inside
  <2>8. ASSUME NEW j \in Jobs, job'[j] = job[j] PROVE JobOK(j, job[j])'
    <3>1. JobOK(j, job[j])
      BY DEF IInv
    <3>2. PICK q : q = job[j]
      OBVIOUS
    <3>3. AirOK(j, job[j])'
      BY <1>2, <2>8, <3>2, <3>1, TailAir DEF JobOK
    <3> QED BY <1>2, <2>8, <3>1, <3>3 DEF JobOK, StateOK, StopOK
  <2>9. CASE job'[k] # job[k]
    <3>1. StateOK(r)
      BY <2>4, <2>5, <2>6, <2>9 DEF JobOK, StateOK
    <3>2. AirOK(k, r)'
      <4>1. m.is = "ack" => last = k /\ \A i \in 1..Len(air) : 1 < i => Own(k, air[i])
        BY <1>1, <1>2, <2>1, <2>4, <2>5, <2>6, <2>9, TailFacts DEF JobOK, AirOK, AckOf
      <4>2. m.is = "ack" => \A n \in 1..Len(Tail(air)) : Own(k, Tail(air)[n])
        BY <1>2, <4>1, TailFacts
      <4> QED BY <1>2, <2>4, <2>5, <2>6, <2>9, <4>1, <4>2 DEF JobOK, AirOK
    <3>3. StopOK(k, r)'
      <4>1. job[k].fut \notin {"gone", "earlygone"}
        BY <2>4, <2>5, <2>6, <2>9 DEF JobOK, StateOK
      <4> QED BY <1>2, <2>4, <2>5, <2>6, <2>9, <4>1 DEF JobOK, StopOK, Unlinked
    <3>4. JobOK(k, job[k])'
      BY <2>6, <3>1, <3>2, <3>3 DEF JobOK
    <3> QED BY <1>2, <2>6, <2>7, <2>8, <3>4 DEF IInv
  <2>10. CASE job'[k] = job[k]
    BY <1>2, <2>6, <2>7, <2>8, <2>10 DEF IInv
  <2> QED BY <2>9, <2>10
<1> QED BY <1>3, <1>4

-----------------------------------------------------------------------------
(* The rest of the session *)

LEMMA RestStep ==
  ASSUME IInv,
         \/ \E reason \in {"identify", "other"} : OtherStarts(reason)
         \/ OtherEnds \/ LinkComes \/ UNCHANGED vars
  PROVE  IInv'
<1>1. UNCHANGED <<job, learning, last, air>>
  BY DEF OtherStarts, OtherEnds, LinkComes, vars, sensor
<1>2. LinkTypeOK' /\ (link = "CONNECTED" => link' = "CONNECTED")
  BY DEF IInv, TypeOK, OtherStarts, OtherEnds, LinkComes, vars, lvars, Begin, Succeed, Fail,
         LinkTypeOK, LinkStates
<1>3. \/ busy' = busy
      \/ busy # "calibration" /\ busy' \in {"none", "identify", "other"}
  BY DEF OtherStarts, OtherEnds, LinkComes, vars
<1>4. TypeOK'
  BY <1>1, <1>2, <1>3 DEF IInv, TypeOK
<1>5. LockExact'
  BY <1>1, <1>3 DEF IInv, LockExact, Inside
<1>6. (\A j \in Jobs : JobOK(j, job[j]))'
  BY <1>1 DEF IInv, JobOK, StateOK, AirOK, StopOK
<1> QED BY <1>1, <1>2, <1>4, <1>5, <1>6 DEF IInv

-----------------------------------------------------------------------------
(* The theorems *)

LEMMA InitInv == ASSUME Init PROVE IInv
<1>1. TypeOK
  <2>1. job \in [Jobs -> Job]
    BY CalibrationAssumption DEF Init, Job
  <2>2. air \in Seq(Message)
    BY DEF Init
  <2> QED BY <2>1, <2>2 DEF Init, LinkInit, TypeOK, LinkTypeOK, LinkStates
<1>2. LockExact
  BY DEF Init, LockExact, Inside
<1>3. \A j \in Jobs : JobOK(j, job[j])
  BY CalibrationAssumption
     DEF Init, JobOK, StateOK, AirOK, StopOK, Results, AtWork, Verdicts
<1> QED BY <1>1, <1>2, <1>3 DEF IInv, Init

LEMMA NextInv == ASSUME IInv, Sends, [Next]_vars PROVE IInv'
<1>1. ASSUME NEW j \in Jobs, Run(j) \/ Waiter(j) \/ Ask(j) \/ Interrupt(j) PROVE IInv'
  BY <1>1, RunStep, ResumeStep, WaiterTimesOutStep, WaiterWriteFailsStep, SensorStartsStep,
     AskStep, InterruptStep DEF Waiter
<1>2. ASSUME NEW j \in Jobs, Step(j) PROVE IInv'
  BY <1>2, IdentifyEndsStep, BeforeFailsStep, BeforeReadStep, WaiterEndedStep, StoppedStep,
     ReadBackStep, CancelSeenStep, DropLinkStep, ClosedStep, LeaveStep DEF Step
<1> QED BY <1>1, <1>2, SensorEndsStep, MessageLostStep, DeliverStep, LinkEndsStep, RestStep
        DEF Next

\* A step keeps Sends if it brings no job to a read, a start or the wait for its end, and keeps
\* the link ...
Calmer(r, q) ==
  /\ q.w = "write" => r.w = "write"
  /\ q.pc = "before" /\ ~q.cut => r.pc = "before" /\ ~r.cut
  /\ q.pc = "learn" => r.pc = "learn"

LEMMA CalmSends ==
  ASSUME Sends, link = "CONNECTED" => link' = "CONNECTED",
         \A j \in Jobs : Calmer(job[j], job'[j])
  PROVE  Sends'
BY DEF Sends, Calmer

LEMMA OneCalm ==
  ASSUME TypeOK, Sends, link' = link, NEW j \in Jobs, NEW r, job' = [job EXCEPT ![j] = r], Calmer(job[j], r)
  PROVE  Sends'
<1>1. \A k \in Jobs : Calmer(job[k], job'[k])
  BY DEF TypeOK, Calmer
<1> QED BY <1>1, CalmSends

\* ... or the link goes, and with it every write.
LEMMA CutSends ==
  ASSUME NEW f \in [Jobs -> Job], LinkGone(f)
  PROVE  Sends'
<1>1. \A j \in Jobs : job'[j] = Cut(f[j]) /\ f[j] \in Job
  BY DEF LinkGone
<1>2. ASSUME NEW j \in Jobs PROVE job'[j].cut /\ job'[j].w # "write"
  <2>1. Cut(f[j]).cut
    BY <1>1 DEF Cut, Job
  <2>2. Cut(f[j]).w # "write"
    BY <1>1, CutKeeps
  <2> QED BY <1>1, <2>1, <2>2
<1> QED BY <1>2 DEF Sends

LEMMA FinishSends ==
  ASSUME TypeOK, Sends, link' = link, NEW j \in Jobs, NEW outcome, Finish(j, outcome) \/ Refuse(j, outcome)
  PROVE  Sends'
<1>1. job[j] \in Job
  BY DEF TypeOK
<1>2. PICK pc \in {"leave", "done"} : job' = [job EXCEPT ![j].pc = pc, ![j].state = outcome]
  BY DEF Finish, Refuse
<1>3. PICK r : r = [job[j] EXCEPT !.pc = pc, !.state = outcome]
  OBVIOUS
<1>4. Calmer(job[j], r)
  BY <1>1, <1>2, <1>3 DEF Calmer, Job
<1> QED BY <1>2, <1>3, <1>4, OneCalm

LEMMA EnterSends ==
  ASSUME IInv, Sends, link' = link, NEW j \in Jobs, Enter(j), job[j].pc \in {"new", "identify"}
  PROVE  Sends'
<1>1. CASE busy # "none" \/ link # "CONNECTED"
  <2>1. \E outcome : Refuse(j, outcome)
    BY <1>1 DEF Enter
  <2> QED BY <2>1, FinishSends DEF IInv
<1>2. CASE busy = "none" /\ link = "CONNECTED"
  <2>1. job[j] \in Job /\ StateOK(job[j])
    BY DEF IInv, TypeOK, JobOK
  <2>2. PICK r : r = [job[j] EXCEPT !.pc = "before", !.cut = FALSE]
    OBVIOUS
  <2>3. r.pc = "before" /\ r.w = job[j].w
    BY <2>1, <2>2 DEF Job
  <2>4. job' = [job EXCEPT ![j] = r]
    BY <1>2, <2>2 DEF Enter
  <2>5. job'[j] = r /\ \A k \in Jobs \ {j} : job'[k] = job[k]
    BY <2>4 DEF IInv, TypeOK
  <2> QED BY <1>2, <2>3, <2>5 DEF Sends
<1> QED BY <1>1, <1>2

LEMMA BeforeReadSends == ASSUME IInv, Sends, NEW j \in Jobs, BeforeRead(j) PROVE Sends'
<1>1. CASE job[j].asked
  BY <1>1, FinishSends DEF BeforeRead, lvars, IInv
<1>2. CASE ~job[j].asked
  <2>1. PICK r : r = [job[j] EXCEPT !.pc = "learn", !.state = "STARTING", !.started = TRUE, !.w = "write"]
    OBVIOUS
  <2>2. job[j] \in Job /\ Inside(j) /\ link = "CONNECTED" /\ link' = link
    BY DEF IInv, TypeOK, BeforeRead, Inside, Sends, lvars
  <2>3. r.pc = "learn" /\ r.w = "write"
    BY <2>1, <2>2 DEF Job
  <2>4. job' = [job EXCEPT ![j] = r]
    BY <1>2, <2>1 DEF BeforeRead
  <2>5. job'[j] = r /\ \A k \in Jobs \ {j} : job'[k] = job[k]
    BY <2>4 DEF IInv, TypeOK
  <2>6. \A k \in Jobs \ {j} : job[k].pc # "learn" /\ job[k].w # "write"
    BY <2>2 DEF IInv, LockExact, Inside, BeforeRead, Unblocked
  <2> QED BY <2>2, <2>3, <2>5, <2>6 DEF Sends
<1> QED BY <1>1, <1>2

LEMMA WaiterSends ==
  ASSUME IInv, Sends, NEW j \in Jobs, Waiter(j)
  PROVE  Sends'
<1>1. job[j] \in Job /\ TypeOK
  BY DEF IInv, TypeOK
<1>2. CASE Resume(j)
  <2>1. PICK r : r = Started(job[j])
    OBVIOUS
  <2>2. r.pc = "learn" /\ r.w # "write"
    BY <1>1, <1>2, <2>1, StartedKeeps DEF Resume
  <2>3. Calmer(job[j], r)
    BY <1>2, <2>2 DEF Calmer, Resume
  <2> QED BY <1>1, <1>2, <2>1, <2>3, OneCalm DEF Resume, lvars
<1>3. CASE WaiterTimesOut(j)
  <2>1. CASE job' = [job EXCEPT ![j].w = "timeout"] /\ UNCHANGED <<lvars, sensor>>
    <3>1. PICK r : r = [job[j] EXCEPT !.w = "timeout"]
      OBVIOUS
    <3>2. Calmer(job[j], r)
      BY <1>1, <3>1 DEF Calmer, Job
    <3> QED BY <1>1, <2>1, <3>1, <3>2, OneCalm DEF lvars
  <2>2. CASE LinkGone([job EXCEPT ![j].w = "timeout"])
    <3>1. [job EXCEPT ![j].w = "timeout"] \in [Jobs -> Job]
      <4>1. [job[j] EXCEPT !.w = "timeout"] \in Job
        BY <1>1 DEF Job, Ended
      <4> QED BY <1>1, <4>1 DEF TypeOK
    <3> QED BY <2>2, <3>1, CutSends
  <2> QED BY <1>3, <2>1, <2>2 DEF WaiterTimesOut
<1>4. CASE WaiterWriteFails(j)
  <2>1. PICK r : r = [job[j] EXCEPT !.w = "unwritten"]
    OBVIOUS
  <2>2. Calmer(job[j], r)
    BY <1>1, <2>1 DEF Calmer, Job
  <2> QED BY <1>1, <1>4, <2>1, <2>2, OneCalm DEF WaiterWriteFails, lvars
<1>5. CASE SensorStarts(j)
  <2>1. PICK r : r = [job[j] EXCEPT !.w = "ack"]
    OBVIOUS
  <2>2. Calmer(job[j], r)
    BY <1>1, <2>1 DEF Calmer, Job
  <2> QED BY <1>1, <1>5, <2>1, <2>2, OneCalm DEF SensorStarts, lvars
<1> QED BY <1>2, <1>3, <1>4, <1>5 DEF Waiter

LEMMA RunSends ==
  ASSUME IInv, Sends, NEW j \in Jobs, Run(j) \/ Ask(j) \/ Interrupt(j)
  PROVE  Sends'
<1>1. job[j] \in Job /\ TypeOK
  BY DEF IInv, TypeOK
<1>2. CASE Run(j)
  <2>1. CASE busy = "identify"
    <3>1. PICK r : r = [job[j] EXCEPT !.pc = "identify"]
      OBVIOUS
    <3>2. Calmer(job[j], r)
      BY <1>1, <3>1 DEF Calmer, Job
    <3> QED BY <1>1, <1>2, <2>1, <3>1, <3>2, OneCalm DEF Run, lvars
  <2>2. CASE busy # "identify"
    BY <1>2, <2>2, EnterSends DEF Run, lvars
  <2> QED BY <2>1, <2>2
<1>3. CASE Ask(j)
  <2>1. CASE job[j].pc = "new"
    BY <1>1, <1>3, <2>1, FinishSends DEF Ask, Refuse, lvars
  <2>2. CASE job[j].pc # "new"
    <3>1. PICK r : r = [job[j] EXCEPT !.asked = TRUE]
      OBVIOUS
    <3>2. Calmer(job[j], r)
      BY <1>1, <3>1 DEF Calmer, Job
    <3> QED BY <1>1, <1>3, <2>2, <3>1, <3>2, OneCalm DEF Ask, lvars
  <2> QED BY <2>1, <2>2
<1>4. CASE Interrupt(j)
  <2>1. PICK q : q = Interrupted(job[j])
    OBVIOUS
  <2>2. PICK r : r = [q EXCEPT !.hits = job[j].hits + 1]
    OBVIOUS
  <2>3. q \in Job /\ q.w = job[j].w /\ q.pc \in {"done", "drop", "leave"}
    <3>1. q \in Job
      BY <1>1, <2>1, InterruptedType
    <3> QED BY <1>1, <2>1, <3>1 DEF Interrupted, Job
  <2>4. r.w = q.w /\ r.pc = q.pc
    BY <2>2, <2>3 DEF Job
  <2>5. Calmer(job[j], r)
    BY <2>3, <2>4 DEF Calmer
  <2> QED BY <1>1, <1>4, <2>1, <2>2, <2>5, OneCalm DEF Interrupt, lvars
<1> QED BY <1>2, <1>3, <1>4

LEMMA OwnStepSends ==
  ASSUME IInv, Sends, NEW j \in Jobs, Step(j)
  PROVE  Sends'
<1>1. job[j] \in Job /\ TypeOK
  BY DEF IInv, TypeOK
<1>2. CASE IdentifyEnds(j)
  <2>1. CASE job[j].asked
    BY <1>1, <1>2, <2>1, FinishSends DEF IdentifyEnds, lvars
  <2>2. CASE ~job[j].asked
    BY <1>2, <2>2, EnterSends DEF IdentifyEnds, lvars
  <2> QED BY <2>1, <2>2
<1>3. CASE BeforeFails(j)
  <2>1. CASE UNCHANGED <<lvars, sensor>> /\ \E outcome \in {"FAILED", "LOST"} : Finish(j, outcome)
    BY <1>1, <2>1, FinishSends DEF lvars
  <2>2. CASE LinkGone([job EXCEPT ![j].pc = "leave", ![j].state = "FAILED"])
    <3>1. [job EXCEPT ![j].pc = "leave", ![j].state = "FAILED"] \in [Jobs -> Job]
      <4>1. [job[j] EXCEPT !.pc = "leave", !.state = "FAILED"] \in Job
        BY <1>1, VerdictType DEF Verdicts
      <4> QED BY <1>1, <4>1 DEF TypeOK
    <3> QED BY <2>2, <3>1, CutSends
  <2> QED BY <1>3, <2>1, <2>2 DEF BeforeFails
<1>4. CASE BeforeRead(j)
  BY <1>4, BeforeReadSends
<1>5. CASE WaiterEnded(j) \/ CancelSeen(j) \/ Leave(j)
  <2>1. PICK pc \in {"stop", "drop", "done"} : job' = [job EXCEPT ![j].pc = pc]
    BY <1>5 DEF WaiterEnded, CancelSeen, Leave
  <2>2. PICK r : r = [job[j] EXCEPT !.pc = pc]
    OBVIOUS
  <2>3. Calmer(job[j], r)
    BY <1>1, <2>2 DEF Calmer, Job
  <2> QED BY <1>1, <1>5, <2>1, <2>2, <2>3, OneCalm DEF WaiterEnded, CancelSeen, Leave, lvars
<1>6. CASE Stopped(j)
  <2>1. CASE job[j].w = "done" /\ job[j].fut = "good"
    <3>1. PICK r : r = [job[j] EXCEPT !.pc = "after"]
      OBVIOUS
    <3>2. Calmer(job[j], r)
      BY <1>1, <3>1 DEF Calmer, Job
    <3> QED BY <1>1, <1>6, <2>1, <3>1, <3>2, OneCalm DEF Stopped, lvars
  <2>2. CASE ~(job[j].w = "done" /\ job[j].fut = "good")
    BY <1>1, <1>6, <2>2, FinishSends DEF Stopped, lvars
  <2> QED BY <2>1, <2>2
<1>7. CASE ReadBack(j) \/ Closed(j)
  BY <1>1, <1>7, FinishSends DEF ReadBack, Closed, lvars
<1>8. CASE DropLink(j)
  <2>1. PICK r : r = [job[j] EXCEPT !.pc = "close"]
    OBVIOUS
  <2>2. Calmer(job[j], r) /\ r \in Job
    BY <1>1, <2>1 DEF Calmer, Job
  <2>3. [job EXCEPT ![j] = r] \in [Jobs -> Job] /\ [job EXCEPT ![j].pc = "close"] = [job EXCEPT ![j] = r]
    BY <1>1, <2>1, <2>2 DEF TypeOK
  <2>4. \/ job' = [job EXCEPT ![j] = r] /\ link' = link
        \/ LinkGone([job EXCEPT ![j] = r])
    BY <1>8, <2>3 DEF DropLink, lvars
  <2> QED BY <1>1, <2>2, <2>3, <2>4, OneCalm, CutSends
<1> QED BY <1>2, <1>3, <1>4, <1>5, <1>6, <1>7, <1>8 DEF Step

LEMMA NextSends == ASSUME IInv, Sends, [Next]_vars PROVE Sends'
<1>1. ASSUME NEW j \in Jobs, Run(j) \/ Waiter(j) \/ Step(j) \/ Ask(j) \/ Interrupt(j) PROVE Sends'
  BY <1>1, RunSends, WaiterSends, OwnStepSends
<1>2. CASE SensorEnds \/ MessageLost \/ UNCHANGED vars \/ OtherEnds
           \/ \E reason \in {"identify", "other"} : OtherStarts(reason)
  <2>1. job' = job /\ link' = link
    BY <1>2 DEF SensorEnds, MessageLost, vars, OtherEnds, OtherStarts, lvars
  <2> QED BY <2>1 DEF Sends
<1>3. CASE Deliver
  <2>1. PICK m : m = Head(air)
    OBVIOUS
  <2>2. m \in Message /\ link' = link /\ job \in [Jobs -> Job]
    BY <1>3, <2>1, TailFacts DEF IInv, TypeOK, Deliver, lvars
  <2>3. CASE m.is \in Results
    <3>1. ASSUME NEW j \in Jobs PROVE Calmer(job[j], job'[j])
      <4>1. job[j] \in Job /\ job'[j] = TakeResult(job[j], m) /\ m.by \in Jobs
        BY <1>3, <2>1, <2>2, <2>3 DEF Deliver, Results, Message
      <4>2. PICK q : q = TakeResult(job[j], m)
        OBVIOUS
      <4>3. q = job[j] \/ (q.pc = "learn" /\ job[j].pc = "learn" /\ (q.w = "write" => job[j].w = "write"))
        BY <2>3, <4>1, <4>2, TakeResultKeeps
      <4> QED BY <4>1, <4>2, <4>3 DEF Calmer
    <3> QED BY <2>2, <3>1, CalmSends
  <2>4. CASE m.is \notin Results
    <3>1. PICK k : k = m.by
      OBVIOUS
    <3>2. PICK r : r = TakeAnswer(job[k], m)
      OBVIOUS
    <3>3. k \in Jobs /\ job' = [job EXCEPT ![k] = r] /\ job[k] \in Job
      BY <1>3, <2>1, <2>2, <2>4, <3>1, <3>2 DEF Deliver, Results, Message
    <3>4. Calmer(job[k], r)
      BY <3>2, <3>3 DEF TakeAnswer, Calmer, Job
    <3> QED BY <2>2, <3>3, <3>4, OneCalm DEF IInv
  <2> QED BY <2>3, <2>4
<1>4. CASE LinkEnds
  BY <1>4, CutSends DEF LinkEnds, IInv, TypeOK
<1>5. CASE LinkComes
  <2>1. job' = job /\ (link = "CONNECTED" => link' = "CONNECTED")
    BY <1>5 DEF LinkComes, Begin, Succeed, Fail
  <2> QED BY <2>1 DEF Sends
<1> QED BY <1>1, <1>2, <1>3, <1>4, <1>5 DEF Next

LEMMA Inductive == Spec => [](IInv /\ Sends)
<1>1. Init => IInv /\ Sends
  <2>1. Init => Sends
    BY DEF Init, Sends
  <2> QED BY <2>1, InitInv
<1>2. IInv /\ Sends /\ [Next]_vars => IInv' /\ Sends'
  BY NextInv, NextSends
<1> QED BY <1>1, <1>2, PTL DEF Spec

\* Every variable keeps its type.
THEOREM TypeCorrect == Spec => []TypeOK
<1>1. IInv => TypeOK
  BY DEF IInv
<1> QED BY <1>1, Inductive, PTL

\* The calibration lock is held exactly while one job is inside it (_run(), the operation lock).
THEOREM LockExactAlways == Spec => []LockExact
<1>1. IInv => LockExact
  BY DEF IInv
<1> QED BY <1>1, Inductive, PTL

\* A job succeeds only by a result of its own start (start_auto_calibration(): receive numbers).
THEOREM OwnResultAlways == Spec => []OwnResult
<1>1. IInv => OwnResult
  BY DEF IInv, OwnResult, JobOK, StateOK, AirOK, Results
<1> QED BY <1>1, Inductive, PTL

\* A sensor whose last job is over as CANCELLED is not learning, unless that job's own task was
\* cancelled (run(): the cancel closes the session).
THEOREM CancelStopsAlways == Spec => []CancelStops
<1>1. IInv => CancelStops
  BY DEF IInv, CancelStops, Over, JobOK, StopOK
<1> QED BY <1>1, Inductive, PTL

\* Nor is one whose last job is over as LOST, unless a write failed on a link that is up.
THEOREM LostStopsAlways == Spec => []LostStops
<1>1. IInv => LostStops
  BY DEF IInv, LostStops, Over, JobOK, StopOK
<1> QED BY <1>1, Inductive, PTL

-----------------------------------------------------------------------------
(* The jobs keep the promise of JobState *)

\* What a job's state may become, when no other job is at work.
Moves(s, t) ==
  \/ s = t
  \/ s = "IDLE" /\ t \in {"STARTING", "FAILED", "CANCELLED", "LOST"}
  \/ s = "STARTING" /\ t \in {"LEARNING", "FAILED", "CANCELLED", "LOST", "TIMEOUT"}
  \/ s = "LEARNING" /\ t \in Verdicts

\* What the screens see of the jobs.
Phase == [j \in Jobs |-> job[j].state]

LEMMA OnePhase ==
  ASSUME NEW j \in Jobs, Moves(job[j].state, job'[j].state),
         \A k \in Jobs : k # j => job'[k].state = job[k].state,
         job[j].state = "IDLE" /\ job'[j].state = "STARTING" =>
           \A k \in Jobs : job[k].state \notin AtWork
  PROVE  [Promise!JobNext]_Phase
<1>1. Phase' = [Phase EXCEPT ![j] = job'[j].state]
  BY DEF Phase
<1>2. Phase[j] = job[j].state /\ \A k \in Jobs : Phase[k] = job[k].state
  BY DEF Phase
<1>3. CASE job[j].state = job'[j].state
  BY <1>3 DEF Phase
<1>4. CASE job[j].state = "IDLE" /\ job'[j].state = "STARTING"
  <2>1. Promise!Begin(j)
    BY <1>1, <1>2, <1>4 DEF Promise!Begin, Promise!AtWork, AtWork, Phase
  <2> QED BY <2>1 DEF Promise!JobNext
<1>5. CASE job[j].state = "STARTING" /\ job'[j].state = "LEARNING"
  <2>1. Promise!Learn(j)
    BY <1>1, <1>2, <1>5 DEF Promise!Learn, Phase
  <2> QED BY <2>1 DEF Promise!JobNext
<1>6. CASE job'[j].state \in Verdicts /\ job[j].state # job'[j].state
  <2>1. PICK outcome : outcome = job'[j].state
    OBVIOUS
  <2>2. Promise!End(j, outcome) /\ outcome \in Promise!Outcomes
    BY <1>1, <1>2, <1>6, <2>1 DEF Moves, Promise!End, Promise!Outcomes, Verdicts, Phase
  <2> QED BY <2>2 DEF Promise!JobNext
<1> QED BY <1>3, <1>4, <1>5, <1>6 DEF Moves, Verdicts

\* A job at work is inside the lock.
LEMMA WorkersInside ==
  ASSUME IInv, NEW j \in Jobs, job[j].state \in AtWork
  PROVE  Inside(j)
BY DEF IInv, TypeOK, Job, JobOK, StateOK, Inside, AtWork, Verdicts

\* The steps of one job.
LEMMA OwnPhase ==
  ASSUME IInv, NEW j \in Jobs, Run(j) \/ Waiter(j) \/ Step(j) \/ Ask(j) \/ Interrupt(j)
  PROVE  [Promise!JobNext]_Phase
<1>1. job \in [Jobs -> Job] /\ JobOK(j, job[j])
  BY DEF IInv, TypeOK
<1>2. CASE BeforeRead(j)
  <2>1. /\ \A k \in Jobs : k # j => job'[k] = job[k]
        /\ job[j].state = "IDLE" /\ job'[j].state \in {"CANCELLED", "STARTING"}
    BY <1>1, <1>2 DEF BeforeRead, Finish, JobOK, StateOK, Job
  <2>2. \A k \in Jobs : job[k].state \notin AtWork
    <3>1. Inside(j)
      BY <1>2 DEF BeforeRead, Inside
    <3> QED BY <2>1, <3>1, WorkersInside DEF IInv, LockExact, AtWork
  <2> QED BY <2>1, <2>2, OnePhase DEF Moves
<1>3. CASE ~BeforeRead(j)
  <2>1. /\ \A k \in Jobs : k # j => job'[k].state = job[k].state
        /\ Moves(job[j].state, job'[j].state)
        /\ ~(job[j].state = "IDLE" /\ job'[j].state = "STARTING")
    <3>1. CASE Run(j) \/ IdentifyEnds(j)
      BY <1>1, <3>1 DEF Run, IdentifyEnds, Enter, Refuse, Moves, JobOK, StateOK, Job
    <3>2. CASE BeforeFails(j)
      <4>1. job[j].state = "IDLE"
        BY <1>1, <3>2 DEF BeforeFails, JobOK, StateOK
      <4>2. CASE \E outcome \in {"FAILED", "LOST"} : Finish(j, outcome)
        BY <1>1, <4>1, <4>2 DEF Finish, Moves, Job
      <4>3. CASE LinkGone([job EXCEPT ![j].pc = "leave", ![j].state = "FAILED"])
        <5>1. PICK f : f = [job EXCEPT ![j].pc = "leave", ![j].state = "FAILED"]
          OBVIOUS
        <5>2. PICK r : r = [job[j] EXCEPT !.pc = "leave", !.state = "FAILED"]
          OBVIOUS
        <5>3. r \in Job /\ r.state = "FAILED"
          <6>1. r \in Job
            BY <1>1, <5>2, VerdictType DEF Verdicts
          <6> QED BY <1>1, <5>2, <6>1 DEF Job
        <5>4. f[j] = r /\ \A k \in Jobs : k # j => f[k] = job[k] /\ job[k] \in Job
          BY <1>1, <5>1, <5>2
        <5>5. \A k \in Jobs : job'[k].state = f[k].state
          BY <4>3, <5>1, <5>3, <5>4, CutKeeps DEF LinkGone
        <5> QED BY <4>1, <5>3, <5>4, <5>5 DEF Moves
      <4> QED BY <3>2, <4>2, <4>3 DEF BeforeFails
    <3>3. CASE Resume(j)
      BY <1>1, <3>3 DEF Resume, Started, Moves, JobOK, StateOK, AtWork, Job
    <3>4. CASE WaiterWriteFails(j) \/ WaiterEnded(j) \/ CancelSeen(j)
      BY <1>1, <3>4 DEF WaiterWriteFails, WaiterEnded, CancelSeen, Moves, Job
    <3>11. CASE WaiterTimesOut(j)
      <4>1. PICK f : f = [job EXCEPT ![j].w = "timeout"]
        OBVIOUS
      <4>2. \A k \in Jobs : f[k] \in Job /\ f[k].state = job[k].state
        BY <1>1, <4>1 DEF Job, Ended
      <4>3. job' = f \/ LinkGone(f)
        BY <3>11, <4>1 DEF WaiterTimesOut
      <4>4. \A k \in Jobs : job'[k].state = job[k].state
        BY <4>2, <4>3, CutKeeps DEF LinkGone
      <4>5. job[j].pc = "learn"
        BY <3>11 DEF WaiterTimesOut
      <4> QED BY <1>1, <4>4, <4>5 DEF JobOK, StateOK, AtWork, Moves
    <3>5. CASE SensorStarts(j) \/ Leave(j)
      BY <1>1, <3>5 DEF SensorStarts, Leave, Moves, Job
    <3>6. CASE Stopped(j)
      BY <1>1, <3>6 DEF Stopped, Finish, Outcome, Moves, JobOK, StateOK, AtWork, Verdicts, Job
    <3>7. CASE ReadBack(j) \/ Closed(j)
      BY <1>1, <3>7 DEF ReadBack, Closed, Finish, Moves, JobOK, StateOK, AtWork, Verdicts, Job
    <3>8. CASE DropLink(j)
      <4> DEFINE f == [job EXCEPT ![j].pc = "close"]
      <4>1. f \in [Jobs -> Job] /\ \A k \in Jobs : f[k].state = job[k].state
        BY <1>1 DEF Job
      <4>2. job' = f \/ LinkGone(f)
        BY <3>8 DEF DropLink
      <4> HIDE DEF f
      <4>3. \A k \in Jobs : job'[k].state = job[k].state
        BY <4>1, <4>2, CutKeeps DEF LinkGone
      <4> QED BY <3>8, <4>3, <1>1 DEF DropLink, JobOK, StateOK, AtWork, Moves
    <3>9. CASE Ask(j)
      BY <1>1, <3>9 DEF Ask, Moves, JobOK, StateOK, Job
    <3>10. CASE Interrupt(j)
      <4> DEFINE q == Interrupted(job[j])
      <4>1. /\ q \in Job
            /\ \/ job[j].pc \in {"learn", "leave"} /\ q.state = job[j].state
               \/ job[j].pc = "after" /\ q.state = "SUCCEEDED"
               \/ /\ job[j].pc \in {"identify", "before", "drop", "close", "stop"}
                  /\ q.state = "CANCELLED"
        <5>1. q \in Job
          BY <1>1, InterruptedType
        <5>2. CASE job[j].pc \in {"learn", "leave"}
          BY <1>1, <5>1, <5>2 DEF Interrupted, Job
        <5>3. CASE job[j].pc = "after"
          BY <1>1, <5>1, <5>3 DEF Interrupted, Job
        <5>4. CASE job[j].pc \in {"identify", "before", "drop", "close", "stop"}
          BY <1>1, <5>1, <5>4 DEF Interrupted, Job
        <5>5. job[j].pc \in {"identify", "before", "learn", "drop", "close", "stop", "after", "leave"}
          BY <1>1, <3>10 DEF Interrupt, Job
        <5>6. QED
          BY <5>1, <5>2, <5>3, <5>4, <5>5
      <4>2. job' = [job EXCEPT ![j] = [q EXCEPT !.hits = job[j].hits + 1]]
        BY <3>10 DEF Interrupt
      <4> HIDE DEF q
      <4>3. /\ Moves(job[j].state, q.state)
            /\ job[j].state = "IDLE" => q.state = "CANCELLED"
        BY <1>1, <4>1 DEF JobOK, StateOK, AtWork, Verdicts, Moves
      <4>4. job'[j].state = q.state /\ \A k \in Jobs : k # j => job'[k] = job[k]
        BY <1>1, <4>1, <4>2 DEF Job
      <4> QED BY <4>3, <4>4
    <3> QED BY <1>3, <3>1, <3>2, <3>3, <3>4, <3>5, <3>6, <3>7, <3>8, <3>9, <3>10, <3>11
            DEF Waiter, Step
  <2> QED BY <2>1, OnePhase
<1> QED BY <1>2, <1>3

\* The other steps leave every job's state alone.
LEMMA OtherPhase ==
  ASSUME IInv,
         \/ SensorEnds \/ MessageLost \/ Deliver
         \/ \E reason \in {"identify", "other"} : OtherStarts(reason)
         \/ OtherEnds \/ LinkEnds \/ LinkComes \/ UNCHANGED vars
  PROVE  [Promise!JobNext]_Phase
<1>1. job \in [Jobs -> Job]
  BY DEF IInv, TypeOK
<1>2. \A j \in Jobs : job'[j].state = job[j].state
  <2>1. CASE LinkEnds
    BY <1>1, <2>1, CutKeeps DEF LinkEnds, LinkGone
  <2>2. CASE Deliver
    <3>1. air \in Seq(Message) /\ air # <<>>
      BY <2>2 DEF IInv, TypeOK, Deliver
    <3>2. PICK m \in Message : m = Head(air)
      BY <3>1, TailFacts
    <3>3. \/ job' = [j \in Jobs |-> TakeResult(job[j], m)]
          \/ m.by \in Jobs /\ job' = [job EXCEPT ![m.by] = TakeAnswer(job[m.by], m)]
      BY <2>2, <3>2 DEF Deliver, Message
    <3>4. \A j \in Jobs : /\ TakeResult(job[j], m).state = job[j].state
                          /\ TakeAnswer(job[j], m).state = job[j].state
      BY <1>1 DEF TakeResult, TakeAnswer, Job
    <3> QED BY <1>1, <3>3, <3>4
  <2>3. CASE ~LinkEnds /\ ~Deliver
    BY <2>3 DEF SensorEnds, MessageLost, OtherStarts, OtherEnds, LinkComes, vars
  <2> QED BY <2>1, <2>2, <2>3
<1> QED BY <1>2 DEF Phase

\* The jobs' states as a screen sees them implement JobState: one outcome each, one job at work.
THEOREM Refinement == Spec => ImplementsJob
<1>1. Init => Promise!JobInit
  BY DEF Init, Promise!JobInit
<1>2. IInv /\ [Next]_vars => [Promise!JobNext]_Phase
  <2> SUFFICES ASSUME IInv, [Next]_vars PROVE [Promise!JobNext]_Phase
    OBVIOUS
  <2> QED BY OwnPhase, OtherPhase DEF Next
<1> QED BY <1>1, <1>2, Inductive, PTL DEF Spec, ImplementsJob, Promise!JobSpec, Phase

(* -- rounds and what is shown of them ---------------------------------------- *)

IsLast(x, S) == x \in S /\ \A y \in S : y <= x

\* The parts of the inductive invariant.
RoundInv == /\ first <= round /\ (round # 0 => first # 0)
            /\ \A d \in Devices : /\ coreFor[d] <= round /\ attempt[d] <= coreFor[d]
                                  /\ previous[d].attempt <= previous[d].core
                                  /\ previous[d].core <= round

\* One core batch by itself.
CoreOK(c) == /\ c.state = "WAITING" => \A d \in Devices : c.job[d] = "none"
             /\ c.early => (c.state = "WAITING" /\ c.cancel) \/ c.state = "CANCELLED"
             /\ c.early => \A d \in Devices : c.job[d] \in {"none", "CANCELLED"}

CoreInv == \A r \in Rounds : CoreOK(core[r])

\* The jobs of the round under way, for its sensors.
FreshInv == Active => \A d \in Now.ids :
              /\ Now.job[d] # "CANCELLED" => coreFor[d] = round
              /\ Now.job[d] \in {"none", "IDLE"} =>
                   elapsed[d] = 0 /\ (round # first => previous[d] # Nothing)

Before(d) == Counts(d) \ {round}

PreviousInv == \A d \in Devices : previous[d] # Nothing =>
                 /\ first # round /\ coreFor[d] = round
                 /\ IsLast(previous[d].core, Before(d))
                 /\ previous[d].attempt = Cardinality(Before(d))
                 /\ previous[d].elapsed \in {0, previous[d].core}

LastInv == \A d \in InBatch : /\ IsLast(coreFor[d], Counts(d))
                              /\ attempt[d] = Cardinality(Counts(d))

BatchIInv ==
  /\ BatchTypeOK /\ RoundInv
  /\ CoreInv /\ FreshInv /\ PreviousInv /\ LastInv /\ ElapsedIsOfAttempt

-----------------------------------------------------------------------------
LEMMA NewCoreType == ASSUME NEW ids \in SUBSET Devices PROVE NewCore(ids) \in Core
  BY DEF NewCore, NoCore, Core, CoreEnded, Outcomes

LEMMA NoCoreType == NoCore \in Core
  BY DEF NoCore, Core, CoreEnded, Outcomes

LEMMA TypeInit == BatchInit => BatchTypeOK
<1> SUFFICES ASSUME BatchInit PROVE BatchTypeOK
  OBVIOUS
<1>1. core \in [Rounds -> Core]
  BY NoCoreType DEF BatchInit
<1>2. Nothing \in Earlier
  BY RoundsAssumption DEF Nothing, Earlier
<1>3. previous \in [Devices -> Earlier]
  BY <1>2 DEF BatchInit
<1>4. 0 \in 0..MaxRounds
  BY RoundsAssumption
<1>5. /\ coreFor \in [Devices -> 0..MaxRounds] /\ attempt \in [Devices -> 0..MaxRounds]
      /\ elapsed \in [Devices -> 0..MaxRounds]
  BY <1>4 DEF BatchInit
<1>6. round \in 0..MaxRounds /\ first \in 0..MaxRounds /\ caller \in BOOLEAN
  BY <1>4 DEF BatchInit
<1>7. QED
  BY <1>1, <1>3, <1>5, <1>6 DEF BatchTypeOK

\* Any way to take results back keeps the types.
LEMMA RestoresType ==
  ASSUME BatchTypeOK, NEW ds \in SUBSET Devices, Restores(ds)
  PROVE  /\ coreFor' \in [Devices -> 0..MaxRounds]
         /\ attempt' \in [Devices -> 0..MaxRounds]
         /\ elapsed' \in [Devices -> 0..MaxRounds]
         /\ previous' \in [Devices -> Earlier]
<1>1. Nothing \in Earlier
  BY RoundsAssumption DEF Nothing, Earlier
<1>2. \A d \in Devices : /\ previous[d].core \in 0..MaxRounds
                         /\ previous[d].attempt \in 0..MaxRounds
                         /\ previous[d].elapsed \in 0..MaxRounds
  BY DEF BatchTypeOK, Earlier
<1>3. QED
  BY <1>1, <1>2 DEF Restores, BatchTypeOK

\* A step that changes the core of the round under way to a core keeps the type.
LEMMA CoreType ==
  ASSUME BatchTypeOK, round \in Rounds, NEW c \in Core, core' = [core EXCEPT ![round] = c]
  PROVE  core' \in [Rounds -> Core]
  BY DEF BatchTypeOK

LEMMA RoundIn == ASSUME BatchTypeOK, Active PROVE round \in Rounds /\ Now \in Core
  BY RoundsAssumption DEF BatchTypeOK, Active, Rounds, Now

LEMMA TypeStep == BatchTypeOK /\ RoundInv /\ [BatchNext]_batchVars => BatchTypeOK'
<1> SUFFICES ASSUME BatchTypeOK, RoundInv, [BatchNext]_batchVars PROVE BatchTypeOK'
  OBVIOUS
<1>1. ASSUME NEW ids \in SUBSET Devices, Create(ids) PROVE BatchTypeOK'
  <2>1. round + 1 \in 1..MaxRounds /\ round' \in 0..MaxRounds /\ first' \in 0..MaxRounds
    BY <1>1, RoundsAssumption DEF Create, BatchTypeOK
  <2>2. NewCore(ids) \in Core /\ NoCore \in Core
    BY NewCoreType DEF NoCore, Core, CoreEnded, Outcomes
  <2>3. core' \in [Rounds -> Core]
    BY <1>1, <2>2 DEF Create
  <2>4. /\ coreFor' \in [Devices -> 0..MaxRounds] /\ attempt' \in [Devices -> 0..MaxRounds]
        /\ elapsed' \in [Devices -> 0..MaxRounds] /\ previous' \in [Devices -> Earlier]
    BY <1>1, <2>1, RoundsAssumption DEF Create, Earlier, Nothing
  <2>5. caller' \in BOOLEAN
    BY <1>1 DEF Create, BatchTypeOK
  <2>6. QED
    BY <2>1, <2>3, <2>4, <2>5 DEF BatchTypeOK
<1>2. ASSUME NEW ids \in SUBSET Devices, Retry(ids) PROVE BatchTypeOK'
  <2>1. round + 1 \in 1..MaxRounds /\ round' \in 0..MaxRounds /\ first' \in 0..MaxRounds
    BY <1>2, RoundsAssumption DEF Retry, BatchTypeOK
  <2>2. core' \in [Rounds -> Core]
    BY <1>2, <2>1, NewCoreType DEF Retry, BatchTypeOK
  <2>3. coreFor' \in [Devices -> 0..MaxRounds] /\ elapsed' \in [Devices -> 0..MaxRounds]
    <3>1. round + 1 \in 0..MaxRounds /\ 0 \in 0..MaxRounds
      BY <2>1, RoundsAssumption
    <3>2. \A d \in Devices : coreFor[d] \in 0..MaxRounds /\ elapsed[d] \in 0..MaxRounds
      BY DEF BatchTypeOK
    <3>3. QED
      BY <1>2, <3>1, <3>2 DEF Retry
  <2>4. attempt' \in [Devices -> 0..MaxRounds]
    <3>1. \A d \in Devices : attempt[d] + 1 \in 0..MaxRounds
      BY <2>1, RoundsAssumption DEF BatchTypeOK, RoundInv
    <3>2. QED
      BY <1>2, <3>1 DEF Retry, BatchTypeOK
  <2>5. previous' \in [Devices -> Earlier]
    BY <1>2, RoundsAssumption DEF Retry, BatchTypeOK, Earlier, Nothing
  <2>6. QED
    BY <1>2, <2>1, <2>2, <2>3, <2>4, <2>5 DEF BatchTypeOK, Retry
<1>3. CASE Cancel
  <2>1. Active /\ round \in Rounds /\ Now \in Core
    BY <1>3, RoundIn DEF Cancel
  <2>2. core' \in [Rounds -> Core]
    <3>1. Cancelled(Now) \in Core
      BY <2>1 DEF Cancelled, Core
    <3>2. QED
      BY <1>3, <2>1, <3>1, CoreType DEF Cancel
  <2>3. QED
    BY <1>3, <2>2 DEF Cancel, BatchTypeOK
<1>4. CASE CancelReturns
  BY <1>4 DEF CancelReturns, BatchTypeOK
<1>5. CASE Fire
  <2>1. Active /\ round \in Rounds /\ Now \in Core
    BY <1>5, RoundIn DEF Fire
  <2>2. core' \in [Rounds -> Core]
    BY <1>5, <2>1 DEF Fire, BatchTypeOK, Core, Now, Outcomes
  <2>3. QED
    BY <1>5, <2>2 DEF Fire, BatchTypeOK
<1>6. CASE CancelledWaiting
  <2>1. Active /\ round \in Rounds /\ Now \in Core
    BY <1>6, RoundIn DEF CancelledWaiting
  <2>2. core' \in [Rounds -> Core]
    BY <1>6, <2>1 DEF CancelledWaiting, BatchTypeOK, Core, Now, Outcomes, CoreEnded
  <2>3. Now.ids \in SUBSET Devices /\ Restores(Now.ids)
    BY <1>6, <2>1 DEF CancelledWaiting, Core
  <2>4. QED
    BY <1>6, <2>2, <2>3, RestoresType DEF CancelledWaiting, BatchTypeOK
<1>7. CASE RoundEnds
  <2>1. Active /\ round \in Rounds /\ Now \in Core
    BY <1>7, RoundIn DEF RoundEnds
  <2>2. core' \in [Rounds -> Core]
    BY <1>7, <2>1 DEF RoundEnds, BatchTypeOK, Core, Now, CoreEnded
  <2>3. QED
    BY <1>7, <2>2 DEF RoundEnds, BatchTypeOK
<1>8. ASSUME NEW d \in Devices, SessionGoes(d) PROVE BatchTypeOK'
  <2>1. Active /\ round \in Rounds /\ Now \in Core
    BY <1>8, RoundIn DEF SessionGoes
  <2>2. core' \in [Rounds -> Core]
    BY <1>8, <2>1 DEF SessionGoes, BatchTypeOK, Core, Now
  <2>3. QED
    BY <1>8, <2>2 DEF SessionGoes, BatchTypeOK
<1>9. ASSUME NEW d \in Devices, JobProgress(d) PROVE BatchTypeOK'
  BY <1>9 DEF JobProgress, BatchTypeOK
<1>10. ASSUME NEW d \in Devices, JobStarts(d) PROVE BatchTypeOK'
  <2>1. Active /\ round \in Rounds /\ Now \in Core
    BY <1>10, RoundIn DEF JobStarts, Running
  <2>2. core' \in [Rounds -> Core]
    BY <1>10, <2>1 DEF JobStarts, BatchTypeOK, Core, Now
  <2>3. QED
    BY <1>10, <2>2 DEF JobStarts, BatchTypeOK
<1>11. ASSUME NEW d \in Devices, NEW o \in Outcomes, JobEnds(d, o) PROVE BatchTypeOK'
  <2>1. Active /\ round \in Rounds /\ Now \in Core
    BY <1>11, RoundIn DEF JobEnds, Running
  <2>2. core' \in [Rounds -> Core]
    <3>1. WithOutcome(Now, d, o) \in Core
      BY <2>1 DEF WithOutcome, Core
    <3>2. QED
      BY <1>11, <2>1, <3>1, CoreType DEF JobEnds
  <2>3. /\ coreFor' \in [Devices -> 0..MaxRounds] /\ attempt' \in [Devices -> 0..MaxRounds]
        /\ elapsed' \in [Devices -> 0..MaxRounds] /\ previous' \in [Devices -> Earlier]
    <3>1. CASE o = "CANCELLED"
      BY <1>11, <3>1, RestoresType DEF JobEnds
    <3>2. CASE o # "CANCELLED"
      BY <1>11, <3>2 DEF JobEnds, BatchTypeOK
    <3>3. QED
      BY <3>1, <3>2
  <2>4. QED
    BY <1>11, <2>2, <2>3 DEF JobEnds, BatchTypeOK
<1>12. CASE UNCHANGED batchVars
  BY <1>12 DEF batchVars, BatchTypeOK
<1>13. QED
  BY <1>1, <1>2, <1>3, <1>4, <1>5, <1>6, <1>7, <1>8, <1>9, <1>10, <1>11, <1>12 DEF BatchNext, BatchJob

-----------------------------------------------------------------------------
LEMMA RestoresRound ==
  ASSUME BatchTypeOK, RoundInv, NEW ds \in SUBSET Devices, Restores(ds), UNCHANGED <<round, first>>
  PROVE  RoundInv'
<1>1. \A d \in Devices : /\ previous'[d] \in {previous[d], Nothing}
                         /\ \/ coreFor'[d] = coreFor[d] /\ attempt'[d] = attempt[d]
                            \/ coreFor'[d] = previous[d].core /\ attempt'[d] = previous[d].attempt
  BY DEF Restores
<1>2. Nothing.attempt = 0 /\ Nothing.core = 0 /\ 0 <= round
  BY RoundsAssumption DEF Nothing, BatchTypeOK
<1>3. QED
  BY <1>1, <1>2 DEF RoundInv

LEMMA RoundStep == BatchTypeOK /\ RoundInv /\ [BatchNext]_batchVars => RoundInv'
<1> SUFFICES ASSUME BatchTypeOK, RoundInv, [BatchNext]_batchVars PROVE RoundInv'
  OBVIOUS
<1>1. ASSUME NEW ids \in SUBSET Devices, Create(ids) PROVE RoundInv'
  <2>1. round \in Nat /\ Nothing.attempt = 0 /\ Nothing.core = 0
    BY RoundsAssumption DEF BatchTypeOK, Nothing
  <2>2. \A d \in Devices : /\ \/ coreFor'[d] = 0 /\ attempt'[d] = 0
                              \/ coreFor'[d] = round + 1 /\ attempt'[d] = 1
                           /\ previous'[d] = Nothing
    BY <1>1 DEF Create
  <2>3. QED
    BY <1>1, <2>1, <2>2 DEF Create, RoundInv
<1>2. ASSUME NEW ids \in SUBSET Devices, Retry(ids) PROVE RoundInv'
  <2>1. /\ round \in Nat \ {0} /\ first \in Nat /\ Nothing.attempt = 0 /\ Nothing.core = 0
        /\ \A d \in Devices : coreFor[d] \in Nat /\ attempt[d] \in Nat
    BY <1>2, RoundsAssumption DEF BatchTypeOK, Nothing, Retry
  <2>2. \A d \in Devices :
          /\ \/ coreFor'[d] = coreFor[d] /\ attempt'[d] = attempt[d]
             \/ coreFor'[d] = round + 1 /\ attempt'[d] = attempt[d] + 1
          /\ \/ previous'[d] = Nothing
             \/ previous'[d].core = coreFor[d] /\ previous'[d].attempt = attempt[d]
    BY <1>2 DEF Retry
  <2>3. round' = round + 1 /\ first' = first
    BY <1>2 DEF Retry
  <2>4. QED
    BY <2>1, <2>2, <2>3 DEF RoundInv
<1>3. CASE CancelledWaiting
  <2>1. Now.ids \in SUBSET Devices
    BY <1>3, RoundIn DEF CancelledWaiting, Core
  <2>2. QED
    BY <1>3, <2>1, RestoresRound DEF CancelledWaiting
<1>4. ASSUME NEW d \in Devices, NEW o \in Outcomes, JobEnds(d, o) PROVE RoundInv'
  <2>1. CASE o = "CANCELLED"
    BY <1>4, <2>1, RestoresRound DEF JobEnds
  <2>2. CASE o # "CANCELLED"
    BY <1>4, <2>2 DEF JobEnds, RoundInv
  <2>3. QED
    BY <2>1, <2>2
<1>5. ASSUME UNCHANGED <<round, first, coreFor, attempt, previous>> PROVE RoundInv'
  BY <1>5 DEF RoundInv
<1>6. QED
  BY <1>1, <1>2, <1>3, <1>4, <1>5
     DEF BatchNext, BatchJob, Cancel, CancelReturns, Fire, RoundEnds, SessionGoes, JobProgress, JobStarts, batchVars

LEMMA CoreStep == BatchTypeOK /\ CoreInv /\ [BatchNext]_batchVars => CoreInv'
<1> SUFFICES ASSUME BatchTypeOK, CoreInv, [BatchNext]_batchVars PROVE CoreInv'
  OBVIOUS
<1>n. CoreOK(NoCore)
  BY DEF CoreOK, NoCore
<1>m. \A ids \in SUBSET Devices : CoreOK(NewCore(ids))
  BY DEF CoreOK, NewCore, NoCore
<1>e. ASSUME NEW r \in Rounds, NEW c, CoreOK(c), core' = [core EXCEPT ![r] = c] PROVE CoreInv'
  BY <1>e DEF CoreInv, BatchTypeOK
<1>a. ASSUME Active PROVE round \in Rounds /\ Now \in Core /\ CoreOK(Now)
  BY <1>a, RoundIn DEF CoreInv, Now
<1>1. ASSUME NEW ids \in SUBSET Devices, Create(ids) PROVE CoreInv'
  BY <1>1, <1>n, <1>m DEF Create, CoreInv
<1>2. ASSUME NEW ids \in SUBSET Devices, Retry(ids) PROVE CoreInv'
  <2>1. round + 1 \in Rounds
    BY <1>2, RoundsAssumption DEF Retry, BatchTypeOK, Rounds
  <2>2. QED
    BY <1>2, <1>m, <1>e, <2>1 DEF Retry
<1>3. CASE Cancel
  <2>1. CoreOK(Cancelled(Now))
    <3>1. /\ Cancelled(Now).state = Now.state /\ Cancelled(Now).job = Now.job /\ Cancelled(Now).cancel
          /\ Cancelled(Now).early <=> Now.early \/ Now.state = "WAITING"
      BY <1>3, <1>a DEF Cancelled, Cancel, Core
    <3>2. QED
      BY <1>3, <1>a, <3>1 DEF CoreOK, Cancel
  <2>2. QED
    BY <1>3, <1>a, <1>e, <2>1 DEF Cancel
<1>4. CASE Fire
  <2>1. Active /\ round \in Rounds /\ Now \in Core /\ CoreOK(Now) /\ ~Now.early
    BY <1>4, <1>a DEF Fire, CoreOK
  <2>2. core' = [core EXCEPT ![round] = core'[round]] /\ ~core'[round].early /\ core'[round].state = "RUNNING"
    BY <1>4, <2>1 DEF Fire, BatchTypeOK, Now, Core
  <2>3. QED
    BY <1>e, <2>1, <2>2 DEF CoreOK
<1>5. CASE CancelledWaiting
  <2>1. Active /\ round \in Rounds /\ Now \in Core
    BY <1>5, <1>a DEF CancelledWaiting
  <2>2. /\ core' = [core EXCEPT ![round] = core'[round]] /\ core'[round].state = "CANCELLED"
        /\ \A d \in Devices : core'[round].job[d] \in {"none", "CANCELLED"}
    BY <1>5, <2>1 DEF CancelledWaiting, BatchTypeOK, Now, Core
  <2>3. QED
    BY <1>e, <2>1, <2>2 DEF CoreOK
<1>6. CASE RoundEnds
  <2>1. Active /\ round \in Rounds /\ Now \in Core /\ CoreOK(Now) /\ ~Now.early
    BY <1>6, <1>a DEF RoundEnds, CoreOK
  <2>2. /\ core' = [core EXCEPT ![round] = core'[round]]
        /\ ~core'[round].early /\ core'[round].state # "WAITING"
    BY <1>6, <2>1 DEF RoundEnds, BatchTypeOK, Now, Core
  <2>3. QED
    BY <1>e, <2>1, <2>2 DEF CoreOK
<1>7. ASSUME NEW d \in Devices, SessionGoes(d) PROVE CoreInv'
  <2>1. Active /\ round \in Rounds /\ Now \in Core /\ CoreOK(Now)
    BY <1>7, <1>a DEF SessionGoes
  <2>2. /\ core' = [core EXCEPT ![round] = core'[round]]
        /\ core'[round].early = Now.early /\ core'[round].state = Now.state
        /\ core'[round].cancel = Now.cancel /\ core'[round].job = Now.job
    BY <1>7, <2>1 DEF SessionGoes, BatchTypeOK, Now, Core
  <2>3. QED
    BY <1>e, <2>1, <2>2 DEF CoreOK
<1>8. ASSUME NEW d \in Devices, JobStarts(d) PROVE CoreInv'
  <2>1. Active /\ round \in Rounds /\ Now \in Core /\ CoreOK(Now) /\ ~Now.early
    BY <1>8, <1>a DEF JobStarts, Running, CoreOK
  <2>2. /\ core' = [core EXCEPT ![round] = core'[round]]
        /\ ~core'[round].early /\ core'[round].state # "WAITING"
    BY <1>8, <2>1 DEF JobStarts, Running, BatchTypeOK, Now, Core
  <2>3. QED
    BY <1>e, <2>1, <2>2 DEF CoreOK
<1>9. ASSUME NEW d \in Devices, NEW o \in Outcomes, JobEnds(d, o) PROVE CoreInv'
  <2>1. Active /\ round \in Rounds /\ Now \in Core /\ CoreOK(Now) /\ ~Now.early /\ Now.state = "RUNNING"
    BY <1>9, <1>a DEF JobEnds, Running, CoreOK
  <2>2. CoreOK(WithOutcome(Now, d, o))
    BY <2>1 DEF WithOutcome, CoreOK, Core
  <2>3. QED
    BY <1>9, <1>e, <2>1, <2>2 DEF JobEnds
<1>10. ASSUME UNCHANGED core PROVE CoreInv'
  BY <1>10 DEF CoreInv
<1>11. QED
  BY <1>1, <1>2, <1>3, <1>4, <1>5, <1>6, <1>7, <1>8, <1>9, <1>10
     DEF BatchNext, BatchJob, CancelReturns, JobProgress, batchVars

-----------------------------------------------------------------------------
LEMMA CountsFinite ==
  ASSUME BatchTypeOK, NEW d
  PROVE  IsFiniteSet(Counts(d)) /\ Counts(d) \in SUBSET (first..round)
<1>1. first \in Int /\ round \in Int
  BY RoundsAssumption DEF BatchTypeOK
<1>2. Counts(d) \in SUBSET (first..round)
  BY DEF Counts
<1>3. QED
  BY <1>1, <1>2, FS_Interval, FS_Subset

\* What counts depends on the cores of the batch's rounds, and there on the sensor's own job.
LEMMA CountsFrame ==
  ASSUME NEW d, UNCHANGED <<round, first>>,
         \A r \in first..round : r # 0 => /\ core'[r].ids = core[r].ids
                                          /\ (core'[r].job[d] = "CANCELLED") <=> (core[r].job[d] = "CANCELLED")
  PROVE  Counts(d)' = Counts(d)
<1>1. \A r : r \in Counts(d)' <=> r \in Counts(d)
  BY DEF Counts
<1>2. QED
  BY <1>1

LEMMA LastFrame ==
  ASSUME PreviousInv, LastInv, UNCHANGED <<round, first, coreFor, attempt, previous>>,
         \A d \in Devices : Counts(d)' = Counts(d)
  PROVE  PreviousInv' /\ LastInv'
  BY DEF PreviousInv, LastInv, InBatch, Before, IsLast

\* Sensors ds, whose jobs had not started, are CANCELLED: what was shown before stands again.
LEMMA LastRestores ==
  ASSUME BatchTypeOK, RoundInv, FreshInv, PreviousInv, LastInv,
         NEW ds \in SUBSET Devices, Active, Restores(ds), UNCHANGED <<round, first>>,
         \A d \in ds : /\ d \in Now.ids /\ Now.job[d] \in {"none", "IDLE"}
                       /\ Counts(d)' = IF round = first THEN Counts(d) ELSE Counts(d) \ {round},
         \A d \in Devices \ ds : Counts(d)' = Counts(d)
  PROVE  PreviousInv' /\ LastInv'
<1>1. \A d \in Devices \ ds : /\ coreFor'[d] = coreFor[d] /\ attempt'[d] = attempt[d]
                              /\ previous'[d] = previous[d]
  BY DEF Restores
<1>2. \A d \in ds : previous'[d] = Nothing
  BY DEF Restores
<1>3. PreviousInv'
  BY <1>1, <1>2 DEF PreviousInv, Before, IsLast
<1>4. ASSUME NEW d \in Devices, d \in InBatch'
      PROVE  IsLast(coreFor'[d], Counts(d)') /\ attempt'[d] = Cardinality(Counts(d)')
  <2>1. CASE d \notin ds
    <3>1. d \in InBatch
      BY <1>1, <1>4, <2>1 DEF InBatch
    <3>2. QED
      BY <1>1, <2>1, <3>1 DEF LastInv
  <2>2. CASE d \in ds /\ round = first
    <3>1. previous[d] = Nothing
      BY <2>2 DEF PreviousInv
    <3>2. coreFor'[d] = coreFor[d] /\ attempt'[d] = attempt[d]
      BY <2>2, <3>1 DEF Restores
    <3>3. d \in InBatch
      BY <1>4, <3>2 DEF InBatch
    <3>4. QED
      BY <2>2, <3>2, <3>3 DEF LastInv
  <2>3. CASE d \in ds /\ round # first
    <3>1. previous[d] # Nothing
      BY <2>3 DEF FreshInv
    <3>2. coreFor'[d] = previous[d].core /\ attempt'[d] = previous[d].attempt
      BY <2>3, <3>1 DEF Restores
    <3>3. QED
      BY <2>3, <3>1, <3>2 DEF PreviousInv, Before
  <2>4. QED
    BY <2>1, <2>2, <2>3
<1>5. LastInv'
  BY <1>4 DEF LastInv, InBatch
<1>6. QED
  BY <1>3, <1>5

LEMMA LastCreate ==
  ASSUME BatchTypeOK, NEW ids \in SUBSET Devices, Create(ids)
  PROVE  PreviousInv' /\ LastInv'
<1>1. /\ round' = round + 1 /\ first' = round + 1 /\ round + 1 \in Rounds /\ round \in Nat
  BY RoundsAssumption DEF Create, BatchTypeOK, Rounds
<1>2. core'[round + 1].ids = ids
  BY <1>1 DEF Create, NewCore, NoCore
<1>3. PreviousInv'
  BY DEF Create, PreviousInv
<1>4. ASSUME NEW d \in ids PROVE Counts(d)' = {round + 1}
  BY <1>1, <1>2 DEF Counts
<1>5. \A d \in Devices : /\ d \in ids => coreFor'[d] = round + 1 /\ attempt'[d] = 1
                         /\ d \notin ids => coreFor'[d] = 0
  BY DEF Create
<1>6. Cardinality({round + 1}) = 1
  BY FS_Singleton
<1>7. ASSUME NEW d \in Devices, d \in InBatch'
      PROVE  IsLast(coreFor'[d], Counts(d)') /\ attempt'[d] = Cardinality(Counts(d)')
  <2>1. d \in ids
    BY <1>5, <1>7 DEF InBatch
  <2>2. QED
    BY <1>1, <1>4, <1>5, <1>6, <2>1 DEF IsLast
<1>8. LastInv'
  BY <1>7 DEF LastInv, InBatch
<1>9. QED
  BY <1>3, <1>8

LEMMA LastRetry ==
  ASSUME BatchTypeOK, RoundInv, PreviousInv, LastInv, ElapsedIsOfAttempt,
         NEW ids \in SUBSET Devices, Retry(ids)
  PROVE  PreviousInv' /\ LastInv'
<1>1. /\ round' = round + 1 /\ first' = first /\ round + 1 \in Rounds
      /\ round \in Nat \ {0} /\ first \in Nat /\ first <= round
  BY RoundsAssumption DEF Retry, BatchTypeOK, Rounds, RoundInv
<1>2. /\ core'[round + 1].ids = ids /\ \A d \in Devices : core'[round + 1].job[d] = "none"
      /\ \A r \in Rounds : r # round + 1 => core'[r] = core[r]
  BY <1>1 DEF Retry, BatchTypeOK, NewCore, NoCore
<1>3. \A r \in first..round : r # 0 => r \in Rounds /\ r # round + 1
  BY <1>1, RoundsAssumption DEF Rounds
<1>4. ASSUME NEW d \in Devices \ ids PROVE Counts(d)' = Counts(d)
  BY <1>1, <1>2, <1>3 DEF Counts
<1>5. ASSUME NEW d \in ids PROVE Counts(d)' = Counts(d) \cup {round + 1}
  BY <1>1, <1>2, <1>3 DEF Counts
<1>6. \A d \in Devices : round + 1 \notin Counts(d) /\ \A r \in Counts(d) : r \in Nat /\ r <= round
  BY <1>1 DEF Counts
<1>7. \A d \in ids : /\ d \in InBatch /\ coreFor'[d] = round + 1 /\ attempt'[d] = attempt[d] + 1
                     /\ previous'[d].core = coreFor[d] /\ previous'[d].attempt = attempt[d]
                    /\ previous'[d].elapsed = elapsed[d]
  BY DEF Retry, CanRetry
<1>8. \A d \in Devices \ ids : /\ coreFor'[d] = coreFor[d] /\ attempt'[d] = attempt[d]
                               /\ previous'[d] = Nothing
  BY DEF Retry
<1>9. PreviousInv'
  <2>1. ASSUME NEW d \in ids
        PROVE  /\ first' # round' /\ coreFor'[d] = round'
               /\ IsLast(previous'[d].core, Before(d)')
               /\ previous'[d].attempt = Cardinality(Before(d)')
               /\ previous'[d].elapsed \in {0, previous'[d].core}
    <3>1. Before(d)' = Counts(d)
      BY <1>1, <1>5, <1>6 DEF Before
    <3>2. QED
      BY <1>1, <1>7, <3>1 DEF LastInv, ElapsedIsOfAttempt
  <2>2. QED
    BY <1>8, <2>1 DEF PreviousInv
<1>10. ASSUME NEW d \in Devices, d \in InBatch'
       PROVE  IsLast(coreFor'[d], Counts(d)') /\ attempt'[d] = Cardinality(Counts(d)')
  <2>1. CASE d \in ids
    <3>1. Cardinality(Counts(d) \cup {round + 1}) = Cardinality(Counts(d)) + 1
      BY <1>6, CountsFinite, FS_AddElement
    <3>2. IsLast(round + 1, Counts(d) \cup {round + 1})
      BY <1>1, <1>6 DEF IsLast
    <3>3. QED
      BY <1>5, <1>7, <2>1, <3>1, <3>2 DEF LastInv
  <2>2. CASE d \notin ids
    <3>1. d \in InBatch
      BY <1>8, <1>10, <2>2 DEF InBatch
    <3>2. QED
      BY <1>4, <1>8, <2>2, <3>1 DEF LastInv
  <2>3. QED
    BY <2>1, <2>2
<1>11. LastInv'
  BY <1>10 DEF LastInv, InBatch
<1>12. QED
  BY <1>9, <1>11

\* A step inside a round that makes no job of sensor d CANCELLED leaves what counts for d alone.
LEMMA RoundFrame ==
  ASSUME BatchTypeOK, RoundInv, Active, UNCHANGED <<round, first>>, NEW d \in Devices,
         core' = [core EXCEPT ![round] = core'[round]],
         core'[round].ids = Now.ids,
         (core'[round].job[d] = "CANCELLED") <=> (Now.job[d] = "CANCELLED")
  PROVE  Counts(d)' = Counts(d)
<1>1. round \in Rounds /\ first \in Nat /\ round \in Nat /\ round <= MaxRounds
  BY RoundIn, RoundsAssumption DEF BatchTypeOK, Rounds
<1>2. \A r \in first..round : r # 0 => r \in Rounds
  BY <1>1, RoundsAssumption DEF Rounds
<1>3. \A r \in Rounds : r # round => core'[r] = core[r]
  BY DEF BatchTypeOK
<1>4. \A r \in first..round : r # 0 => /\ core'[r].ids = core[r].ids
                                       /\ (core'[r].job[d] = "CANCELLED") <=> (core[r].job[d] = "CANCELLED")
  BY <1>2, <1>3 DEF Now
<1>5. QED
  BY <1>4, CountsFrame

\* When its job becomes CANCELLED, a retry no longer counts for sensor d.
LEMMA RoundCancelled ==
  ASSUME BatchTypeOK, RoundInv, Active, UNCHANGED <<round, first>>, NEW d \in Devices,
         core' = [core EXCEPT ![round] = core'[round]],
         core'[round].ids = Now.ids,
         core'[round].job[d] = "CANCELLED", Now.job[d] # "CANCELLED", d \in Now.ids
  PROVE  Counts(d)' = IF round = first THEN Counts(d) ELSE Counts(d) \ {round}
<1>1. round \in Rounds /\ first \in Nat /\ round \in Nat /\ round <= MaxRounds
  BY RoundIn, RoundsAssumption DEF BatchTypeOK, Rounds
<1>2. \A r \in first..round : r # 0 => r \in Rounds
  BY <1>1, RoundsAssumption DEF Rounds
<1>3. \A r \in Rounds : r # round => core'[r] = core[r]
  BY DEF BatchTypeOK
<1>4. CASE round = first
  <2>1. \A r : r \in Counts(d)' <=> r \in Counts(d)
    BY <1>2, <1>3, <1>4 DEF Counts, Now
  <2>2. QED
    BY <1>4, <2>1
<1>5. CASE round # first
  <2>1. \A r : r \in Counts(d)' <=> r \in Counts(d) \ {round}
    BY <1>2, <1>3, <1>5 DEF Counts, Now
  <2>2. QED
    BY <1>5, <2>1
<1>6. QED
  BY <1>4, <1>5

\* The two steps that take results back, as LastRestores and the elapsed time need them.
LEMMA WaitingRestores ==
  ASSUME BatchTypeOK, RoundInv, CoreInv, CancelledWaiting
  PROVE  /\ Now.ids \in SUBSET Devices /\ Active /\ Restores(Now.ids)
         /\ \A d \in Now.ids : /\ Now.job[d] \in {"none", "IDLE"}
                               /\ Counts(d)' = IF round = first THEN Counts(d) ELSE Counts(d) \ {round}
         /\ \A d \in Devices \ Now.ids : Counts(d)' = Counts(d)
<1>1. Active /\ round \in Rounds /\ Now \in Core /\ CoreOK(Now)
  BY RoundIn DEF CancelledWaiting, CoreInv, Now
<1>2. Now.ids \in SUBSET Devices /\ \A d \in Devices : Now.job[d] = "none"
  BY <1>1 DEF CancelledWaiting, CoreOK, Core
<1>3. /\ core' = [core EXCEPT ![round] = core'[round]] /\ core'[round].ids = Now.ids
      /\ \A d \in Devices : core'[round].job[d] = IF d \in Now.ids THEN "CANCELLED" ELSE "none"
  BY <1>1 DEF CancelledWaiting, BatchTypeOK, Core, Now
<1>4. UNCHANGED <<round, first>> /\ Restores(Now.ids)
  BY DEF CancelledWaiting
<1>5. \A d \in Now.ids : Counts(d)' = IF round = first THEN Counts(d) ELSE Counts(d) \ {round}
  BY <1>1, <1>2, <1>3, <1>4, RoundCancelled
<1>6. \A d \in Devices \ Now.ids : Counts(d)' = Counts(d)
  BY <1>1, <1>2, <1>3, <1>4, RoundFrame
<1>7. QED
  BY <1>1, <1>2, <1>4, <1>5, <1>6

LEMMA JobRestores ==
  ASSUME BatchTypeOK, RoundInv, NEW d \in Devices, JobEnds(d, "CANCELLED")
  PROVE  /\ Active /\ Restores({d}) /\ d \in Now.ids /\ Now.job[d] = "IDLE"
         /\ UNCHANGED <<round, first>>
         /\ Counts(d)' = IF round = first THEN Counts(d) ELSE Counts(d) \ {round}
         /\ \A e \in Devices \ {d} : Counts(e)' = Counts(e)
<1>1. Active /\ round \in Rounds /\ Now \in Core /\ d \in Now.ids /\ Now.job[d] = "IDLE"
  BY RoundIn DEF JobEnds, Running
<1>2. UNCHANGED <<round, first>> /\ Restores({d})
  BY DEF JobEnds
<1>3. /\ core' = [core EXCEPT ![round] = core'[round]] /\ core'[round].ids = Now.ids
      /\ \A e \in Devices : core'[round].job[e] = IF e = d THEN "CANCELLED" ELSE Now.job[e]
  BY <1>1 DEF JobEnds, WithOutcome, BatchTypeOK, Core
<1>4. Counts(d)' = IF round = first THEN Counts(d) ELSE Counts(d) \ {round}
  BY <1>1, <1>2, <1>3, RoundCancelled
<1>5. \A e \in Devices \ {d} : Counts(e)' = Counts(e)
  BY <1>1, <1>2, <1>3, RoundFrame
<1>6. QED
  BY <1>1, <1>2, <1>4, <1>5

\* Every other step of a round that is under way leaves what counts alone.
LEMMA OtherFrame ==
  ASSUME BatchTypeOK, RoundInv, CoreInv,
         \/ Cancel \/ CancelReturns \/ Fire \/ RoundEnds
         \/ \E d \in Devices : SessionGoes(d) \/ JobProgress(d) \/ JobStarts(d)
         \/ \E d \in Devices, o \in Outcomes : o # "CANCELLED" /\ JobEnds(d, o)
         \/ UNCHANGED batchVars
  PROVE  /\ UNCHANGED <<round, first, coreFor, attempt, previous>>
         /\ \A e \in Devices : Counts(e)' = Counts(e)
<1>1. UNCHANGED <<round, first, coreFor, attempt, previous>>
  BY DEF Cancel, CancelReturns, Fire, RoundEnds, SessionGoes, JobProgress, JobStarts, JobEnds, batchVars
<1>2. CASE UNCHANGED core
  BY <1>1, <1>2 DEF Counts
<1>a. ASSUME Active PROVE round \in Rounds /\ Now \in Core /\ CoreOK(Now)
  BY <1>a, RoundIn DEF CoreInv, Now
<1>b. ASSUME Active, core' = [core EXCEPT ![round] = core'[round]], core'[round].ids = Now.ids,
             \A e \in Devices : (core'[round].job[e] = "CANCELLED") <=> (Now.job[e] = "CANCELLED")
      PROVE  \A e \in Devices : Counts(e)' = Counts(e)
  BY <1>1, <1>b, RoundFrame
<1>3. CASE Cancel
  <2>1. Active /\ round \in Rounds /\ Now \in Core
    BY <1>3, <1>a DEF Cancel
  <2>2. Cancelled(Now).ids = Now.ids /\ Cancelled(Now).job = Now.job
    BY <2>1 DEF Cancelled, Core
  <2>3. core' = [core EXCEPT ![round] = core'[round]] /\ core'[round] = Cancelled(Now)
    BY <1>3, <2>1 DEF Cancel, BatchTypeOK
  <2>4. QED
    BY <1>1, <1>b, <2>1, <2>2, <2>3
<1>4. CASE Fire
  <2>1. Active /\ round \in Rounds /\ Now \in Core /\ CoreOK(Now)
    BY <1>4, <1>a DEF Fire
  <2>2. \A d \in Devices : Now.job[d] = "none"
    BY <1>4, <2>1 DEF Fire, CoreOK
  <2>3. /\ core' = [core EXCEPT ![round] = core'[round]] /\ core'[round].ids = Now.ids
        /\ \A d \in Devices : core'[round].job[d] \in {"none", "FAILED", "IDLE"}
    BY <1>4, <2>1 DEF Fire, BatchTypeOK, Core, Now
  <2>4. QED
    BY <1>1, <1>b, <2>1, <2>2, <2>3
<1>5. CASE RoundEnds
  <2>1. Active /\ round \in Rounds /\ Now \in Core
    BY <1>5, <1>a DEF RoundEnds
  <2>2. /\ core' = [core EXCEPT ![round] = core'[round]] /\ core'[round].ids = Now.ids
        /\ core'[round].job = Now.job
    BY <1>5, <2>1 DEF RoundEnds, BatchTypeOK, Core, Now
  <2>3. QED
    BY <1>1, <1>b, <2>1, <2>2
<1>6. ASSUME NEW d \in Devices, SessionGoes(d) PROVE \A e \in Devices : Counts(e)' = Counts(e)
  <2>1. Active /\ round \in Rounds /\ Now \in Core
    BY <1>6, <1>a DEF SessionGoes
  <2>2. /\ core' = [core EXCEPT ![round] = core'[round]] /\ core'[round].ids = Now.ids
        /\ core'[round].job = Now.job
    BY <1>6, <2>1 DEF SessionGoes, BatchTypeOK, Core, Now
  <2>3. QED
    BY <1>b, <2>1, <2>2
<1>7. ASSUME NEW d \in Devices, JobStarts(d) PROVE \A e \in Devices : Counts(e)' = Counts(e)
  <2>1. Active /\ round \in Rounds /\ Now \in Core /\ Now.job[d] = "IDLE"
    BY <1>7, <1>a DEF JobStarts, Running
  <2>2. /\ core' = [core EXCEPT ![round] = core'[round]] /\ core'[round].ids = Now.ids
        /\ \A e \in Devices : core'[round].job[e] = IF e = d THEN "WORKING" ELSE Now.job[e]
    BY <1>7, <2>1 DEF JobStarts, BatchTypeOK, Core, Now
  <2>3. QED
    BY <1>b, <2>1, <2>2
<1>8. ASSUME NEW d \in Devices, NEW o \in Outcomes, o # "CANCELLED", JobEnds(d, o)
      PROVE  \A e \in Devices : Counts(e)' = Counts(e)
  <2>1. Active /\ round \in Rounds /\ Now \in Core /\ Now.job[d] \in {"IDLE", "WORKING"}
    BY <1>8, <1>a DEF JobEnds, Running
  <2>2. /\ WithOutcome(Now, d, o).ids = Now.ids
        /\ \A e \in Devices : WithOutcome(Now, d, o).job[e] = IF e = d THEN o ELSE Now.job[e]
    BY <2>1 DEF WithOutcome, Core
  <2>3. core' = [core EXCEPT ![round] = core'[round]] /\ core'[round] = WithOutcome(Now, d, o)
    BY <1>8, <2>1 DEF JobEnds, BatchTypeOK
  <2>4. QED
    BY <1>8, <1>b, <2>1, <2>2, <2>3
<1>9. QED
  BY <1>1, <1>2, <1>3, <1>4, <1>5, <1>6, <1>7, <1>8 DEF CancelReturns, JobProgress, batchVars

LEMMA LastStep ==
  BatchTypeOK /\ RoundInv /\ CoreInv /\ FreshInv /\ PreviousInv /\ LastInv /\ ElapsedIsOfAttempt
  /\ [BatchNext]_batchVars => PreviousInv' /\ LastInv'
<1> SUFFICES ASSUME BatchTypeOK, RoundInv, CoreInv, FreshInv, PreviousInv, LastInv, ElapsedIsOfAttempt,
                    [BatchNext]_batchVars
             PROVE  PreviousInv' /\ LastInv'
  OBVIOUS
<1>1. ASSUME NEW ids \in SUBSET Devices, Create(ids) PROVE PreviousInv' /\ LastInv'
  BY <1>1, LastCreate
<1>2. ASSUME NEW ids \in SUBSET Devices, Retry(ids) PROVE PreviousInv' /\ LastInv'
  BY <1>2, LastRetry
<1>3. CASE CancelledWaiting
  <2>1. UNCHANGED <<round, first>>
    BY <1>3 DEF CancelledWaiting
  <2>2. QED
    BY <1>3, <2>1, WaitingRestores, LastRestores
<1>4. ASSUME NEW d \in Devices, JobEnds(d, "CANCELLED") PROVE PreviousInv' /\ LastInv'
  BY <1>4, JobRestores, LastRestores
<1>5. CASE \/ Cancel \/ CancelReturns \/ Fire \/ RoundEnds
           \/ \E d \in Devices : SessionGoes(d) \/ JobProgress(d) \/ JobStarts(d)
           \/ \E d \in Devices, o \in Outcomes : o # "CANCELLED" /\ JobEnds(d, o)
           \/ UNCHANGED batchVars
  BY <1>5, OtherFrame, LastFrame
<1>6. QED
  BY <1>1, <1>2, <1>3, <1>4, <1>5 DEF BatchNext, BatchJob

-----------------------------------------------------------------------------
LEMMA ElapsedStep ==
  BatchTypeOK /\ RoundInv /\ CoreInv /\ FreshInv /\ PreviousInv /\ ElapsedIsOfAttempt /\ [BatchNext]_batchVars
  => ElapsedIsOfAttempt'
<1> SUFFICES ASSUME BatchTypeOK, RoundInv, CoreInv, FreshInv, PreviousInv, ElapsedIsOfAttempt, [BatchNext]_batchVars
             PROVE  ElapsedIsOfAttempt'
  OBVIOUS
<1>r. ASSUME NEW ds \in SUBSET Devices, Active, Restores(ds),
             \A d \in ds : d \in Now.ids /\ Now.job[d] \in {"none", "IDLE"}
      PROVE  ElapsedIsOfAttempt'
  <2>1. ASSUME NEW d \in Devices, d \in InBatch' PROVE elapsed'[d] \in {0, coreFor'[d]}
    <3>1. CASE d \in ds /\ previous[d] # Nothing
      <4>1. elapsed[d] = 0
        BY <1>r, <3>1 DEF FreshInv
      <4>2. previous[d].elapsed \in {0, previous[d].core}
        BY <3>1 DEF PreviousInv
      <4>3. /\ coreFor'[d] = previous[d].core
            /\ elapsed'[d] = IF previous[d].elapsed # 0 THEN previous[d].elapsed ELSE elapsed[d]
        BY <1>r, <3>1 DEF Restores
      <4>4. QED
        BY <4>1, <4>2, <4>3
    <3>2. CASE ~(d \in ds /\ previous[d] # Nothing)
      <4>1. coreFor'[d] = coreFor[d] /\ elapsed'[d] = elapsed[d]
        BY <1>r, <3>2 DEF Restores
      <4>2. QED
        BY <2>1, <4>1 DEF ElapsedIsOfAttempt, InBatch
    <3>3. QED
      BY <3>1, <3>2
  <2>2. QED
    BY <2>1 DEF ElapsedIsOfAttempt, InBatch
<1>1. ASSUME NEW ids \in SUBSET Devices, Create(ids) PROVE ElapsedIsOfAttempt'
  BY <1>1 DEF Create, ElapsedIsOfAttempt, InBatch
<1>2. ASSUME NEW ids \in SUBSET Devices, Retry(ids) PROVE ElapsedIsOfAttempt'
  BY <1>2 DEF Retry, ElapsedIsOfAttempt, InBatch
<1>3. CASE CancelledWaiting
  BY <1>3, <1>r, WaitingRestores
<1>4. ASSUME NEW d \in Devices, JobEnds(d, "CANCELLED") PROVE ElapsedIsOfAttempt'
  BY <1>4, <1>r, JobRestores
<1>5. ASSUME NEW d \in Devices, JobProgress(d) PROVE ElapsedIsOfAttempt'
  <2>1. coreFor[d] = round
    BY <1>5 DEF JobProgress, Running, FreshInv
  <2>2. QED
    BY <1>5, <2>1 DEF JobProgress, ElapsedIsOfAttempt, InBatch, BatchTypeOK
<1>6. ASSUME UNCHANGED <<coreFor, elapsed>> PROVE ElapsedIsOfAttempt'
  BY <1>6 DEF ElapsedIsOfAttempt, InBatch
<1>7. ASSUME NEW d \in Devices, NEW o \in Outcomes, JobEnds(d, o) PROVE ElapsedIsOfAttempt'
  BY <1>4, <1>6, <1>7 DEF JobEnds
<1>8. QED
  BY <1>1, <1>2, <1>3, <1>5, <1>6, <1>7
     DEF BatchNext, BatchJob, Cancel, CancelReturns, Fire, RoundEnds, SessionGoes, JobStarts, batchVars

-----------------------------------------------------------------------------
LEMMA FreshStep ==
  BatchTypeOK /\ RoundInv /\ CoreInv /\ FreshInv /\ [BatchNext]_batchVars => FreshInv'
<1> SUFFICES ASSUME BatchTypeOK, RoundInv, CoreInv, FreshInv, [BatchNext]_batchVars PROVE FreshInv'
  OBVIOUS
<1>a. ASSUME Active PROVE round \in Rounds /\ Now \in Core /\ CoreOK(Now)
  BY <1>a, RoundIn DEF CoreInv, Now
<1>1. ASSUME NEW ids \in SUBSET Devices, Create(ids) PROVE FreshInv'
  <2>1. round + 1 \in Rounds
    BY <1>1, RoundsAssumption DEF Create, BatchTypeOK, Rounds
  <2>2. Now'.ids = ids /\ round' = round + 1 /\ first' = round + 1
    BY <1>1, <2>1 DEF Create, Now, NewCore, NoCore
  <2>3. \A d \in ids : coreFor'[d] = round + 1 /\ elapsed'[d] = 0
    BY <1>1 DEF Create
  <2>4. QED
    BY <2>2, <2>3 DEF FreshInv
<1>2. ASSUME NEW ids \in SUBSET Devices, Retry(ids) PROVE FreshInv'
  <2>1. round + 1 \in Rounds
    BY <1>2, RoundsAssumption DEF Retry, BatchTypeOK, Rounds
  <2>2. Now'.ids = ids /\ round' = round + 1
    BY <1>2, <2>1 DEF Retry, Now, NewCore, NoCore, BatchTypeOK
  <2>3. \A d \in ids : d \in Devices /\ coreFor[d] # 0
    BY <1>2 DEF Retry, CanRetry, InBatch
  <2>4. \A d \in ids : /\ coreFor'[d] = round + 1 /\ elapsed'[d] = 0
                        /\ previous'[d].core = coreFor[d]
    BY <1>2 DEF Retry
  <2>5. Nothing.core = 0
    BY DEF Nothing
  <2>6. QED
    BY <2>2, <2>3, <2>4, <2>5 DEF FreshInv
<1>3. CASE Cancel
  <2>1. Active /\ round \in Rounds /\ Now \in Core
    BY <1>3, <1>a DEF Cancel
  <2>2. Now' = Cancelled(Now) /\ Cancelled(Now).ids = Now.ids /\ Cancelled(Now).job = Now.job
    BY <1>3, <2>1 DEF Cancelled, Cancel, Core, Now, BatchTypeOK
  <2>3. QED
    BY <1>3, <2>1, <2>2 DEF Cancel, FreshInv
<1>4. CASE Fire
  <2>1. Active /\ round \in Rounds /\ Now \in Core /\ CoreOK(Now)
    BY <1>4, <1>a DEF Fire
  <2>2. Now'.ids = Now.ids /\ Now.ids \in SUBSET Devices /\ \A d \in Devices : Now.job[d] = "none"
    BY <1>4, <2>1 DEF Fire, CoreOK, BatchTypeOK, Core, Now
  <2>3. QED
    BY <1>4, <2>1, <2>2 DEF Fire, FreshInv
<1>5. ASSUME NEW d \in Devices, SessionGoes(d) PROVE FreshInv'
  <2>1. Active /\ round \in Rounds /\ Now \in Core
    BY <1>5, <1>a DEF SessionGoes
  <2>2. Now'.ids = Now.ids /\ Now'.job = Now.job
    BY <1>5, <2>1 DEF SessionGoes, BatchTypeOK, Core, Now
  <2>3. QED
    BY <1>5, <2>1, <2>2 DEF SessionGoes, FreshInv
<1>6. ASSUME NEW d \in Devices, JobStarts(d) PROVE FreshInv'
  <2>1. Active /\ round \in Rounds /\ Now \in Core /\ Now.job[d] = "IDLE"
    BY <1>6, <1>a DEF JobStarts, Running
  <2>2. /\ Now'.ids = Now.ids /\ Now.ids \in SUBSET Devices
        /\ \A e \in Devices : Now'.job[e] = IF e = d THEN "WORKING" ELSE Now.job[e]
    BY <1>6, <2>1 DEF JobStarts, BatchTypeOK, Core, Now
  <2>3. QED
    BY <1>6, <2>1, <2>2 DEF JobStarts, FreshInv
<1>7. ASSUME NEW d \in Devices, JobProgress(d) PROVE FreshInv'
  <2>1. Active /\ Now.job[d] = "WORKING" /\ Now' = Now /\ \A e \in Devices \ {d} : elapsed'[e] = elapsed[e]
    BY <1>7 DEF JobProgress, Running, Now, BatchTypeOK
  <2>2. Now.ids \in SUBSET Devices
    BY <2>1, <1>a DEF Core
  <2>3. QED
    BY <1>7, <2>1, <2>2 DEF JobProgress, FreshInv
<1>8. ASSUME NEW d \in Devices, NEW o \in Outcomes, JobEnds(d, o) PROVE FreshInv'
  <2>1. Active /\ round \in Rounds /\ Now \in Core /\ Now.ids \in SUBSET Devices
    BY <1>8, <1>a DEF JobEnds, Running, Core
  <2>2. Now' = WithOutcome(Now, d, o)
    BY <1>8, <2>1 DEF JobEnds, Now, BatchTypeOK
  <2>3. /\ Now'.ids = Now.ids
        /\ \A e \in Devices : Now'.job[e] = IF e = d THEN o ELSE Now.job[e]
    BY <2>1, <2>2 DEF WithOutcome, Core
  <2>4. \A e \in Devices \ {d} : /\ coreFor'[e] = coreFor[e] /\ elapsed'[e] = elapsed[e]
                                /\ previous'[e] = previous[e]
    BY <1>8 DEF JobEnds, Restores
  <2>5. o # "CANCELLED" => coreFor'[d] = coreFor[d]
    BY <1>8 DEF JobEnds
  <2>6. Now.job[d] # "CANCELLED" /\ o \notin {"none", "IDLE"}
    BY <1>8 DEF JobEnds, Outcomes
  <2>7. UNCHANGED <<round, first>>
    BY <1>8 DEF JobEnds
  <2>8. d \in Now.ids
    BY <1>8 DEF JobEnds, Running
  <2>9. QED
    BY <2>1, <2>3, <2>4, <2>5, <2>6, <2>7, <2>8 DEF FreshInv
<1>9. CASE CancelledWaiting \/ RoundEnds
  <2>1. Active /\ round \in Rounds
    BY <1>9, <1>a DEF CancelledWaiting, RoundEnds
  <2>2. round' = round /\ Now'.state \in CoreEnded
    <3>1. CASE CancelledWaiting
      BY <2>1, <3>1 DEF CancelledWaiting, BatchTypeOK, Now, CoreEnded, Core
    <3>2. CASE RoundEnds
      BY <2>1, <3>2 DEF RoundEnds, BatchTypeOK, Now, CoreEnded, Core
    <3>3. QED
      BY <1>9, <3>1, <3>2
  <2>3. QED
    BY <2>2 DEF FreshInv, Active, CoreEnded
<1>10. CASE CancelReturns \/ UNCHANGED batchVars
  BY <1>10 DEF CancelReturns, batchVars, FreshInv, Active, Now
<1>11. QED
  BY <1>1, <1>2, <1>3, <1>4, <1>5, <1>6, <1>7, <1>8, <1>9, <1>10 DEF BatchNext, BatchJob

-----------------------------------------------------------------------------
LEMMA InductiveInit == BatchInit => BatchIInv
<1> SUFFICES ASSUME BatchInit PROVE BatchIInv
  OBVIOUS
<1>1. BatchTypeOK
  BY TypeInit
<1>2. RoundInv
  BY RoundsAssumption DEF BatchInit, RoundInv, Nothing
<1>3. CoreInv
  BY DEF BatchInit, CoreInv, CoreOK, NoCore
<1>4. FreshInv /\ PreviousInv
  BY DEF BatchInit, FreshInv, Active, PreviousInv
<1>5. LastInv /\ ElapsedIsOfAttempt
  BY DEF BatchInit, LastInv, ElapsedIsOfAttempt, InBatch
<1>6. QED
  BY <1>1, <1>2, <1>3, <1>4, <1>5 DEF BatchIInv

LEMMA InductiveStep == BatchIInv /\ [BatchNext]_batchVars => BatchIInv'
<1> SUFFICES ASSUME BatchIInv, [BatchNext]_batchVars PROVE BatchIInv'
  OBVIOUS
<1>1. BatchTypeOK' /\ RoundInv' /\ CoreInv'
  BY TypeStep, RoundStep, CoreStep DEF BatchIInv
<1>2. FreshInv' /\ ElapsedIsOfAttempt'
  BY FreshStep, ElapsedStep DEF BatchIInv
<1>3. PreviousInv' /\ LastInv'
  BY LastStep DEF BatchIInv
<1>4. QED
  BY <1>1, <1>2, <1>3 DEF BatchIInv

LEMMA BatchInductive == BatchSpec => []BatchIInv
<1>1. QED
  BY InductiveInit, InductiveStep, PTL DEF BatchSpec

\* The largest element of a set of numbers, once one is known.
LEMMA MaxIsLast == ASSUME NEW S \in SUBSET Nat, NEW x, IsLast(x, S) PROVE Max(S) = x
<1>1. x \in S /\ \A y \in S : x >= y
  BY DEF IsLast
<1>2. Max(S) \in S /\ \A y \in S : Max(S) >= y
  BY <1>1 DEF Max
<1>3. x \in Nat /\ Max(S) \in Nat /\ x >= Max(S) /\ Max(S) >= x
  BY <1>1, <1>2
<1>4. QED
  BY <1>3

LEMMA ShownStandsHolds == ASSUME BatchIInv PROVE ShownStands
<1>1. first \in Nat /\ round \in Nat
  BY RoundsAssumption DEF BatchIInv, BatchTypeOK
<1>2. \A d \in Devices : Counts(d) \in SUBSET Nat
  BY <1>1 DEF Counts
<1>3. QED
  BY <1>2, MaxIsLast DEF BatchIInv, LastInv, ShownStands, InBatch

\* A step of the batch keeps a success: the round that shows it is over for its sensor.
LEMMA SuccessStep ==
  ASSUME BatchIInv, [BatchNext]_batchVars, NEW d \in InBatch, Shown(d) = "SUCCEEDED", first' = first
  PROVE  Shown(d)' = "SUCCEEDED"
<1> USE DEF BatchIInv
<1>1. /\ d \in Devices /\ coreFor[d] \in Rounds /\ coreFor[d] \in Counts(d) /\ coreFor[d] <= round
      /\ round \in Nat /\ first \in Nat /\ first <= round
  BY RoundsAssumption DEF InBatch, BatchTypeOK, Rounds, LastInv, IsLast, RoundInv
<1>2. core[coreFor[d]].job[d] = "SUCCEEDED" /\ d \in core[coreFor[d]].ids
  BY <1>1 DEF Shown, Counts
<1>s. ASSUME coreFor'[d] = coreFor[d], core'[coreFor[d]].job[d] = core[coreFor[d]].job[d]
      PROVE  Shown(d)' = "SUCCEEDED"
  BY <1>2, <1>s DEF Shown
<1>c. ASSUME NEW ds \in SUBSET Devices, Restores(ds), d \in ds => previous[d] = Nothing
      PROVE  coreFor'[d] = coreFor[d]
  BY <1>1, <1>c DEF Restores
<1>p. ASSUME coreFor[d] # round PROVE previous[d] = Nothing
  BY <1>1, <1>p DEF PreviousInv
<1>a. ASSUME Active PROVE round \in Rounds /\ Now \in Core /\ CoreOK(Now)
  BY <1>a, RoundIn DEF CoreInv, Now
<1>3. CASE \E ids \in SUBSET Devices : Create(ids)
  <2>1. first' = round + 1
    BY <1>3 DEF Create
  <2>2. QED
    BY <1>1, <2>1
<1>4. ASSUME NEW ids \in SUBSET Devices, Retry(ids) PROVE Shown(d)' = "SUCCEEDED"
  <2>1. d \notin ids
    <3>1. Shown(d) # "FAILED"
      BY <1>1
    <3>2. QED
      BY <1>4, <3>1 DEF Retry, CanRetry
  <2>2. coreFor'[d] = coreFor[d]
    BY <1>1, <1>4, <2>1 DEF Retry
  <2>3. core'[coreFor[d]] = core[coreFor[d]]
    BY <1>1, <1>4 DEF Retry, BatchTypeOK
  <2>4. QED
    BY <1>s, <2>2, <2>3
<1>5. ASSUME Active, core' = [core EXCEPT ![round] = core'[round]], coreFor'[d] = coreFor[d],
             coreFor[d] = round => core'[round].job[d] = Now.job[d]
      PROVE  Shown(d)' = "SUCCEEDED"
  BY <1>1, <1>5, <1>s DEF Now, BatchTypeOK
<1>6. CASE Cancel
  <2>1. Active /\ round \in Rounds /\ Now \in Core
    BY <1>6, <1>a DEF Cancel
  <2>2. core' = [core EXCEPT ![round] = core'[round]] /\ core'[round].job = Now.job
    BY <1>6, <2>1 DEF Cancelled, Cancel, Core, BatchTypeOK
  <2>3. QED
    BY <1>5, <1>6, <2>1, <2>2 DEF Cancel
<1>w. ASSUME Active, Now.state = "WAITING" PROVE coreFor[d] # round
  BY <1>1, <1>2, <1>w, <1>a DEF CoreOK, Now
<1>7. CASE Fire
  <2>1. Active /\ round \in Rounds /\ Now.state = "WAITING"
    BY <1>7, <1>a DEF Fire
  <2>2. core' = [core EXCEPT ![round] = core'[round]]
    BY <1>7, <2>1 DEF Fire, BatchTypeOK
  <2>3. QED
    BY <1>5, <1>7, <1>w, <2>1, <2>2 DEF Fire
<1>8. CASE CancelledWaiting
  <2>1. Active /\ round \in Rounds /\ Now.state = "WAITING" /\ Now \in Core
    BY <1>8, <1>a DEF CancelledWaiting
  <2>2. core' = [core EXCEPT ![round] = core'[round]]
    BY <1>8, <2>1 DEF CancelledWaiting, BatchTypeOK
  <2>3. coreFor'[d] = coreFor[d]
    BY <1>8, <1>c, <1>p, <1>w, <2>1 DEF CancelledWaiting, Core
  <2>4. QED
    BY <1>5, <1>w, <2>1, <2>2, <2>3
<1>9. CASE RoundEnds
  <2>1. Active /\ round \in Rounds /\ Now \in Core
    BY <1>9, <1>a DEF RoundEnds
  <2>2. core' = [core EXCEPT ![round] = core'[round]] /\ core'[round].job = Now.job
    BY <1>9, <2>1 DEF RoundEnds, BatchTypeOK, Core, Now
  <2>3. QED
    BY <1>5, <1>9, <2>1, <2>2 DEF RoundEnds
<1>10. ASSUME NEW e \in Devices, SessionGoes(e) PROVE Shown(d)' = "SUCCEEDED"
  <2>1. Active /\ round \in Rounds /\ Now \in Core
    BY <1>10, <1>a DEF SessionGoes
  <2>2. core' = [core EXCEPT ![round] = core'[round]] /\ core'[round].job = Now.job
    BY <1>10, <2>1 DEF SessionGoes, BatchTypeOK, Core, Now
  <2>3. QED
    BY <1>5, <1>10, <2>1, <2>2 DEF SessionGoes
<1>11. ASSUME NEW e \in Devices, JobStarts(e) PROVE Shown(d)' = "SUCCEEDED"
  <2>1. Active /\ round \in Rounds /\ Now \in Core /\ Now.job[e] = "IDLE"
    BY <1>11, <1>a DEF JobStarts, Running
  <2>2. coreFor[d] = round => d # e
    BY <1>2, <2>1 DEF Now
  <2>3. /\ core' = [core EXCEPT ![round] = core'[round]]
        /\ d # e => core'[round].job[d] = Now.job[d]
    BY <1>1, <1>11, <2>1 DEF JobStarts, BatchTypeOK, Core, Now
  <2>4. QED
    BY <1>5, <1>11, <2>1, <2>2, <2>3 DEF JobStarts
<1>12. ASSUME NEW e \in Devices, NEW o \in Outcomes, JobEnds(e, o) PROVE Shown(d)' = "SUCCEEDED"
  <2>1. Active /\ round \in Rounds /\ Now \in Core /\ Now.job[e] \in {"IDLE", "WORKING"}
    BY <1>12, <1>a DEF JobEnds, Running
  <2>2. coreFor[d] = round => d # e
    BY <1>2, <2>1 DEF Now
  <2>3. core' = [core EXCEPT ![round] = core'[round]] /\ core'[round] = WithOutcome(Now, e, o)
    BY <1>12, <2>1 DEF JobEnds, BatchTypeOK
  <2>4. d # e => WithOutcome(Now, e, o).job[d] = Now.job[d]
    BY <1>1, <2>1 DEF WithOutcome, Core
  <2>5. coreFor'[d] = coreFor[d]
    <3>1. CASE d = e
      BY <1>12, <1>c, <1>p, <2>2, <3>1 DEF JobEnds
    <3>2. CASE d # e
      BY <1>12, <1>c, <3>2 DEF JobEnds
    <3>3. QED
      BY <3>1, <3>2
  <2>6. QED
    BY <1>5, <2>1, <2>2, <2>3, <2>4, <2>5
<1>13. CASE UNCHANGED <<core, coreFor>>
  BY <1>13, <1>s
<1>14. QED
  BY <1>3, <1>4, <1>6, <1>7, <1>8, <1>9, <1>10, <1>11, <1>12, <1>13
     DEF BatchNext, BatchJob, CancelReturns, JobProgress, batchVars

-----------------------------------------------------------------------------
\* The server's batch state is always well formed, the backups of a retry included.
THEOREM BatchTypeCorrect == BatchSpec => []BatchTypeOK
<1>1. BatchIInv => BatchTypeOK
  BY DEF BatchIInv
<1>2. QED
  BY <1>1, BatchInductive, PTL

\* What a screen shows of a sensor is its last attempt that took place, numbered by how many there
\* were: a retry that BatchService.on_event() takes back (gui/batch.py) leaves no trace.
THEOREM ShownStandsAlways == BatchSpec => []ShownStands
<1>1. QED
  BY ShownStandsHolds, BatchInductive, PTL

\* The elapsed time beside a sensor's state is never that of another attempt, also after a retry
\* that was cancelled before it started the sensor gave the earlier attempt back.
THEOREM ElapsedAlways == BatchSpec => []ElapsedIsOfAttempt
<1>1. BatchIInv => ElapsedIsOfAttempt
  BY DEF BatchIInv
<1>2. QED
  BY <1>1, BatchInductive, PTL

\* A cancel that reaches BatchCalibration while it waits for the fire time keeps every sensor
\* untouched: _run() looks at _cancel before it makes a job.
THEOREM EarlyCancelAlways == BatchSpec => []EarlyCancelIsQuiet
<1>1. BatchIInv => EarlyCancelIsQuiet
  BY DEF BatchIInv, CoreInv, CoreOK, EarlyCancelIsQuiet
<1>2. QED
  BY <1>1, BatchInductive, PTL

\* Within a batch a success is final: no retry, cancel or late event of another round replaces it.
THEOREM SuccessStaysAlways == BatchSpec => SuccessStays
<1>1. BatchIInv /\ [BatchNext]_batchVars =>
        [\A d \in InBatch : Shown(d) = "SUCCEEDED" /\ first' = first => Shown(d)' = "SUCCEEDED"]_batchVars
  BY SuccessStep
<1>2. QED
  BY <1>1, BatchInductive, PTL DEF BatchSpec, SuccessStays
=============================================================================
