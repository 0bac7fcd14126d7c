------------------------------- MODULE Batch -------------------------------
(***************************************************************************)
(* The server's calibration batch: rounds of core batches                  *)
(* (BatchCalibration, src/ms605/fleet.py) and what the screens are shown   *)
(* of each sensor across them (BatchService, src/ms605/gui/batch.py).      *)
(*                                                                         *)
(* Calibration.tla models how a job does its work; here it is idle, at     *)
(* work (STARTING or LEARNING), or over: FAILED stands for FAILED, LOST    *)
(* and TIMEOUT, which can be retried, and STOPPED for a CANCELLED result   *)
(* of a job that had started.  Events are delivered in the step that emits *)
(* them, as EventBus does.                                                 *)
(***************************************************************************)
EXTENDS Naturals, FiniteSetsExt

CONSTANTS
  Devices,
  MaxRounds   \* core batches made: a bound for model checking

ASSUME RoundsAssumption == MaxRounds \in Nat

VARIABLES
  round,     \* the current round, counted from the first batch on; 0 before it
  first,     \* the round in which the current batch began
  core,      \* the core batch of every round of the current batch
  coreFor,   \* BatchService._core_for, as a round; 0 for a sensor not in the batch
  attempt,   \* BatchService._attempt
  elapsed,   \* the round whose progress _elapsed shows; 0 for none
  previous,  \* BatchService._previous
  caller     \* a cancel() waits for its round to end

batchVars == <<round, first, core, coreFor, attempt, elapsed, previous, caller>>

Rounds == 1..MaxRounds
CoreEnded == {"DONE", "CANCELLED"}
Outcomes == {"SUCCEEDED", "FAILED", "CANCELLED", "STOPPED"}

Core == [state : {"none", "WAITING", "RUNNING"} \cup CoreEnded,
         ids : SUBSET Devices,
         gone : SUBSET Devices,      \* their sessions were released or replaced
         cancel : BOOLEAN,           \* _cancel is set
         early : BOOLEAN,            \* it was set before the batch fired
         job : [Devices -> {"none", "IDLE", "WORKING"} \cup Outcomes],
         asked : SUBSET Devices]     \* their jobs were told to stop

Earlier == [core : 0..MaxRounds, attempt : 0..MaxRounds, elapsed : 0..MaxRounds]
Nothing == [core |-> 0, attempt |-> 0, elapsed |-> 0]

BatchTypeOK ==
  /\ round \in 0..MaxRounds /\ first \in 0..MaxRounds
  /\ core \in [Rounds -> Core]
  /\ coreFor \in [Devices -> 0..MaxRounds]
  /\ attempt \in [Devices -> 0..MaxRounds]
  /\ elapsed \in [Devices -> 0..MaxRounds]
  /\ previous \in [Devices -> Earlier]
  /\ caller \in BOOLEAN

NoCore == [state |-> "none", ids |-> {}, gone |-> {}, cancel |-> FALSE, early |-> FALSE,
           job |-> [d \in Devices |-> "none"], asked |-> {}]

BatchInit ==
  /\ round = 0 /\ first = 0
  /\ core = [r \in Rounds |-> NoCore]
  /\ coreFor = [d \in Devices |-> 0]
  /\ attempt = [d \in Devices |-> 0]
  /\ elapsed = [d \in Devices |-> 0]
  /\ previous = [d \in Devices |-> Nothing]
  /\ caller = FALSE

-----------------------------------------------------------------------------
(* What a screen sees *)

Now == core[round]
Active == round # 0 /\ Now.state \in {"WAITING", "RUNNING"}

\* job_view(): a result, the state of the job, or IDLE before there is one.
Shown(d) == LET j == core[coreFor[d]].job[d] IN IF j = "none" THEN "IDLE" ELSE j

InBatch == {d \in Devices : coreFor[d] # 0}
CanRetry == {d \in InBatch : Shown(d) = "FAILED"}

\* Mutant of Restores: the sensor gets its earlier result back, but not its count of attempts.
RestoresResult(ds) ==
  LET back == {d \in ds : previous[d] # Nothing} IN
  /\ coreFor' = [d \in Devices |-> IF d \in back THEN previous[d].core ELSE coreFor[d]]
  /\ previous' = [d \in Devices |-> IF d \in ds THEN Nothing ELSE previous[d]]
  /\ UNCHANGED <<attempt, elapsed>>

\* A CANCELLED result of a sensor the round never started: the attempt before it stands.
Restores(ds) ==
  LET back == {d \in ds : previous[d] # Nothing} IN
  /\ coreFor' = [d \in Devices |-> IF d \in back THEN previous[d].core ELSE coreFor[d]]
  /\ attempt' = [d \in Devices |-> IF d \in back THEN previous[d].attempt ELSE attempt[d]]
  /\ elapsed' = [d \in Devices |-> IF d \in back /\ previous[d].elapsed # 0
                                   THEN previous[d].elapsed ELSE elapsed[d]]
  /\ previous' = [d \in Devices |-> IF d \in ds THEN Nothing ELSE previous[d]]

-----------------------------------------------------------------------------
(* Requests *)

NewCore(ids) == [NoCore EXCEPT !.state = "WAITING", !.ids = ids]

Create(ids) ==
  /\ ~Active /\ round < MaxRounds
  /\ round' = round + 1 /\ first' = round + 1
  /\ core' = [r \in Rounds |-> IF r = round + 1 THEN NewCore(ids) ELSE NoCore]
  /\ coreFor' = [d \in Devices |-> IF d \in ids THEN round + 1 ELSE 0]
  /\ attempt' = [d \in Devices |-> IF d \in ids THEN 1 ELSE 0]
  /\ elapsed' = [d \in Devices |-> 0]
  /\ previous' = [d \in Devices |-> Nothing]
  /\ UNCHANGED caller

Retry(ids) ==
  /\ ~Active /\ 0 < round /\ round < MaxRounds
  /\ ids \subseteq CanRetry
  /\ round' = round + 1
  /\ core' = [core EXCEPT ![round + 1] = NewCore(ids)]
  /\ previous' = [d \in Devices |-> IF d \in ids
                    THEN [core |-> coreFor[d], attempt |-> attempt[d], elapsed |-> elapsed[d]]
                    ELSE Nothing]
  /\ coreFor' = [d \in Devices |-> IF d \in ids THEN round + 1 ELSE coreFor[d]]
  /\ attempt' = [d \in Devices |-> IF d \in ids THEN attempt[d] + 1 ELSE attempt[d]]
  /\ elapsed' = [d \in Devices |-> IF d \in ids THEN 0 ELSE elapsed[d]]
  /\ UNCHANGED <<first, caller>>

\* cancel(): a running round's jobs are all told to stop.
Cancelled(c) ==
  [c EXCEPT !.cancel = TRUE,
            !.early = @ \/ c.state = "WAITING",
            !.asked = @ \cup {d \in Devices : c.state = "RUNNING" /\ c.job[d] \in {"IDLE", "WORKING"}}]

Cancel ==
  /\ Active
  /\ core' = [core EXCEPT ![round] = Cancelled(Now)]
  /\ caller' = TRUE
  /\ UNCHANGED <<round, first, coreFor, attempt, elapsed, previous>>

CancelReturns == /\ caller /\ ~Active
                 /\ caller' = FALSE
                 /\ UNCHANGED <<round, first, core, coreFor, attempt, elapsed, previous>>

-----------------------------------------------------------------------------
(* BatchCalibration._run() *)

\* Before the fire a session can be released, or its sensor gathered anew.
SessionGoes(d) ==
  /\ Active /\ Now.state = "WAITING" /\ d \in Now.ids \ Now.gone
  /\ core' = [core EXCEPT ![round].gone = @ \cup {d}]
  /\ UNCHANGED <<round, first, coreFor, attempt, elapsed, previous, caller>>

\* Mutant of Fire: the clock is looked at before the cancel.
FireLate ==
  /\ Active /\ Now.state = "WAITING"
  /\ core' = [core EXCEPT ![round].state = "RUNNING",
                          ![round].job = [d \in Devices |-> IF d \in Now.ids THEN "IDLE" ELSE "none"]]
  /\ UNCHANGED <<round, first, coreFor, attempt, elapsed, previous, caller>>

\* The fire time has come and nobody cancelled: a job for every session still there.
Fire ==
  /\ Active /\ Now.state = "WAITING" /\ ~Now.cancel
  /\ core' = [core EXCEPT ![round] =
       [@ EXCEPT !.state = "RUNNING",
                 !.job = [d \in Devices |-> IF d \notin Now.ids THEN "none"
                                            ELSE IF d \in Now.gone THEN "FAILED" ELSE "IDLE"]]]
  /\ UNCHANGED <<round, first, coreFor, attempt, elapsed, previous, caller>>

\* Mutant of CancelledWaiting: the results are given, the state of the batch is forgotten.
CancelledWaitingOpen ==
  /\ Active /\ Now.state = "WAITING" /\ Now.cancel
  /\ core' = [core EXCEPT ![round].job =
                [d \in Devices |-> IF d \in Now.ids THEN "CANCELLED" ELSE "none"]]
  /\ Restores(Now.ids)
  /\ UNCHANGED <<round, first, caller>>

CancelledWaiting ==
  /\ Active /\ Now.state = "WAITING" /\ Now.cancel
  /\ core' = [core EXCEPT ![round] =
       [@ EXCEPT !.state = "CANCELLED", !.gone = {}, !.cancel = FALSE,
                 !.job = [d \in Devices |-> IF d \in Now.ids THEN "CANCELLED" ELSE "none"]]]
  /\ Restores(Now.ids)
  /\ UNCHANGED <<round, first, caller>>

Running(d) == Active /\ Now.state = "RUNNING" /\ d \in Now.ids

JobStarts(d) ==
  /\ Running(d) /\ Now.job[d] = "IDLE" /\ d \notin Now.asked
  /\ core' = [core EXCEPT ![round].job[d] = "WORKING"]
  /\ UNCHANGED <<round, first, coreFor, attempt, elapsed, previous, caller>>

\* CalibrationProgress, which on_event() takes for the current round.
JobProgress(d) ==
  /\ Running(d) /\ Now.job[d] = "WORKING"
  /\ elapsed' = [elapsed EXCEPT ![d] = round]
  /\ UNCHANGED <<round, first, core, coreFor, attempt, previous, caller>>

WithOutcome(c, d, outcome) == [c EXCEPT !.job[d] = outcome, !.asked = @ \ {d}]

JobEnds(d, outcome) ==
  /\ Running(d)
  /\ \/ Now.job[d] = "IDLE" /\ outcome = "FAILED"
     \/ Now.job[d] = "IDLE" /\ d \in Now.asked /\ outcome = "CANCELLED"
     \/ Now.job[d] = "WORKING" /\ outcome \in {"SUCCEEDED", "FAILED"}
     \/ Now.job[d] = "WORKING" /\ d \in Now.asked /\ outcome = "STOPPED"
  /\ core' = [core EXCEPT ![round] = WithOutcome(Now, d, outcome)]
  /\ IF outcome = "CANCELLED" THEN Restores({d})
     ELSE UNCHANGED <<coreFor, attempt, elapsed, previous>>
  /\ UNCHANGED <<round, first, caller>>

\* All jobs are over.
RoundEnds ==
  /\ Active /\ Now.state = "RUNNING"
  /\ \A d \in Now.ids : Now.job[d] \in Outcomes
  /\ core' = [core EXCEPT ![round] = [@ EXCEPT !.state = IF Now.cancel THEN "CANCELLED" ELSE "DONE",
                                              !.gone = {}, !.cancel = FALSE]]
  /\ UNCHANGED <<round, first, coreFor, attempt, elapsed, previous, caller>>

BatchJob(d) == JobStarts(d) \/ \E outcome \in Outcomes : JobEnds(d, outcome)

BatchNext ==
  \/ \E ids \in (SUBSET Devices) \ {{}} : Create(ids) \/ Retry(ids)
  \/ Cancel \/ CancelReturns \/ Fire \/ CancelledWaiting \/ RoundEnds
  \/ \E d \in Devices : SessionGoes(d) \/ JobProgress(d) \/ BatchJob(d)

BatchSpec == BatchInit /\ [][BatchNext]_batchVars

\* The clock reaches every fire time, and every job ends, by its timeout at the latest.
BatchFairness ==
  /\ WF_batchVars(Fire) /\ WF_batchVars(CancelledWaiting) /\ WF_batchVars(RoundEnds)
  /\ WF_batchVars(CancelReturns)
  /\ \A d \in Devices : WF_batchVars(BatchJob(d))

BatchFairSpec == BatchSpec /\ BatchFairness

-----------------------------------------------------------------------------
(* Properties *)

\* The rounds of this batch in which sensor d had its turn: all but a retry that was cancelled
\* before it started the sensor.
Counts(d) ==
  {r \in first..round : /\ r # 0 /\ d \in core[r].ids
                        /\ r = first \/ core[r].job[d] # "CANCELLED"}

\* A retry cancelled before it started a sensor did not happen for it (gui/batch.py:202): what
\* is shown is the last round that counts, numbered by how many there were.
ShownStands == \A d \in InBatch : /\ coreFor[d] = Max(Counts(d))
                                  /\ attempt[d] = Cardinality(Counts(d))

\* The elapsed time shown is that of the attempt shown.
ElapsedIsOfAttempt == \A d \in InBatch : elapsed[d] \in {0, coreFor[d]}

\* A cancel that comes while the batch waits keeps it from touching any sensor, however close
\* the fire time is.
EarlyCancelIsQuiet == \A r \in Rounds : core[r].early =>
                        \A d \in Devices : core[r].job[d] \in {"none", "CANCELLED"}

\* Within a batch, a sensor that was calibrated is not put back to anything else.
SuccessStays ==
  [][\A d \in InBatch : Shown(d) = "SUCCEEDED" /\ first' = first => Shown(d)' = "SUCCEEDED"]_batchVars

\* Every round ends, and with it every cancel() that waits for it.
RoundsAndCancelsEnd == (Active ~> ~Active) /\ (caller ~> ~caller)
=============================================================================
