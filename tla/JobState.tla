------------------------------ MODULE JobState ------------------------------
(***************************************************************************)
(* What the calibrations of one sensor promise the screens that watch      *)
(* them: each job walks from IDLE to one outcome and stays there, and at   *)
(* most one of them is at work.  Calibration.tla is shown to implement it. *)
(***************************************************************************)
CONSTANT Jobs

VARIABLE phase   \* the CalibrationState of each job

Outcomes == {"SUCCEEDED", "FAILED", "CANCELLED", "LOST", "TIMEOUT"}
AtWork == {"STARTING", "LEARNING"}

JobInit == phase = [j \in Jobs |-> "IDLE"]

Begin(j) == /\ phase[j] = "IDLE"
            /\ \A k \in Jobs : phase[k] \notin AtWork
            /\ phase' = [phase EXCEPT ![j] = "STARTING"]

Learn(j) == /\ phase[j] = "STARTING"
            /\ phase' = [phase EXCEPT ![j] = "LEARNING"]

\* A job that never learned cannot succeed, and one that never began cannot time out.
End(j, outcome) ==
  /\ \/ phase[j] = "IDLE" /\ outcome \notin {"SUCCEEDED", "TIMEOUT"}
     \/ phase[j] = "STARTING" /\ outcome # "SUCCEEDED"
     \/ phase[j] = "LEARNING"
  /\ phase' = [phase EXCEPT ![j] = outcome]

JobNext == \E j \in Jobs : \/ Begin(j)
                           \/ Learn(j)
                           \/ \E outcome \in Outcomes : End(j, outcome)

JobSpec == JobInit /\ [][JobNext]_phase
=============================================================================
