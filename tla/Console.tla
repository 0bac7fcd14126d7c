------------------------------ MODULE Console ------------------------------
(***************************************************************************)
(* The commands of the command line (src/ms605/cli): "calibrate" gathers   *)
(* sensors, fires one batch and prints a summary; "clone" reads a source   *)
(* sensor, or a file, and applies its settings to targets; the interactive *)
(* menu and the one-shot commands work on one session.  Each is one        *)
(* coroutine whose finally blocks let go of the links, and Ctrl-C cancels  *)
(* it at any await.                                                        *)
(*                                                                         *)
(* The prompts are free choices.  A session is its link; a calibration or  *)
(* an apply is the result it comes to.  Ctrl-C is pressed once at most.    *)
(***************************************************************************)
EXTENDS Integers, FiniteSets

CONSTANT Devices

VARIABLES
  command, \* [kind, gather, flag]; flag: --schedule, --from-file, the interactive menu
  stage,   \* where the coroutine stands
  source,  \* the device of connect_with_retry: {} or one device
  linked,    \* the state of each device's session
  picked,  \* the devices selected and not yet tried
  kept,    \* fleet.sessions, as they are until the release
  job,     \* the result of each device's calibration or apply
  rows,    \* the summary: a status for each sensor listed
  code,    \* the exit code, -1 while there is none
  signal   \* the stage Ctrl-C came in

consoleVars == <<command, stage, source, linked, picked, kept, job, rows, code, signal>>

Calibrate == [kind : {"calibrate"}, gather : {"menu", "collect", "address"}, flag : BOOLEAN]
Clone == [kind : {"clone"}, gather : {"menu"}, flag : BOOLEAN]
Flow == [kind : {"flow"}, gather : {"none"}, flag : BOOLEAN]

NoRows == [d \in {} |-> "connected"]

\* The first stage of a gathering.
Gathering == IF command.gather = "collect" THEN "gather" ELSE "scan"

ConsoleInit ==
  /\ command \in Calibrate \cup Clone \cup Flow
  /\ stage = CASE command.kind = "calibrate" -> Gathering
               [] command.kind = "clone" /\ command.flag -> "choose"
               [] OTHER -> "source"
  /\ source = {} /\ picked = {} /\ kept = {} /\ rows = NoRows
  /\ linked = [d \in Devices |-> "off"] /\ job = [d \in Devices |-> "none"]
  /\ code = -1 /\ signal = "none"

Goes(to) == stage' = to /\ UNCHANGED <<command, signal>>
Ends(with) == Goes("done") /\ code' = with
Sets(d, state) == linked' = [linked EXCEPT ![d] = state]

NoneConnecting == \A d \in Devices : linked[d] # "connecting"

-----------------------------------------------------------------------------
(* One session: connect_with_retry, ensure, the flows *)

\* discover_and_select; a first attempt follows.
Selects(d) ==
  /\ stage = "source" /\ source = {} /\ source' = {d} /\ Sets(d, "connecting")
  /\ Goes("source") /\ UNCHANGED <<picked, kept, job, rows, code>>

\* connect_with_retry and ensure: every attempt that fails is followed by another.
SourceTries(d) ==
  /\ stage \in {"source", "ensure"} /\ d \in source /\ linked[d] \in {"off", "lost"}
  /\ Sets(d, "connecting")
  /\ UNCHANGED <<command, stage, source, picked, kept, job, rows, code, signal>>

SourceFails(d) ==
  /\ stage \in {"source", "ensure"} /\ d \in source /\ linked[d] = "connecting"
  /\ Sets(d, IF stage = "source" THEN "off" ELSE "lost")
  /\ UNCHANGED <<command, stage, source, picked, kept, job, rows, code, signal>>

SourceConnected(d) ==
  /\ stage \in {"source", "ensure"} /\ d \in source /\ linked[d] = "connecting" /\ Sets(d, "up")
  /\ Goes(IF stage = "ensure" THEN "act" ELSE "read")
  /\ UNCHANGED <<source, picked, kept, job, rows, code>>

\* The source's settings, or the header, are read, or the read raises.
SourceRead ==
  /\ stage = "read"
  /\ \/ /\ \E d \in source : linked[d] = "up"
        /\ Goes(CASE command.kind = "clone" -> "closing"
                  [] command.flag -> "menu"
                  [] OTHER -> "act")
        /\ code' = code
     \/ Goes("closing") /\ code' = 1
  /\ UNCHANGED <<source, linked, picked, kept, job, rows>>

\* The menu: quit, or an action on an ensured link.
MenuQuits ==
  /\ stage = "menu" /\ Goes("closing")
  /\ UNCHANGED <<source, linked, picked, kept, job, rows, code>>

MenuActs ==
  /\ stage = "menu"
  /\ Goes(IF \E d \in source : linked[d] = "up" THEN "act" ELSE "ensure")
  /\ UNCHANGED <<source, linked, picked, kept, job, rows, code>>

\* A flow waited for the operator and ensures its link once more.
EnsuresAgain ==
  /\ stage = "act" /\ command.flag /\ \E d \in source : linked[d] # "up"
  /\ Goes("ensure") /\ UNCHANGED <<source, linked, picked, kept, job, rows, code>>

\* An action of the menu ends; an MS605Error is reported and the menu goes on.
MenuActionEnds ==
  /\ stage = "act" /\ command.flag /\ Goes("menu")
  /\ UNCHANGED <<source, linked, picked, kept, job, rows, code>>

\* A one-shot command works on the link and ends, or raises what fails.
OneShotEnds ==
  /\ stage = "act" /\ ~command.flag /\ Goes("closing")
  /\ \/ (\E d \in source : linked[d] = "up") /\ code' = code
     \/ code' = 1
  /\ UNCHANGED <<source, linked, picked, kept, job, rows>>

\* session.close() in the finally block.
SourceClosed ==
  /\ stage = "closing" /\ linked' = [d \in Devices |-> IF d \in source THEN "off" ELSE linked[d]]
  /\ \/ /\ command.kind = "clone" /\ code = -1 /\ signal = "none"
        /\ Goes("choose") /\ code' = code
     \/ /\ ~(command.kind = "clone" /\ code = -1 /\ signal = "none")
        /\ Ends(IF signal # "none" THEN 130 ELSE IF code = -1 THEN 0 ELSE code)
  /\ UNCHANGED <<source, picked, kept, job, rows>>

\* clone: the file cannot be loaded, --no-apply, nothing to apply, or on to the targets.
SectionsChosen ==
  /\ stage = "choose"
  /\ \/ Goes("scan") /\ code' = code
     \/ \E with \in {0, 1, 2} : Ends(with)
  /\ UNCHANGED <<source, linked, picked, kept, job, rows>>

-----------------------------------------------------------------------------
(* Gathering: _batch_gather_menu, _batch_gather_address, _batch_gather_collect *)

\* What a scan may offer: a device that is not connected, never the source of a clone.
Selectable == {d \in Devices : linked[d] = "off"} \ source

\* The operator quits, or everything selected was tried and some of it connected.
AfterGather ==
  \/ kept = {} /\ Goes("summary")
  \/ kept # {} /\ command.kind = "clone" /\ Goes("confirm")
  \/ kept # {} /\ command.kind = "calibrate" /\ Goes(IF command.flag THEN "wait" ELSE "prompt")

ScanSelects(ds) ==
  /\ stage = "scan" /\ ds # {} /\ ds \subseteq Selectable
  /\ command.gather = "address" => Cardinality(ds) = 1
  /\ picked' = ds /\ Goes("connect") /\ UNCHANGED <<source, linked, kept, job, rows, code>>

ScanQuits ==
  /\ stage = "scan" /\ AfterGather /\ UNCHANGED <<source, linked, picked, kept, job, rows, code>>

\* fleet.connect, one device at a time; in a collection the gather loop does it.
TargetConnecting(d) ==
  /\ \/ stage = "connect" /\ d \in picked /\ NoneConnecting
     \/ stage = "gather" /\ linked[d] \in {"off", "lost"}
  /\ Sets(d, "connecting")
  /\ UNCHANGED <<command, stage, source, picked, kept, job, rows, code, signal>>

\* The attempt ends; one that fails leaves a new session closed, a LOST one LOST.
TargetConnected(d) ==
  /\ stage \in {"connect", "gather", "finish"} /\ linked[d] = "connecting"
  /\ \/ Sets(d, "up") /\ kept' = kept \cup {d}
     \/ Sets(d, IF d \in kept THEN "lost" ELSE "off") /\ kept' = kept
  /\ picked' = picked \ {d}
  /\ UNCHANGED <<command, stage, source, job, rows, code, signal>>

AllTried ==
  /\ stage = "connect" /\ picked = {} /\ NoneConnecting
  /\ IF kept = {} THEN Goes("scan") ELSE AfterGather
  /\ UNCHANGED <<source, linked, picked, kept, job, rows, code>>

\* Enter: stop_gather(finish_pending=True), which waits for the attempts in flight.
CollectionEnds ==
  /\ stage = "gather" /\ Goes("finish")
  /\ UNCHANGED <<source, linked, picked, kept, job, rows, code>>

PendingFinished ==
  /\ stage = "finish" /\ NoneConnecting /\ Goes("stop")
  /\ UNCHANGED <<source, linked, picked, kept, job, rows, code>>

\* stop_gather() of the finally block: a cancelled attempt closes its session.
ConnectCancelledAtStop(d) ==
  /\ stage = "stop" /\ linked[d] = "connecting" /\ Sets(d, IF d \in kept THEN "lost" ELSE "off")
  /\ UNCHANGED <<command, stage, source, picked, kept, job, rows, code, signal>>

GatherStopped ==
  /\ stage = "stop" /\ NoneConnecting
  /\ IF signal = "none" THEN AfterGather ELSE Goes("summary")
  /\ UNCHANGED <<source, linked, picked, kept, job, rows, code>>

-----------------------------------------------------------------------------
(* The batch, the apply *)

Running == {d \in kept : job[d] = "running"}

\* A session that is not connected is LOST at once, without a start.
Fires == job' = [d \in Devices |-> IF d \notin kept THEN job[d]
                                   ELSE IF linked[d] = "up" THEN "running" ELSE "unstarted"]

\* Enter, or the target time, which may have passed while gathering.
BatchFires ==
  /\ stage \in {"prompt", "wait"} /\ Fires /\ Goes("fire")
  /\ UNCHANGED <<source, linked, picked, kept, rows, code>>

\* The operator confirms, or -y; declining leads to the release with no result.
ApplyConfirmed ==
  /\ stage = "confirm" /\ \E to \in {"apply", "release"} : Goes(to)
  /\ UNCHANGED <<source, linked, picked, kept, job, rows, code>>

\* fleet.apply: one target at a time; not connected, it fails at once.
TargetApplies(d) ==
  /\ stage = "apply" /\ d \in kept /\ job[d] = "none" /\ Running = {}
  /\ job' = [job EXCEPT ![d] = IF linked[d] = "up" THEN "running" ELSE "failed"]
  /\ UNCHANGED <<command, stage, source, linked, picked, kept, rows, code, signal>>

\* A calibration, or an apply, comes to its result.  One that ends while the
\* batch is being cancelled is late for the summary.
JobEndsWith(d, result) ==
  /\ stage \in {"fire", "apply", "cancel"} /\ d \in Running
  /\ job' = [job EXCEPT ![d] = IF stage = "cancel" THEN "late" ELSE result]
  /\ UNCHANGED <<command, stage, source, linked, picked, kept, rows, code, signal>>

WorkEnds ==
  /\ stage \in {"fire", "apply"} /\ \A d \in kept : job[d] \notin {"none", "running"}
  /\ Goes("summary") /\ UNCHANGED <<source, linked, picked, kept, job, rows, code>>

-----------------------------------------------------------------------------
(* The finally blocks of run_batch_calibration and run_clone *)

\* summary_row, _calibration_status, _clone_status.
Status(d) ==
  CASE job[d] \in {"none", "running"} -> IF linked[d] = "lost" THEN "lost" ELSE "connected"
    [] job[d] = "unstarted" -> "lost"
    [] OTHER -> job[d]

\* The rows of the summary, before the release resets the sessions.  clone makes
\* them after it, from results that change no more, unless it was interrupted.
Summarised ==
  /\ stage = "summary" /\ rows' = [d \in kept |-> Status(d)] /\ Goes("cancel")
  /\ UNCHANGED <<source, linked, picked, kept, job, code>>

\* fleet.aclose(): the batch is cancelled; a job that is running drops its link.
JobCancelled(d) ==
  /\ stage = "cancel" /\ d \in Running
  /\ job' = [job EXCEPT ![d] = "cancelled"] /\ Sets(d, "off")
  /\ UNCHANGED <<command, stage, source, picked, kept, rows, code, signal>>

BatchCancelled ==
  /\ stage = "cancel" /\ Running = {} /\ Goes("release")
  /\ UNCHANGED <<source, linked, picked, kept, job, rows, code>>

\* Fleet._release(None): every session, and every connect attempt, is closed.
TargetReleased(d) ==
  /\ stage = "release" /\ d \notin source /\ linked[d] # "off" /\ Sets(d, "off")
  /\ UNCHANGED <<command, stage, source, picked, kept, job, rows, code, signal>>

\* Mutant of ExitCode: one success is enough.
ExitCodeAny == IF signal # "none" THEN 130 ELSE IF \E d \in DOMAIN rows : rows[d] = "ok" THEN 0 ELSE 1

ExitCode == IF signal # "none" THEN 130
            ELSE IF rows # NoRows /\ \A d \in DOMAIN rows : rows[d] = "ok" THEN 0 ELSE 1

ReleaseDone ==
  /\ stage = "release" /\ \A d \in Devices \ source : linked[d] = "off"
  /\ Ends(ExitCode) /\ UNCHANGED <<source, linked, picked, kept, job, rows>>

-----------------------------------------------------------------------------
(* What happens to the commands *)

\* A link is lost; a job on it ends.
SessionLost(d) ==
  /\ linked[d] = "up" /\ stage # "done" /\ Sets(d, "lost")
  /\ job' = [job EXCEPT ![d] = IF @ = "running" THEN "failed" ELSE @]
  /\ UNCHANGED <<command, stage, source, picked, kept, rows, code, signal>>

\* Mutant of CleanUp: the collection has no finally block.
CleanUpAtOnce ==
  CASE stage \in {"source", "choose", "closing", "release"} -> "done"
    [] stage \in {"read", "menu", "ensure", "act"} -> "closing"
    [] stage = "cancel" -> "release"
    [] OTHER -> "summary"

\* Where the cancelled coroutine goes on: its innermost finally block.
CleanUp ==
  CASE stage \in {"source", "choose", "closing", "release"} -> "done"
    [] stage \in {"read", "menu", "ensure", "act"} -> "closing"
    [] stage \in {"gather", "finish"} -> "stop"
    [] stage = "cancel" -> "release"
    [] OTHER -> "summary"

\* Ctrl-C: asyncio.run cancels the command.  The attempt awaited by it is
\* cancelled and leaves its session as it was; ensure() leaves that to the close.
Interrupted ==
  /\ signal = "none" /\ stage \notin {"summary", "done"} /\ signal' = stage
  /\ stage' = CleanUp /\ command' = command
  /\ code' = IF CleanUp = "done" THEN 130 ELSE code
  /\ linked' = IF stage \in {"source", "connect", "ensure"}
             THEN [d \in Devices |-> IF linked[d] = "connecting"
                                     THEN IF stage = "ensure" THEN "lost" ELSE "off" ELSE linked[d]]
             ELSE linked
  /\ UNCHANGED <<source, picked, kept, job, rows>>

-----------------------------------------------------------------------------
ConsoleNext ==
  \/ SourceRead \/ MenuQuits \/ MenuActs \/ EnsuresAgain \/ MenuActionEnds \/ OneShotEnds \/ SourceClosed \/ SectionsChosen
  \/ ScanQuits \/ AllTried \/ CollectionEnds \/ PendingFinished \/ GatherStopped
  \/ BatchFires \/ ApplyConfirmed \/ WorkEnds \/ Summarised \/ BatchCancelled \/ ReleaseDone \/ Interrupted
  \/ \E ds \in SUBSET Devices : ScanSelects(ds)
  \/ \E d \in Devices :
       \/ Selects(d) \/ SourceTries(d) \/ SourceFails(d) \/ SourceConnected(d)
       \/ TargetConnecting(d) \/ TargetConnected(d) \/ ConnectCancelledAtStop(d)
       \/ TargetApplies(d) \/ (\E result \in {"ok", "failed"} : JobEndsWith(d, result))
       \/ JobCancelled(d) \/ TargetReleased(d) \/ SessionLost(d)

ConsoleSpec == ConsoleInit /\ [][ConsoleNext]_consoleVars

-----------------------------------------------------------------------------
(* Properties *)

\* However a command ends, it leaves no link up and no attempt under way; and
\* once a gathering is over nothing it started is still connecting.  Excepted:
\* a Ctrl-C during the last clean-up, after which the process exits.
LeavesNoLink ==
  /\ stage \in {"prompt", "wait", "confirm", "fire", "apply"} => NoneConnecting
  /\ stage = "summary" /\ signal # "stop" => NoneConnecting
  /\ stage = "done" /\ signal \notin {"closing", "release"} => \A d \in Devices : linked[d] = "off"

\* The summary lists every sensor gathered, and says that one succeeded exactly
\* when it did by then, also after a Ctrl-C; the code is 0 only if all did.
SummaryTells ==
  /\ stage \in {"cancel", "done"} /\ command.kind = "calibrate" /\ signal \notin {"summary", "release", "cancel"}
       => /\ DOMAIN rows = kept
          /\ \A d \in kept : (rows[d] = "ok") = (job[d] = "ok")
  /\ stage = "done" /\ code = 0 => \A d \in kept : job[d] = "ok"
  /\ stage = "done" /\ code = 0 /\ command.kind = "calibrate" => kept # {}

\* clone: the source is let go of before a target is connected and is never one of them.
SourceApart ==
  command.kind = "clone" => /\ kept \cap source = {}
                            /\ (\E d \in Devices \ source : linked[d] # "off") => \A d \in source : linked[d] = "off"
=============================================================================
