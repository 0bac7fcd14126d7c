-------------------------------- MODULE Live --------------------------------
(***************************************************************************)
(* Live output of one session (src/ms605/session.py): the count of         *)
(* viewers, the tag54 writes that switch the sensor's stream on and off,   *)
(* the operation lock under which calibration suspends them, and the PIR   *)
(* value shown, which comes from pushes and from a poll.                   *)
(*                                                                         *)
(* The link is the abstract one of LinkState.tla, which Session.tla        *)
(* implements.  A tag54 write is a driver request: the send lock keeps     *)
(* their order (Driver.tla), so the requests under way form a queue.  The  *)
(* stream number `_stream` is only compared for "has it moved since I      *)
(* looked": a poll read is `fresh` until it moves, and `late` after.       *)
(***************************************************************************)
EXTENDS LinkState, Naturals, Sequences

CONSTANTS
  Viewers,      \* callers of acquire_live() / release_live()
  MaxWrites     \* bound on the tag54 writes under way

ASSUME LiveAssumption == MaxWrites \in Nat

VARIABLES
  watch,    \* the viewers counted in _live
  busy,     \* DeviceSession.busy
  wasOn,    \* `live_before` of the calibration that holds the lock
  writes,   \* values of the tag54 writes under way, oldest first
  out,      \* the sensor's tag54
  missed,   \* what left tag54 behind: nothing, a failed "write", or a "connect" under a calibration
  pir,      \* where last_pir comes from: nowhere, the "current" link, an "earlier" one, or a
            \* "stray" push of one that was given up
  fresh,    \* a poll read of the current stream is under way
  late,     \* so is one of an earlier stream
  oldLink   \* a link that was given up still delivers

vars == <<link, back, watch, busy, wasOn, writes, out, missed, pir, fresh, late, oldLink>>
stream == <<writes, out, missed>>
reads == <<pir, fresh, late>>

Switch == {"on", "off"}

TypeOK ==
  /\ LinkTypeOK
  /\ watch \in SUBSET Viewers
  /\ busy \in {"none", "other", "calibration"}
  /\ wasOn \in Switch
  /\ writes \in Seq(Switch)
  /\ out \in Switch /\ missed \in {"no", "write", "connect"}
  /\ pir \in {"none", "current", "earlier", "stray"}
  /\ fresh \in BOOLEAN /\ late \in BOOLEAN
  /\ oldLink \in BOOLEAN

Init ==
  /\ LinkInit
  /\ watch = {} /\ busy = "none" /\ wasOn = "off"
  /\ writes = <<>> /\ out = "off" /\ missed = "no"
  /\ pir = "none" /\ fresh = FALSE /\ late = FALSE
  /\ oldLink = FALSE

\* set_live_output(v) is called.
Write(v) == /\ Len(writes) < MaxWrites
            /\ writes' = Append(writes, v)
            /\ missed' = "no"
            /\ UNCHANGED out

\* What the viewers ask of tag54: _live > 0.
Wanted == IF watch # {} THEN "on" ELSE "off"

\* last_pir = None and _stream += 1.
NewStream == /\ pir' = "none"
             /\ fresh' = FALSE
             /\ late' = (late \/ fresh)

\* tag54 is the session's to write: connected, and not calibrating.
Writable == link = "CONNECTED" /\ busy # "calibration"

-----------------------------------------------------------------------------
(* Viewers *)

AcquireLive(v) ==
  /\ v \notin watch
  /\ watch' = watch \cup {v}
  /\ IF watch = {} /\ Writable
     THEN Write("on") /\ NewStream
     ELSE UNCHANGED <<stream, reads>>
  /\ UNCHANGED <<link, back, busy, wasOn, oldLink>>

ReleaseLive(v) ==
  /\ v \in watch
  /\ watch' = watch \ {v}
  /\ IF watch = {v} /\ Writable
     THEN Write("off")
     ELSE UNCHANGED stream
  /\ UNCHANGED <<link, back, busy, wasOn, reads, oldLink>>

\* The oldest write reaches the sensor, answered or not.
Applied == /\ writes # <<>>
           /\ out' = Head(writes)
           /\ writes' = Tail(writes)
           /\ UNCHANGED <<link, back, watch, busy, wasOn, missed, reads, oldLink>>

\* A write fails, or its caller is cancelled before it began.  Nobody repeats it.
Dropped(i) ==
  /\ i \in 1..Len(writes)
  /\ writes' = SubSeq(writes, 1, i - 1) \o SubSeq(writes, i + 1, Len(writes))
  /\ missed' = IF i = Len(writes) THEN "write" ELSE missed
  /\ UNCHANGED <<link, back, watch, busy, wasOn, out, reads, oldLink>>

-----------------------------------------------------------------------------
(* The operation lock *)

StartOperation(reason) ==
  /\ busy = "none" /\ link = "CONNECTED"
  /\ busy' = reason
  /\ IF reason = "calibration"
     THEN /\ wasOn' = Wanted
          /\ IF watch = {} THEN NewStream ELSE UNCHANGED reads
     ELSE UNCHANGED <<wasOn, reads>>
  /\ UNCHANGED <<link, back, watch, stream, oldLink>>

\* The lock is let go, whatever became of the link meanwhile; after a calibration the stream is
\* brought in line with the viewers (_resync_live()).
EndOperation ==
  /\ busy # "none"
  /\ busy' = "none"
  /\ IF busy = "calibration" /\ Wanted # wasOn /\ link = "CONNECTED"
     THEN Write(Wanted)
     ELSE UNCHANGED stream
  /\ UNCHANGED <<link, back, watch, wasOn, reads, oldLink>>

-----------------------------------------------------------------------------
(* The link *)

\* The head of _establish().
StartConnect == /\ Begin
                /\ NewStream
                /\ UNCHANGED <<watch, busy, wasOn, stream, oldLink>>

\* Mutant of ConnectOk: the stream is not switched on again.
ConnectOkQuiet ==
  /\ Succeed
  /\ writes' = <<>>
  /\ out' = "off" /\ missed' = "no"
  /\ oldLink' = FALSE
  /\ UNCHANGED <<watch, busy, wasOn, reads>>

\* The tail of _establish(), on a link whose stream is off.  A calibration that closed the link
\* may still hold the lock: it waits for its close() to return.
ConnectOk ==
  /\ Succeed
  /\ writes' = IF watch # {} /\ busy # "calibration" THEN <<"on">> ELSE <<>>
  /\ out' = "off" /\ missed' = IF busy = "calibration" THEN "connect" ELSE "no"
  /\ oldLink' = FALSE
  /\ UNCHANGED <<watch, busy, wasOn, reads>>

ConnectFails == /\ Fail
                /\ UNCHANGED <<watch, busy, wasOn, stream, reads, oldLink>>

\* _lose() or close(): what was under way on the link is over.
LinkEnds == /\ Lost \/ Release
            /\ writes' = <<>>
            /\ out' = "off" /\ missed' = "no"
            /\ fresh' = FALSE /\ late' = (late \/ fresh)
            /\ oldLink' = (oldLink \/ link = "CONNECTED")
            /\ pir' = IF pir = "none" THEN "none" ELSE "earlier"
            /\ UNCHANGED <<watch, busy, wasOn>>

\* Its client has disconnected at last.
OldLinkGone == /\ oldLink
               /\ oldLink' = FALSE
               /\ UNCHANGED <<link, back, watch, busy, wasOn, stream, reads>>

-----------------------------------------------------------------------------
(* The PIR value *)

\* _on_push(): a tag56 push of the session's link, or of one it gave up.
Push == /\ link = "CONNECTED" \/ oldLink
        /\ pir' = IF link = "CONNECTED" THEN "current"
                  ELSE IF link = "CONNECTING" THEN "stray" ELSE pir
        /\ UNCHANGED <<link, back, watch, busy, wasOn, stream, fresh, late, oldLink>>

\* The poll reads tag56 while somebody watches and nothing holds the lock.
PollReads == /\ link = "CONNECTED" /\ watch # {} /\ busy = "none"
             /\ ~fresh
             /\ fresh' = TRUE
             /\ UNCHANGED <<link, back, watch, busy, wasOn, stream, pir, late, oldLink>>

PollAnswered == /\ fresh
                /\ fresh' = FALSE
                /\ pir' \in {pir, IF watch # {} /\ busy = "none" THEN "current" ELSE pir}
                /\ UNCHANGED <<link, back, watch, busy, wasOn, stream, late, oldLink>>

\* Mutant of PollLate: the value is taken whatever became of the stream.
PollLateTaken == /\ late
                 /\ late' = FALSE
                 /\ pir' = IF watch # {} /\ busy = "none" THEN "earlier" ELSE pir
                 /\ UNCHANGED <<link, back, watch, busy, wasOn, stream, fresh, oldLink>>

\* A read of an earlier stream, or of a poll that lost the session, is thrown away.
PollLate == /\ late
            /\ late' = FALSE
            /\ UNCHANGED <<link, back, watch, busy, wasOn, stream, pir, fresh, oldLink>>

-----------------------------------------------------------------------------
Next == \/ \E v \in Viewers : AcquireLive(v) \/ ReleaseLive(v)
        \/ Applied
        \/ \E i \in 1..Len(writes) : Dropped(i)
        \/ \E reason \in {"other", "calibration"} : StartOperation(reason)
        \/ EndOperation
        \/ StartConnect \/ ConnectOk \/ ConnectFails \/ LinkEnds \/ OldLinkGone
        \/ Push \/ PollReads \/ PollAnswered \/ PollLate

Spec == Init /\ [][Next]_vars

-----------------------------------------------------------------------------
(* Properties *)

\* Once the tag54 writes have settled, a connected sensor streams exactly if somebody watches,
\* however acquires, releases, calibrations and reconnects interleaved (acquire_live(),
\* release_live(), _resync_live(), the tail of _establish()).  A write that failed is not
\* repeated: the code logs it, and the next change or reconnect corrects it.
Settled == Writable /\ writes = <<>>
StreamMatches == Settled /\ missed = "no" => out = Wanted

\* The same without the exception for a connect that succeeds under a calibration
\* (docs/CORE_API.md 4.2).  The code breaks this: see README.md.
StreamFollows == Settled /\ missed # "write" => out = Wanted

\* A calibration finds and leaves tag54 as it was: nobody writes it until the lock is let go.
CalibrationUntouched ==
  link = "CONNECTED" /\ busy = "calibration" /\ writes = <<>> /\ missed = "no" => out = wasOn

\* The PIR value shown on a link is not one of an earlier link, whichever poll answers late
\* (_stream, and the resets of last_pir) ...
PirIsCurrent == link = "CONNECTED" => pir # "earlier"

\* ... nor one that a link being given up still pushed (the comment in _establish()).  The code
\* breaks this: see README.md.
PirNotStray == link = "CONNECTED" => pir \notin {"earlier", "stray"}
=============================================================================
