------------------------------ MODULE Service ------------------------------
(***************************************************************************)
(* Changing the settings of sensors: the drafts, apply, verify and         *)
(* rollback of ms605/fleet.py, the server's one apply job and its          *)
(* config_rev (ms605/gui/apply.py) and the routes that guard them          *)
(* (ms605/gui/server.py), together with what competes with them: previews, *)
(* clones, batch calibrations, releases, lost links.                       *)
(*                                                                         *)
(* A sensor has three sections: "s" stands for every section that takes    *)
(* effect at once (sensitivity, zone and sub-sensor settings, DND), "t"    *)
(* for the zone thresholds, which a sensor acknowledges at once and shows  *)
(* about a second later, and "m" for the detect mode, whose value          *)
(* "learning" (4) would start a calibration if it were written.            *)
(***************************************************************************)
EXTENDS Integers, FiniteSets, Sequences, SequencesExt

CONSTANTS Devices,    \* device ids
          Clients,    \* browser pages that preview and send requests
          Requests,   \* what a page may ask for
          MaxT,       \* largest threshold (65535 in the code)
          MaxEvents,  \* batches, lost links and releases there may be; a job counts for two
          None

Sections == {"s", "m", "t"}
Order == [s |-> 1, m |-> 2, t |-> 3]  \* the order apply_profile() writes them in
Modes == {"radar", "learning"}

VARIABLES
  cfg,    \* what each sensor shows on a read
  due,    \* thresholds a sensor has acknowledged and does not show yet, oldest first
  link,   \* "up": CONNECTED; "down": a session, no link; "gone": no session
  busy,   \* the session's operation lock
  broken, \* the link was lost under the operation that holds the lock
  snaps,  \* the snapshots on disk of each sensor, oldest first
  rev,    \* config_rev
  job,    \* the server's one apply job, running or last
  res,    \* the result of each item of that job
  batch,  \* [members, todo]: the active batch calibration; no members: none
  oplock, \* the ids a release holds the operation lock for; None: free
  page,   \* each page's preview
  left    \* how many of these events may still come

vars == <<cfg, due, link, busy, broken, snaps, rev, job, res, batch, oplock, page, left>>
sensors == <<cfg, due, snaps>>

(* -- values ------------------------------------------------------------- *)

\* What a sensor may show: for "s", values are told apart by numbers.
Profiles == [s : Nat, m : Modes, t : 0..MaxT]

\* A change names the sections it sets; thresholds may be relative.
Change(sec, rel, t, s, m) == [sec |-> sec, rel |-> rel, t |-> t, s |-> s, m |-> m]
Changes == [sec : SUBSET Sections, rel : BOOLEAN, t : Int, s : Nat, m : Modes]

\* A draft has a change, a clone a source and the sections it takes from there.
ASSUME ServiceAssumption ==
  /\ MaxT \in Nat \ {0}
  /\ None \notin Devices /\ None \notin Requests /\ None \notin {"read", "apply", "calibration"}
  /\ \A r \in Requests :
       /\ r.kind \in {"apply", "rollback", "clone"} /\ r.targets \subseteq Devices
       /\ r.kind = "apply" => r.change \in Changes
       /\ r.kind = "clone" => r.source \in Devices /\ r.sec \subseteq Sections

\* f, and v for d
With(f, d, v) == [x \in DOMAIN f \cup {d} |-> IF x = d THEN v ELSE f[x]]

\* SensorChanges.resolve(): the target, relative thresholds added to the current ones.
Resolve(ch, cur) == [sec |-> ch.sec, s |-> ch.s, m |-> ch.m,
                     t |-> IF ch.rel THEN cur.t + ch.t ELSE ch.t]

\* out of range is refused, never clamped
InRange(target) == "t" \in target.sec => target.t \in 0..MaxT

\* apply_profile() never writes detect_mode 4
ToWrite(target) == target.sec \ (IF target.m = "learning" THEN {"m"} ELSE {})

\* SensorChanges.from_profile(): clone and rollback take whole sections, absolute
FromProfile(profile, sec) == Change(sec, FALSE, profile.t, profile.s, profile.m)

Differs(target, actual, sec) == {x \in sec : target[x] # actual[x]}

NoJob == [run |-> FALSE, kind |-> "apply", targets |-> {}, left |-> {}, what |-> <<>>,
          at |-> None, pc |-> "next", target |-> None, todo |-> {}, applied |-> {},
          held |-> None, shown |-> <<>>]
NoPage == [pc |-> "idle", req |-> None, change |-> <<>>, revs |-> <<>>, srcRev |-> 0,
           settled |-> TRUE, wait |-> {}, shown |-> <<>>]
NoResult == [status |-> "failed", rev |-> 0, values |-> <<>>]
NoBatch == [members |-> {}, todo |-> {}]

Init ==
  /\ cfg = [d \in Devices |-> [s |-> 0, m |-> "radar", t |-> 1]]
  /\ due = [d \in Devices |-> <<>>]
  /\ link = [d \in Devices |-> "up"]
  /\ busy = [d \in Devices |-> None]
  /\ broken = [d \in Devices |-> FALSE]
  /\ snaps = [d \in Devices |-> <<>>]
  /\ rev = [d \in Devices |-> 0]
  /\ job = NoJob
  /\ res = <<>>
  /\ batch = NoBatch
  /\ oplock = None
  /\ page = [c \in Clients |-> NoPage]
  /\ left = MaxEvents

(* -- guards of the routes ------------------------------------------------ *)

Members == IF job.run THEN job.targets ELSE {}  \* ApplyService.members()

CheckFree(ds, connected) ==
  \A d \in ds : /\ link[d] # "gone"
                /\ d \notin batch.members
                /\ d \notin Members
                /\ connected => link[d] = "up"
                /\ busy[d] # "calibration"

CheckTargets(ds) ==
  \A d \in ds : link[d] = "up" /\ busy[d] = None /\ d \notin Members

CheckRev(revs) == \A d \in DOMAIN revs : rev[d] = revs[d]

(* -- previews -------------------------------------------------------------- *)

Free(d) == link[d] = "up" /\ busy[d] = None

\* a session whose operation(reason) is entered
Locked(ds, reason) ==
  /\ busy' = [d \in Devices |-> IF d \in ds THEN reason ELSE busy[d]]
  /\ UNCHANGED broken

Unlocked(d) == busy' = [busy EXCEPT ![d] = None] /\ broken' = [broken EXCEPT ![d] = FALSE]

\* The revisions are taken before any I/O; a sensor that is locked or not
\* connected is shown with an error, and the revision.
PreviewTargets(c, req, change) ==
  LET reading == {d \in req.targets : Free(d)} IN
  /\ page' = [page EXCEPT ![c] = [NoPage EXCEPT !.pc = "preview", !.req = req,
       !.change = change, !.revs = [d \in req.targets |-> rev[d]], !.wait = reading]]
  /\ Locked(reading, "read")

PreviewDraft(c, req) ==
  /\ page[c].pc = "idle" /\ req.kind = "apply"
  /\ CheckFree(req.targets, FALSE)
  /\ PreviewTargets(c, req, [d \in req.targets |-> req.change])
  /\ UNCHANGED <<sensors, link, rev, job, res, batch, oplock, left>>

\* a rollback is the absolute draft of a snapshot's sections
LoadRollback(ds) == [d \in ds |-> FromProfile(Last(snaps[d]).profile, Last(snaps[d]).sec)]

PreviewRollback(c, req) ==
  /\ page[c].pc = "idle" /\ req.kind = "rollback"
  /\ CheckFree(req.targets, FALSE)
  /\ \A d \in req.targets : snaps[d] # <<>>
  /\ PreviewTargets(c, req, LoadRollback(req.targets))
  /\ UNCHANGED <<sensors, link, rev, job, res, batch, oplock, left>>

\* a clone: the source is read first
PreviewClone(c, req) ==
  /\ page[c].pc = "idle" /\ req.kind = "clone"
  /\ CheckFree({req.source} \cup req.targets, FALSE)
  /\ CheckFree({req.source}, TRUE)
  /\ Free(req.source)
  /\ page' = [page EXCEPT ![c] = [NoPage EXCEPT !.pc = "source", !.req = req,
                                                !.srcRev = rev[req.source]]]
  /\ Locked({req.source}, "read")
  /\ UNCHANGED <<sensors, link, rev, job, res, batch, oplock, left>>

Readable(d) == link[d] = "up" /\ ~broken[d]

\* No write of this server is still on its way into the sensor.
Settled(d) == due[d] = <<>> /\ cfg[d].m # "learning"

\* the clone source's answer: every sensor previewed with its values
SourceRead(c) ==
  LET req == page[c].req
      src == req.source
      change == FromProfile(cfg[src], req.sec) IN
  /\ page[c].pc = "source" /\ Readable(src)
  /\ LET reading == {d \in req.targets : Free(d)} IN
     /\ page' = [page EXCEPT ![c] = [@ EXCEPT !.pc = "preview",
          !.change = [d \in req.targets |-> change],
          !.revs = [d \in req.targets |-> rev[d]],
          !.wait = reading, !.settled = Settled(src)]]
     /\ busy' = [d \in Devices |-> IF d \in reading THEN "read" ELSE
                                   IF d = src THEN None ELSE busy[d]]
     /\ broken' = [broken EXCEPT ![src] = FALSE]
  /\ UNCHANGED <<sensors, link, rev, job, res, batch, oplock, left>>

\* one target's answer: before, after and the differences are shown
PreviewRead(c, d) ==
  LET target == Resolve(page[c].change[d], cfg[d]) IN
  /\ page[c].pc = "preview" /\ d \in page[c].wait /\ Readable(d)
  /\ page' = [page EXCEPT ![c].wait = @ \ {d},
       ![c].shown = IF InRange(target)
                    THEN With(@, d, [target |-> target, settled |-> Settled(d) /\ page[c].settled])
                    ELSE @]
  /\ Unlocked(d)
  /\ UNCHANGED <<sensors, link, rev, job, res, batch, oplock, left>>

\* the read fails (a timeout, a lost link): this sensor is shown with an error
PreviewFails(c, d) ==
  /\ \/ page[c].pc = "preview" /\ d \in page[c].wait
        /\ page' = [page EXCEPT ![c].wait = @ \ {d}]
     \/ page[c].pc \in {"source", "clone"} /\ d = page[c].req.source
        /\ page' = [page EXCEPT ![c] = NoPage]
  /\ Unlocked(d)
  /\ UNCHANGED <<sensors, link, rev, job, res, batch, oplock, left>>

Forget(c) ==
  /\ page[c].pc = "preview" /\ page[c].wait = {}
  /\ page' = [page EXCEPT ![c] = NoPage]
  /\ UNCHANGED <<sensors, link, busy, broken, rev, job, res, batch, oplock, left>>

(* -- starting a job --------------------------------------------------------- *)

\* ApplyService.start(); the page keeps its preview: a request whose answer was
\* lost is sent again.
StartJob(c, what) ==
  /\ job' = [NoJob EXCEPT !.run = TRUE, !.kind = page[c].req.kind,
               !.targets = page[c].req.targets, !.left = page[c].req.targets,
               !.what = what, !.shown = page[c].shown]
  /\ res' = <<>>

MayStart(c, ds) ==
  /\ ~job.run
  /\ CheckFree(ds, TRUE)
  /\ CheckRev(page[c].revs)

PostWith(c) ==
  /\ page[c].pc = "preview" /\ page[c].wait = {}
  /\ left > 1 /\ oplock = None
  /\ MayStart(c, page[c].req.targets)
  /\ StartJob(c, page[c].change)
  /\ left' = left - 2
  /\ UNCHANGED <<sensors, link, busy, broken, rev, batch, oplock, page>>

PostApply(c) == page[c].req # None /\ page[c].req.kind = "apply" /\ PostWith(c)

\* the job loads the snapshot, which never changes, when it comes to the sensor
PostRollback(c) == page[c].req # None /\ page[c].req.kind = "rollback" /\ PostWith(c)

CloneChecks(c) ==
  LET req == page[c].req IN
  /\ MayStart(c, req.targets \cup {req.source})
  /\ page[c].srcRev = rev[req.source]

\* the source is read again, outside the operation lock
PostClone(c) ==
  LET src == page[c].req.source IN
  /\ page[c].pc = "preview" /\ page[c].wait = {} /\ page[c].req.kind = "clone"
  /\ left > 1
  /\ CloneChecks(c) /\ Free(src)
  /\ page' = [page EXCEPT ![c].pc = "clone"]
  /\ Locked({src}, "read")
  /\ left' = left - 2
  /\ UNCHANGED <<sensors, link, rev, job, res, batch, oplock>>

\* The source's answer. Its value is in hand while the route waits for the
\* operation lock.
CloneRead(c) ==
  LET req == page[c].req IN
  /\ page[c].pc = "clone" /\ Readable(req.source)
  /\ page' = [page EXCEPT ![c].pc = "copied",
       ![c].change = [d \in req.targets |-> FromProfile(cfg[req.source], req.sec)]]
  /\ Unlocked(req.source)
  /\ UNCHANGED <<sensors, link, rev, job, res, batch, oplock, left>>

\* Mutant of CloneStart: without the second checks.
CloneStartUnchecked(c) ==
  /\ page[c].pc = "copied" /\ oplock = None
  /\ StartJob(c, page[c].change)
  /\ page' = [page EXCEPT ![c] = NoPage]
  /\ UNCHANGED <<sensors, link, busy, broken, rev, batch, oplock, left>>

\* every check again: anything may have started or changed during the read
CloneStart(c) ==
  /\ page[c].pc = "copied" /\ oplock = None
  /\ IF CloneChecks(c)
     THEN /\ StartJob(c, page[c].change)
          /\ page' = [page EXCEPT ![c] = NoPage]
     ELSE /\ page' = [page EXCEPT ![c] = NoPage]
          /\ UNCHANGED <<job, res>>
  /\ UNCHANGED <<sensors, link, busy, broken, rev, batch, oplock, left>>

(* -- the job: one sensor after the other ------------------------------------- *)

\* The item ends: its result is set and, if the apply got as far as a result
\* event with a snapshot, the sensor's config_rev moves (ApplyService.on_event).
Finish(d, status, snap) ==
  /\ rev' = [rev EXCEPT ![d] = @ + (IF snap = 0 THEN 0 ELSE 1)]
  /\ res' = With(res, d, [status |-> status, rev |-> rev'[d],
               values |-> IF status = "verified" /\ cfg[d].m # "learning"
                          THEN [x \in job.applied |-> job.target[x]]
                          ELSE <<>>])
  /\ job' = [NoJob EXCEPT !.run = TRUE, !.kind = job.kind, !.targets = job.targets,
               !.left = job.left \ {d}, !.what = job.what, !.shown = job.shown]

\* No session, a snapshot that vanished, a held lock or no link: failed at once,
\* with nothing written.
RefuseItem(d) ==
  /\ job.run /\ job.pc = "next" /\ d \in job.left
  /\ ~Free(d) \/ job.kind = "rollback"
  /\ res' = With(res, d, NoResult)
  /\ job' = [job EXCEPT !.left = @ \ {d}]
  /\ UNCHANGED <<sensors, link, busy, broken, rev, batch, oplock, page, left>>

TakeItem(d) ==
  /\ job.run /\ job.pc = "next" /\ d \in job.left /\ Free(d)
  /\ job' = [job EXCEPT !.at = d, !.pc = "read", !.target = None, !.applied = {}, !.todo = {},
                        !.held = [profile |-> cfg[d], settled |-> Settled(d)]]
  /\ Locked({d}, "apply")
  /\ UNCHANGED <<sensors, link, rev, res, batch, oplock, page, left>>

\* Mutant of ReadCurrent: the snapshot is made from the profile being written.
ReadCurrentSavesTarget ==
  LET d == job.at
      target == Resolve(job.what[d], cfg[d]) IN
  /\ job.pc = "read" /\ Readable(d) /\ InRange(target)
  /\ snaps' = [snaps EXCEPT ![d] = Append(@, [sec |-> ToWrite(target),
                 profile |-> [x \in Sections |-> IF x \in target.sec THEN target[x] ELSE cfg[d][x]]])]
  /\ job' = [job EXCEPT !.pc = IF ToWrite(target) = {} THEN "verify" ELSE "write",
                        !.target = target, !.todo = ToWrite(target)]
  /\ UNCHANGED <<cfg, due, link, busy, broken, rev, res, batch, oplock, page, left>>

\* Read, resolve and save the snapshot: the values before, and which sections
\* the write is going to touch. Nothing has been written if any of it fails; a
\* write that skips everything is over at once.
ReadCurrent ==
  LET d == job.at
      target == Resolve(job.what[d], cfg[d]) IN
  /\ job.pc = "read" /\ Readable(d) /\ InRange(target)
  /\ snaps' = [snaps EXCEPT ![d] = Append(@, [profile |-> cfg[d], sec |-> ToWrite(target)])]
  /\ job' = [job EXCEPT !.pc = IF ToWrite(target) = {} THEN "verify" ELSE "write",
                        !.target = target, !.todo = ToWrite(target)]
  /\ UNCHANGED <<cfg, due, link, busy, broken, rev, res, batch, oplock, page, left>>

ReadCurrentFails ==
  /\ job.pc = "read"
  /\ Finish(job.at, "failed", 0) /\ Unlocked(job.at)
  /\ UNCHANGED <<sensors, link, batch, oplock, page, left>>

\* A write takes effect in the sensor: thresholds only after a while; a mode
\* write stops nothing, a learning sensor refuses it.
Effect(d, x, value) ==
  CASE x = "t" -> due' = [due EXCEPT ![d] = Append(@, value)] /\ UNCHANGED cfg
    [] OTHER -> cfg' = [cfg EXCEPT ![d][x] = value] /\ UNCHANGED due

Refused(d, x) == x = "m" /\ cfg[d].m = "learning"

NextSection == CHOOSE x \in job.todo : \A y \in job.todo : Order[x] <= Order[y]

\* apply_profile(): section by section, each acknowledged before the next
WriteSection ==
  LET d == job.at  x == NextSection IN
  /\ job.pc = "write" /\ job.todo # {} /\ Readable(d) /\ ~Refused(d, x)
  /\ Effect(d, x, job.target[x])
  /\ job' = [job EXCEPT !.todo = @ \ {x}, !.applied = @ \cup {x},
                        !.pc = IF job.todo = {x} THEN "verify" ELSE "write"]
  /\ UNCHANGED <<snaps, link, busy, broken, rev, res, batch, oplock, page, left>>

\* A write fails: refused, unanswered or cut off by a lost link, with or without
\* having reached the sensor. Nothing counts as applied.
WriteFails ==
  LET d == job.at  x == NextSection IN
  /\ job.pc = "write" /\ job.todo # {}
  /\ \/ UNCHANGED <<cfg, due>>
     \/ ~Refused(d, x) /\ Effect(d, x, job.target[x])
  /\ job' = [job EXCEPT !.pc = "reread", !.applied = {}]
  /\ UNCHANGED <<snaps, link, busy, broken, rev, res, batch, oplock, page, left>>

\* What the sensor holds is read once more, if there is a link; the result is
\* FAILED whatever that read says.
Reread ==
  /\ job.pc = "reread"
  /\ Finish(job.at, "failed", Len(snaps[job.at])) /\ Unlocked(job.at)
  /\ UNCHANGED <<sensors, link, batch, oplock, page, left>>

\* Mutant of Verified: an acknowledged write counts as verified.
VerifiedByAck ==
  /\ job.pc = "verify" /\ link[job.at] = "up"
  /\ Finish(job.at, "verified", Len(snaps[job.at]))
  /\ Unlocked(job.at)
  /\ UNCHANGED <<sensors, link, batch, oplock, page, left>>

\* poll_verify(): the read that matches, or the last one, at the deadline
Verified ==
  LET d == job.at IN
  /\ job.pc = "verify" /\ link[d] = "up"
  /\ Finish(d, IF Differs(job.target, cfg[d], job.applied) = {} THEN "verified" ELSE "partial",
            Len(snaps[d]))
  /\ Unlocked(d)
  /\ UNCHANGED <<sensors, link, batch, oplock, page, left>>

\* written but not confirmed
VerifyFails ==
  /\ job.pc = "verify"
  /\ Finish(job.at, "unverified", Len(snaps[job.at])) /\ Unlocked(job.at)
  /\ UNCHANGED <<sensors, link, batch, oplock, page, left>>

JobDone ==
  /\ job.run /\ job.pc = "next" /\ job.left = {}
  /\ job' = NoJob
  /\ UNCHANGED <<sensors, link, busy, broken, rev, res, batch, oplock, page, left>>

(* -- what else happens to a sensor ------------------------------------------- *)

\* thresholds written earlier show up, in the order they were written
Land(d) ==
  /\ due[d] # <<>>
  /\ cfg' = [cfg EXCEPT ![d].t = Head(due[d])]
  /\ due' = [due EXCEPT ![d] = Tail(@)]
  /\ UNCHANGED <<snaps, link, busy, broken, rev, job, res, batch, oplock, page, left>>

\* the space the sensor learns: thresholds of its own
Learned(d) == [cfg EXCEPT ![d].t = (@ + 2) % (MaxT + 1), ![d].m = "radar"]

CreateBatch(ds) ==
  /\ oplock = None /\ left > 0
  /\ batch.members = {} /\ ds # {} /\ CheckTargets(ds)
  /\ batch' = [members |-> ds, todo |-> ds]
  /\ left' = left - 1
  /\ UNCHANGED <<sensors, link, busy, broken, rev, job, res, oplock, page>>

\* the batch is over with its last result
Without(d) == [members |-> IF batch.todo = {d} THEN {} ELSE batch.members,
               todo |-> batch.todo \ {d}]

\* the sensor is locked or lost when the batch fires: a result without a start
CalibrationRefused(d) ==
  /\ d \in batch.todo /\ busy[d] # "calibration" /\ ~Free(d)
  /\ batch' = Without(d)
  /\ UNCHANGED <<sensors, link, busy, broken, rev, job, res, oplock, page, left>>

StartCalibration(d) ==
  /\ d \in batch.todo /\ Free(d)
  /\ Locked({d}, "calibration")
  /\ cfg' = [cfg EXCEPT ![d].m = "learning"]
  /\ UNCHANGED <<due, snaps, link, rev, job, res, batch, oplock, page, left>>

\* Mutant of EndCalibration: only an apply moves config_rev.
EndCalibrationUncounted(d) ==
  /\ d \in batch.todo /\ busy[d] = "calibration"
  /\ \/ cfg[d].m = "learning" /\ link[d] = "up" /\ cfg' = Learned(d)
     \/ UNCHANGED cfg
  /\ UNCHANGED rev
  /\ Unlocked(d)
  /\ batch' = Without(d)
  /\ UNCHANGED <<due, snaps, link, job, res, oplock, page, left>>

\* The result of a calibration that started moves config_rev, inside the lock:
\* the sensor succeeded, or was lost, or the job gave up waiting for its result
\* while it goes on learning.
EndCalibration(d) ==
  /\ d \in batch.todo /\ busy[d] = "calibration"
  /\ \/ cfg[d].m = "learning" /\ link[d] = "up" /\ cfg' = Learned(d)
     \/ UNCHANGED cfg
  /\ rev' = [rev EXCEPT ![d] = @ + 1]
  /\ Unlocked(d)
  /\ batch' = Without(d)
  /\ UNCHANGED <<due, snaps, link, job, res, oplock, page, left>>

\* a sensor whose calibration timed out ends its learning nobody waits for
LateLearning(d) ==
  /\ cfg[d].m = "learning" /\ busy[d] # "calibration"
  /\ cfg' = Learned(d)
  /\ UNCHANGED <<due, snaps, link, busy, broken, rev, job, res, batch, oplock, page, left>>

\* a link is lost: the operation under way fails, and learning is given up
Drop(d) ==
  /\ link[d] = "up" /\ left > 0
  /\ link' = [link EXCEPT ![d] = "down"]
  /\ broken' = [broken EXCEPT ![d] = busy[d] # None]
  /\ cfg' = [cfg EXCEPT ![d].m = "radar"]
  /\ left' = left - 1
  /\ UNCHANGED <<due, snaps, busy, rev, job, res, batch, oplock, page>>

Releasing == IF oplock = None THEN {} ELSE oplock

\* recovered, or gathered anew after a release
Connected(d) ==
  /\ link[d] # "up" /\ d \notin Releasing
  /\ link' = [link EXCEPT ![d] = "up"]
  /\ UNCHANGED <<sensors, busy, broken, rev, job, res, batch, oplock, page, left>>

\* release_locked(): the checks, under the operation lock ...
Release(ds) ==
  /\ oplock = None /\ left > 0 /\ ds # {}
  /\ \A d \in ds : link[d] # "gone" /\ d \notin batch.members /\ d \notin Members
  /\ oplock' = ds
  /\ left' = left - 1
  /\ UNCHANGED <<sensors, link, busy, broken, rev, job, res, batch, page>>

\* ... everything: no batch and no job at all, and gathering is stopped first
ReleaseAll ==
  /\ oplock = None /\ left > 0
  /\ batch.members = {} /\ ~job.run
  /\ oplock' = {d \in Devices : link[d] # "gone"}
  /\ left' = left - 1
  /\ UNCHANGED <<sensors, link, busy, broken, rev, job, res, batch, page>>

\* the links have closed (an operation under way fails) and the sessions are gone
Released ==
  /\ oplock # None
  /\ link' = [d \in Devices |-> IF d \in oplock THEN "gone" ELSE link[d]]
  /\ broken' = [d \in Devices |-> broken[d] \/ (d \in oplock /\ busy[d] # None)]
  /\ cfg' = [d \in Devices |-> IF d \in oplock THEN [cfg[d] EXCEPT !.m = "radar"] ELSE cfg[d]]
  /\ oplock' = None
  /\ UNCHANGED <<due, snaps, busy, rev, job, res, batch, page, left>>

(* -- the specification --------------------------------------------------------- *)

PageNext == \E c \in Clients :
  \/ \E req \in Requests : PreviewDraft(c, req) \/ PreviewRollback(c, req) \/ PreviewClone(c, req)
  \/ SourceRead(c) \/ Forget(c) \/ PostApply(c) \/ PostRollback(c) \/ PostClone(c) \/ CloneRead(c) \/ CloneStart(c)
  \/ \E d \in Devices : PreviewRead(c, d) \/ PreviewFails(c, d)

JobNext ==
  \/ \E d \in Devices : TakeItem(d) \/ RefuseItem(d)
  \/ ReadCurrent \/ ReadCurrentFails \/ WriteSection \/ WriteFails
  \/ Reread \/ Verified \/ VerifyFails \/ JobDone

SensorNext == \E d \in Devices :
  \/ Land(d) \/ Drop(d) \/ Connected(d)
  \/ CalibrationRefused(d) \/ StartCalibration(d) \/ EndCalibration(d) \/ LateLearning(d)

ServerNext ==
  \/ \E ds \in SUBSET Devices : CreateBatch(ds) \/ Release(ds)
  \/ ReleaseAll \/ Released

Next == PageNext \/ JobNext \/ SensorNext \/ ServerNext

Spec == Init /\ [][Next]_vars

(* -- properties ------------------------------------------------------------------ *)

TypeOK ==
  /\ cfg \in [Devices -> Profiles] /\ due \in [Devices -> Seq(0..MaxT)]
  /\ snaps \in [Devices -> Seq([profile : Profiles, sec : SUBSET Sections])]
  /\ link \in [Devices -> {"up", "down", "gone"}]
  /\ busy \in [Devices -> {None, "read", "apply", "calibration"}]
  /\ rev \in [Devices -> Nat]
  /\ oplock = None \/ oplock \subseteq Devices
  /\ batch \in [members : SUBSET Devices, todo : SUBSET Devices] /\ batch.todo \subseteq batch.members

\* Whatever an apply has written so far, in any state it can be stopped in, the
\* newest snapshot of that sensor names every section that may differ and holds
\* the value it had before (fleet.py:912: the snapshot precedes the first
\* write, and "written" leaves out what apply_profile() skips).
Restorable ==
  job.at # None /\ job.held.settled /\ cfg[job.at].m # "learning" =>
    LET d == job.at
        now == [cfg[d] EXCEPT !.t = IF due[d] = <<>> THEN @ ELSE Last(due[d])]
        touched == {x \in Sections : now[x] # job.held.profile[x]} IN
    touched # {} => /\ snaps[d] # <<>>
                    /\ touched \subseteq Last(snaps[d]).sec
                    /\ \A x \in touched : Last(snaps[d]).profile[x] = job.held.profile[x]

\* What a job writes is what the page that asked for it was shown: a preview goes
\* stale (409) when an apply or a calibration of this server came in between,
\* also between a clone's two reads of its source. Only a preview read while an
\* earlier write was still on its way into the sensor is no promise.
PreviewHonoured ==
  job.pc = "write" /\ job.at \in DOMAIN job.shown /\ job.shown[job.at].settled =>
    Differs(job.target, job.shown[job.at].target, job.target.sec) = {}

\* The same for every preview: what "config_rev" is documented to catch.
PreviewAlwaysHonoured ==
  job.pc = "write" /\ job.at \in DOMAIN job.shown =>
    Differs(job.target, job.shown[job.at].target, job.target.sec) = {}

\* The sensors of a running apply job are nobody else's: no batch holds them, no
\* release closes them (G22, G27).
MembersLeftAlone ==
  /\ Members \cap batch.members = {}
  /\ Releasing \cap (Members \cup batch.members) = {}

\* A result keeps its word until this server changes the sensor again: "verified"
\* means that the applied sections end up with the target's values, even when an
\* earlier write was still on its way (a sensor still learning is no promise).
VerdictTrue ==
  \A d \in DOMAIN res :
    LET ends == [cfg[d] EXCEPT !.t = IF due[d] = <<>> THEN @ ELSE Last(due[d])] IN
    rev[d] = res[d].rev /\ job.at # d /\ cfg[d].m # "learning" =>
      \A x \in DOMAIN res[d].values : ends[x] = res[d].values[x]
=============================================================================
