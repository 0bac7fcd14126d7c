--------------------------- MODULE ServiceProofs ---------------------------
(***************************************************************************)
(* Proofs about Service.tla, for any devices, pages, requests, thresholds  *)
(* and number of events.                                                   *)
(***************************************************************************)
EXTENDS Service, SequenceTheorems, TLAPS

-----------------------------------------------------------------------------
(* The invariant *)

\* The apply on a sensor has come to its writes: what the sensor shows may change before its
\* config_rev moves.
Writing(d) == job.at = d /\ job.pc \in {"write", "verify", "reread"}

\* A sensor that learns does so in a calibration that will move its config_rev.
Calm(d) == cfg[d].m = "learning" => busy[d] = "calibration"

\* The threshold a sensor shows in the end.
Ends(d) == IF due[d] = <<>> THEN cfg[d].t ELSE Last(due[d])

Stages == {"next", "read", "write", "verify", "reread"}

JobShape ==
  /\ job \in [run : BOOLEAN, kind : {job.kind}, targets : SUBSET Devices, left : SUBSET Devices,
              what : {job.what}, at : Devices \cup {None}, pc : Stages, target : {job.target},
              todo : SUBSET Sections, applied : SUBSET Sections, held : {job.held}, shown : {job.shown}]
  /\ job.run => \A d \in job.targets : job.what[d] \in Changes
  /\ DOMAIN job.shown \subseteq job.targets

PageShape(p) ==
  /\ p \in [pc : {"idle", "source", "preview", "clone", "copied"}, req : Requests \cup {None},
            change : {p.change}, revs : {p.revs}, srcRev : Nat, settled : BOOLEAN,
            wait : SUBSET Devices, shown : {p.shown}]
  /\ p.pc # "idle" => p.req \in Requests
  /\ p.pc \in {"source", "clone", "copied"} => p.req.kind = "clone"
  /\ p.pc # "preview" => p.wait = {}
  /\ p.pc = "source" => DOMAIN p.shown = {}
  /\ p.pc \in {"preview", "clone", "copied"} =>
       /\ DOMAIN p.revs = p.req.targets /\ DOMAIN p.shown \subseteq p.req.targets /\ p.wait \subseteq p.req.targets
       /\ \A d \in p.req.targets : p.change[d] \in Changes

Shape ==
  /\ TypeOK /\ JobShape
  /\ DOMAIN page = Clients /\ page = [c \in Clients |-> page[c]] /\ \A c \in Clients : PageShape(page[c])

\* One apply at a time, on one sensor at a time, which it has locked; its snapshot is there
\* before anything is written.
JobInv ==
  /\ ~job.run => job.at = None /\ job.left = {}
  /\ job.at = None <=> job.pc = "next"
  /\ job.left \subseteq job.targets
  /\ job.at # None => job.at \in job.left /\ busy[job.at] = "apply"
  /\ job.pc = "read" => job.applied = {}
  /\ job.at # None /\ job.pc # "read" =>
       /\ job.target \in [sec : SUBSET Sections, s : Nat, m : Modes, t : Int]
       /\ InRange(job.target)
       /\ job.todo \cup job.applied \subseteq ToWrite(job.target)
       /\ snaps[job.at] # <<>>

\* Who reads a sensor has locked it.
Reads(p, d) == \/ p.pc = "preview" /\ d \in p.wait
               \/ p.pc \in {"source", "clone"} /\ d = p.req.source

LockInv ==
  /\ \A c \in Clients : \A d \in Devices : Reads(page[c], d) => busy[d] = "read"
  /\ \A c, e \in Clients : \A d \in Devices : Reads(page[c], d) /\ Reads(page[e], d) => c = e
  /\ \A d \in Devices : busy[d] = "calibration" => d \in batch.todo

\* What a page was shown of a sensor still holds, as long as its config_rev does.
ShownOf(p, d) ==
  /\ p.revs[d] \in Nat /\ p.revs[d] <= rev[d]
  /\ d \in p.wait => p.revs[d] = rev[d]
  /\ d \in DOMAIN p.shown /\ p.shown[d].settled =>
       /\ p.settled
       /\ p.revs[d] = rev[d] /\ ~Writing(d) =>
            Calm(d) /\ due[d] = <<>> /\ p.shown[d].target = Resolve(p.change[d], cfg[d])

\* And so does what a clone has read of its source.
CopyOf(p, d) ==
  /\ p.srcRev <= rev[d]
  /\ p.pc \in {"source", "clone"} => p.srcRev = rev[d]
  /\ p.pc \in {"preview", "clone"} /\ p.settled /\ p.srcRev = rev[d] /\ ~Writing(d) =>
       /\ Calm(d) /\ due[d] = <<>>
       /\ \A e \in p.req.targets : p.change[e] = FromProfile([cfg[d] EXCEPT !.m = "radar"], p.req.sec)

PageInv(p) ==
  /\ p.pc \in {"preview", "clone", "copied"} => \A d \in p.req.targets : ShownOf(p, d)
  /\ p.pc \in {"source", "preview", "clone"} /\ p.req.kind = "clone" => CopyOf(p, p.req.source)

\* What a job's page was shown holds until the job comes to the sensor, and is what it writes.
PromiseInv ==
  \A d \in DOMAIN job.shown : job.shown[d].settled =>
    /\ d \in job.left /\ (job.at = d => job.pc = "read") =>
         Calm(d) /\ due[d] = <<>> /\ job.shown[d].target = Resolve(job.what[d], cfg[d])
    /\ job.at = d /\ job.pc = "write" => job.target = job.shown[d].target

\* What has been applied is what the sensor comes to show.
AppliedInv ==
  job.at # None /\ job.pc \in {"write", "verify"} /\ "t" \in job.applied /\ due[job.at] # <<>> =>
    Last(due[job.at]) = job.target.t

\* What an apply found is what it started from, or in the snapshot.
HeldInv ==
  job.at # None =>
    /\ job.held \in [profile : Profiles, settled : BOOLEAN]
    /\ job.held.settled =>
         /\ cfg[job.at].m = "radar" /\ job.held.profile.m = "radar"
         /\ job.pc = "read" => due[job.at] = <<>> /\ cfg[job.at] = job.held.profile
         /\ job.pc # "read" =>
              /\ Last(snaps[job.at]).profile = job.held.profile
              /\ Last(snaps[job.at]).sec = ToWrite(job.target)
              /\ "s" \notin ToWrite(job.target) => cfg[job.at].s = job.held.profile.s
              /\ "t" \notin ToWrite(job.target) => Ends(job.at) = job.held.profile.t

\* A result holds as long as the sensor's config_rev does.
Holds(d, values) ==
  /\ DOMAIN values \subseteq Sections /\ Calm(d)
  /\ "s" \in DOMAIN values => values["s"] = cfg[d].s
  /\ "m" \in DOMAIN values => values["m"] = "radar"
  /\ "t" \in DOMAIN values => values["t"] = Ends(d)

ResultInv ==
  \A d \in DOMAIN res :
    /\ d \in Devices /\ d \notin job.left
    /\ res[d].rev \in Nat /\ res[d].rev <= rev[d]
    /\ rev[d] = res[d].rev /\ DOMAIN res[d].values # {} => Holds(d, res[d].values)

IInv ==
  /\ Shape /\ JobInv /\ LockInv /\ MembersLeftAlone
  /\ \A c \in Clients : PageInv(page[c])
  /\ PromiseInv /\ AppliedInv /\ HeldInv /\ ResultInv

-----------------------------------------------------------------------------
(* What a step leaves as it is *)

\* What is promised of a sensor is kept.
Same(d) ==
  Calm(d) => /\ Calm(d)' /\ cfg'[d].s = cfg[d].s /\ Ends(d)' = Ends(d)
             /\ due[d] = <<>> => due'[d] = <<>>

\* Unless its config_rev says so, or is about to.
Steady(d) ==
  /\ rev[d] \in Nat /\ rev'[d] \in Nat /\ rev[d] <= rev'[d]
  /\ rev'[d] = rev[d] /\ ~Writing(d)' => ~Writing(d) /\ Same(d)

LEMMA RequestShape ==
  ASSUME NEW p, PageShape(p), p.pc # "idle"
  PROVE  /\ p.req \in Requests /\ p.req.targets \subseteq Devices
         /\ p.req.kind = "clone" => p.req.source \in Devices /\ p.req.sec \subseteq Sections
         /\ p.req.kind = "apply" => p.req.change \in Changes
  BY ServiceAssumption DEF PageShape

LEMMA KeptValue ==
  ASSUME NEW d, Calm(d), due[d] = <<>>, Same(d)
  PROVE  /\ Calm(d)' /\ due'[d] = <<>> /\ cfg'[d].s = cfg[d].s /\ cfg'[d].t = cfg[d].t
         /\ \A change : Resolve(change, cfg'[d]) = Resolve(change, cfg[d])
<1>1. Calm(d)' /\ due'[d] = <<>> /\ cfg'[d].s = cfg[d].s /\ Ends(d)' = Ends(d)
  BY DEF Same
<1>2. cfg'[d].t = cfg[d].t
  BY <1>1 DEF Ends
<1>3. \A change : Resolve(change, cfg'[d]) = Resolve(change, cfg[d])
  BY <1>2 DEF Resolve
<1>4. QED
  BY <1>1, <1>2, <1>3

LEMMA PageStays ==
  ASSUME TypeOK, TypeOK', NEW p, PageShape(p), PageInv(p), \A d \in Devices : Steady(d),
         \A d \in Devices : Reads(p, d) => rev'[d] = rev[d]
  PROVE  PageInv(p)'
<1>1. ASSUME p.pc \in {"preview", "clone", "copied"}, NEW d \in p.req.targets
      PROVE  ShownOf(p, d)'
  <2>1. d \in Devices /\ Steady(d) /\ ShownOf(p, d)
    BY <1>1, RequestShape DEF PageInv
  <2>2. /\ p.revs[d] \in Nat /\ rev[d] \in Nat /\ rev'[d] \in Nat
        /\ p.revs[d] <= rev[d] /\ rev[d] <= rev'[d]
    BY <2>1 DEF ShownOf, Steady
  <2>3. d \in p.wait => p.revs[d] = rev'[d]
    <3>1. d \in p.wait => Reads(p, d)
      BY <1>1 DEF Reads, PageShape
    <3>2. QED
      BY <2>1, <3>1 DEF ShownOf
  <2>4. ASSUME d \in DOMAIN p.shown, p.shown[d].settled
        PROVE  /\ p.settled
               /\ p.revs[d] = rev'[d] /\ ~Writing(d)' =>
                    Calm(d)' /\ due'[d] = <<>> /\ p.shown[d].target = Resolve(p.change[d], cfg'[d])
    <3>1. p.settled
      BY <2>1, <2>4 DEF ShownOf
    <3>2. ASSUME p.revs[d] = rev'[d], ~Writing(d)'
          PROVE  Calm(d)' /\ due'[d] = <<>> /\ p.shown[d].target = Resolve(p.change[d], cfg'[d])
      <4>1. rev'[d] = rev[d] /\ p.revs[d] = rev[d]
        BY <2>2, <3>2
      <4>2. ~Writing(d) /\ Same(d)
        BY <2>1, <3>2, <4>1 DEF Steady
      <4>3. Calm(d) /\ due[d] = <<>> /\ p.shown[d].target = Resolve(p.change[d], cfg[d])
        BY <2>1, <2>4, <4>1, <4>2 DEF ShownOf
      <4>4. QED
        BY <4>2, <4>3, KeptValue
    <3>3. QED
      BY <3>1, <3>2
  <2>5. QED
    BY <2>2, <2>3, <2>4 DEF ShownOf
<1>2. ASSUME p.pc \in {"source", "preview", "clone"}, p.req.kind = "clone"
      PROVE  CopyOf(p, p.req.source)'
  <2>1. PICK d \in Devices : d = p.req.source
    BY <1>2, RequestShape
  <2>2. Steady(d) /\ CopyOf(p, d) /\ p.srcRev \in Nat
    BY <1>2, <2>1 DEF PageInv, PageShape
  <2>3. rev[d] \in Nat /\ rev'[d] \in Nat /\ p.srcRev <= rev[d] /\ rev[d] <= rev'[d]
    BY <2>2 DEF CopyOf, Steady
  <2>4. p.pc \in {"source", "clone"} => p.srcRev = rev'[d]
    <3>1. p.pc \in {"source", "clone"} => Reads(p, d)
      BY <2>1 DEF Reads
    <3>2. QED
      BY <2>2, <3>1 DEF CopyOf
  <2>5. ASSUME p.pc \in {"preview", "clone"}, p.settled, p.srcRev = rev'[d], ~Writing(d)'
        PROVE  /\ Calm(d)' /\ due'[d] = <<>>
               /\ \A e \in p.req.targets : p.change[e] = FromProfile([cfg'[d] EXCEPT !.m = "radar"], p.req.sec)
    <3>1. rev'[d] = rev[d] /\ p.srcRev = rev[d]
      BY <2>3, <2>5
    <3>2. ~Writing(d) /\ Same(d)
      BY <2>2, <2>5, <3>1 DEF Steady
    <3>3. /\ Calm(d) /\ due[d] = <<>>
          /\ \A e \in p.req.targets : p.change[e] = FromProfile([cfg[d] EXCEPT !.m = "radar"], p.req.sec)
      BY <2>2, <2>5, <3>1, <3>2 DEF CopyOf
    <3>4. Calm(d)' /\ due'[d] = <<>> /\ cfg'[d].s = cfg[d].s /\ cfg'[d].t = cfg[d].t
      BY <3>2, <3>3, KeptValue
    <3>5. cfg[d] \in Profiles /\ cfg'[d] \in Profiles
      BY DEF TypeOK
    <3>6. [cfg'[d] EXCEPT !.m = "radar"] = [cfg[d] EXCEPT !.m = "radar"]
      BY <3>4, <3>5 DEF Profiles
    <3>7. QED
      BY <3>3, <3>4, <3>6
  <2>6. CopyOf(p, d)'
    <3>1. p.srcRev <= rev'[d]
      BY <2>2, <2>3
    <3>2. QED
      BY <2>4, <2>5, <3>1 DEF CopyOf
  <2>7. QED
    BY <2>1, <2>6
<1>3. QED
  BY <1>1, <1>2 DEF PageInv

LEMMA ResultsStay ==
  ASSUME TypeOK, ResultInv, \A d \in Devices : Steady(d), UNCHANGED res, JobInv, JobInv',
         \A d \in DOMAIN res : d \notin job'.left
  PROVE  ResultInv'
<1> SUFFICES ASSUME NEW d \in DOMAIN res
             PROVE  /\ d \in Devices /\ d \notin job'.left
                    /\ res[d].rev \in Nat /\ res[d].rev <= rev'[d]
                    /\ rev'[d] = res[d].rev /\ DOMAIN res[d].values # {} => Holds(d, res[d].values)'
  BY DEF ResultInv
<1>1. /\ d \in Devices /\ d \notin job.left /\ res[d].rev \in Nat /\ res[d].rev <= rev[d]
      /\ rev[d] = res[d].rev /\ DOMAIN res[d].values # {} => Holds(d, res[d].values)
  BY DEF ResultInv
<1>2. rev[d] \in Nat /\ rev'[d] \in Nat /\ rev[d] <= rev'[d] /\ Steady(d)
  BY <1>1 DEF Steady
<1>3. ~Writing(d)'
  BY <1>1 DEF Writing, JobInv
<1>4. ASSUME rev'[d] = res[d].rev, DOMAIN res[d].values # {} PROVE Holds(d, res[d].values)'
  <2>1. rev[d] = res[d].rev /\ rev'[d] = rev[d]
    BY <1>1, <1>2, <1>4
  <2>2. Holds(d, res[d].values) /\ Same(d)
    BY <1>1, <1>2, <1>3, <1>4, <2>1 DEF Steady
  <2>3. PICK values : values = res[d].values
    OBVIOUS
  <2>4. Holds(d, values)'
    BY <2>2, <2>3 DEF Holds, Same
  <2>5. QED
    BY <2>3, <2>4
<1>5. QED
  BY <1>1, <1>2, <1>4

-----------------------------------------------------------------------------
(* Previews *)

\* A page locks sensors that are free, and unlocks those it has read.
BusyMoves(c) ==
  /\ busy' \in [Devices -> {None, "read", "apply", "calibration"}]
  /\ \A d \in Devices : \/ busy'[d] = busy[d]
                        \/ busy[d] = None /\ busy'[d] = "read"
                        \/ Reads(page[c], d) /\ busy'[d] = None

OnlyPages == UNCHANGED <<cfg, due, snaps, link, rev, job, res, batch, oplock>>

LEMMA PageSteady ==
  ASSUME IInv, NEW c \in Clients, OnlyPages, BusyMoves(c)
  PROVE  /\ TypeOK' /\ \A d \in Devices : Steady(d)
         /\ \A d \in Devices : busy[d] \in {"apply", "calibration"} => busy'[d] = busy[d]
         /\ \A d \in Devices : busy'[d] = "calibration" => busy[d] = "calibration"
<1>1. TypeOK /\ LockInv
  BY DEF IInv, Shape
<1>2. TypeOK'
  BY <1>1 DEF TypeOK, OnlyPages, BusyMoves
<1>3. ASSUME NEW d \in Devices
      PROVE  /\ busy[d] \in {"apply", "calibration"} => busy'[d] = busy[d]
             /\ busy'[d] = "calibration" => busy[d] = "calibration"
  BY <1>1, ServiceAssumption DEF LockInv, BusyMoves
<1>4. ASSUME NEW d \in Devices PROVE Steady(d)
  <2>1. rev[d] \in Nat /\ rev'[d] = rev[d]
    BY <1>1 DEF TypeOK, OnlyPages
  <2>2. Writing(d)' <=> Writing(d)
    BY DEF Writing, OnlyPages
  <2>3. Same(d)
    BY <1>3 DEF Same, Calm, Ends, OnlyPages
  <2>4. QED
    BY <2>1, <2>2, <2>3 DEF Steady
<1>5. QED
  BY <1>2, <1>3, <1>4

LEMMA PageStep ==
  ASSUME IInv, NEW c \in Clients, NEW q, page' = [page EXCEPT ![c] = q], OnlyPages, BusyMoves(c),
         \A d \in Devices : Reads(q, d) => busy'[d] = "read" /\ (Reads(page[c], d) \/ busy[d] = None),
         PageShape(q), PageInv(q)'
  PROVE  IInv'
<1>1. /\ Shape /\ TypeOK /\ JobShape /\ JobInv /\ LockInv /\ MembersLeftAlone
      /\ PromiseInv /\ AppliedInv /\ HeldInv /\ ResultInv
  BY DEF IInv, Shape
<1>2. /\ TypeOK' /\ \A d \in Devices : Steady(d)
      /\ \A d \in Devices : busy[d] \in {"apply", "calibration"} => busy'[d] = busy[d]
      /\ \A d \in Devices : busy'[d] = "calibration" => busy[d] = "calibration"
  BY PageSteady
<1>3. JobShape'
  BY <1>1 DEF JobShape, OnlyPages
<1>4. DOMAIN page' = Clients /\ page'[c] = q /\ \A e \in Clients \ {c} : page'[e] = page[e]
  BY <1>1 DEF Shape
<1>5. Shape'
  <2>1. \A e \in Clients : PageShape(page'[e])
    BY <1>1, <1>4 DEF Shape
  <2>2. page' = [e \in Clients |-> page'[e]]
    BY <1>1, <1>4 DEF Shape
  <2>3. QED
    BY <1>2, <1>3, <1>4, <2>1, <2>2 DEF Shape, PageShape
<1>6. JobInv'
  <2>1. job.at # None => job.at \in Devices
    BY <1>1 DEF JobShape
  <2>2. job.at # None => busy'[job.at] = "apply"
    BY <1>1, <1>2, <2>1 DEF JobInv
  <2>3. QED
    BY <1>1, <2>2 DEF JobInv, OnlyPages
<1>7. LockInv'
  <2>1. \A e \in Clients \ {c} : \A d \in Devices : Reads(page[e], d) => busy[d] = "read" /\ ~Reads(page[c], d)
    BY <1>1 DEF LockInv
  <2>2. \A e \in Clients \ {c} : \A d \in Devices : Reads(page[e], d) => busy'[d] = "read" /\ ~Reads(q, d)
    BY <2>1, ServiceAssumption DEF BusyMoves
  <2>3. \A e \in Clients : \A d \in Devices : Reads(page'[e], d) => busy'[d] = "read"
    BY <1>4, <2>2
  <2>4. \A e, f \in Clients : \A d \in Devices : Reads(page'[e], d) /\ Reads(page'[f], d) => e = f
    BY <1>1, <1>4, <2>2 DEF LockInv
  <2>5. \A d \in Devices : busy'[d] = "calibration" => d \in batch.todo
    BY <1>1, <1>2 DEF LockInv
  <2>6. QED
    BY <2>3, <2>4, <2>5 DEF LockInv, OnlyPages, Reads
<1>8. ASSUME NEW e \in Clients PROVE PageInv(page[e])'
  <2>1. PICK p : p = page'[e]
    OBVIOUS
  <2>2. PageInv(p)'
    <3>1. CASE e = c
      BY <1>4, <2>1, <3>1
    <3>2. CASE e # c
      <4>1. PageShape(p) /\ PageInv(p)
        BY <1>1, <1>4, <2>1, <3>2 DEF IInv, Shape
      <4>2. \A d \in Devices : rev'[d] = rev[d]
        BY DEF OnlyPages
      <4>3. QED
        BY <1>1, <1>2, <4>1, <4>2, PageStays
    <3>3. QED
      BY <3>1, <3>2
  <2>3. QED
    BY <2>1, <2>2
<1>9. MembersLeftAlone' /\ AppliedInv' /\ HeldInv'
  BY <1>1 DEF MembersLeftAlone, Members, Releasing, AppliedInv, HeldInv, Ends, OnlyPages
<1>10. PromiseInv'
  <2>1. \A d \in DOMAIN job.shown : d \in Devices
    BY <1>1 DEF JobShape
  <2>2. \A d \in Devices : Calm(d) => Calm(d)'
    BY <1>2 DEF Calm, OnlyPages
  <2>3. QED
    BY <1>1, <2>1, <2>2 DEF PromiseInv, OnlyPages
<1>11. ResultInv'
  <2>1. UNCHANGED res /\ job' = job
    BY DEF OnlyPages
  <2>2. \A d \in DOMAIN res : d \notin job'.left
    BY <1>1, <2>1 DEF ResultInv
  <2>3. QED
    BY <1>1, <1>2, <1>6, <2>1, <2>2, ResultsStay
<1>12. QED
  BY <1>5, <1>6, <1>7, <1>8, <1>9, <1>10, <1>11 DEF IInv

LEMMA LastIn ==
  ASSUME NEW S, NEW s \in Seq(S), s # <<>>
  PROVE  Last(s) \in S
  BY DEF Last

LEMMA Copied ==
  ASSUME NEW profile \in Profiles, NEW sec \in SUBSET Sections
  PROVE  FromProfile(profile, sec) \in Changes
  BY ServiceAssumption DEF FromProfile, Change, Changes, Profiles

LEMMA PageRecord ==
  ASSUME NEW p, PageShape(p)
  PROVE  p = [pc |-> p.pc, req |-> p.req, change |-> p.change, revs |-> p.revs, srcRev |-> p.srcRev,
              settled |-> p.settled, wait |-> p.wait, shown |-> p.shown]
  BY DEF PageShape

\* A reading that begins: nothing has been shown yet.
LEMMA PreviewStarts ==
  ASSUME IInv, NEW c \in Clients, NEW req \in Requests, req.kind # "clone", NEW change,
         \A d \in req.targets : change[d] \in Changes,
         page[c].pc = "idle", PreviewTargets(c, req, change), OnlyPages
  PROVE  IInv'
<1>1. PICK reading : reading = {d \in req.targets : Free(d)}
  OBVIOUS
<1>2. PICK q : q = [NoPage EXCEPT !.pc = "preview", !.req = req, !.change = change,
                      !.revs = [d \in req.targets |-> rev[d]], !.wait = reading]
  OBVIOUS
<1>3. q = [pc |-> "preview", req |-> req, change |-> change, revs |-> [d \in req.targets |-> rev[d]],
           srcRev |-> 0, settled |-> TRUE, wait |-> reading, shown |-> <<>>]
  BY <1>2 DEF NoPage
<1>4. TypeOK /\ req.targets \subseteq Devices
  BY ServiceAssumption DEF IInv, Shape
<1>5. page' = [page EXCEPT ![c] = q]
  BY <1>1, <1>2 DEF PreviewTargets
<1>6. busy' = [d \in Devices |-> IF d \in reading THEN "read" ELSE busy[d]]
  BY <1>1 DEF PreviewTargets, Locked
<1>7. \A d \in reading : d \in Devices /\ busy[d] = None /\ busy'[d] = "read"
  BY <1>1, <1>4, <1>6 DEF Free
<1>8. BusyMoves(c)
  BY <1>4, <1>6, <1>7 DEF BusyMoves, TypeOK
<1>9. PageShape(q)
  BY <1>1, <1>3, <1>4 DEF PageShape
<1>10. \A d \in Devices : Reads(q, d) => d \in reading
  BY <1>3 DEF Reads
<1>11. PageInv(q)'
  <2>1. \A d \in req.targets : rev[d] \in Nat /\ rev'[d] = rev[d]
    BY <1>4 DEF TypeOK, OnlyPages
  <2>2. \A d \in req.targets : ShownOf(q, d)'
    BY <1>3, <2>1 DEF ShownOf
  <2>3. QED
    BY <1>3, <2>2 DEF PageInv
<1>12. QED
  BY <1>5, <1>7, <1>8, <1>9, <1>10, <1>11, PageStep

LEMMA PreviewDraftStep ==
  ASSUME IInv, NEW c \in Clients, NEW req \in Requests, PreviewDraft(c, req)
  PROVE  IInv'
<1>1. PICK change : change = [d \in req.targets |-> req.change]
  OBVIOUS
<1>2. \A d \in req.targets : change[d] \in Changes
  BY <1>1, ServiceAssumption DEF PreviewDraft
<1>3. page[c].pc = "idle" /\ PreviewTargets(c, req, change) /\ OnlyPages /\ req.kind # "clone"
  BY <1>1 DEF PreviewDraft, OnlyPages, sensors
<1>4. QED
  BY <1>2, <1>3, PreviewStarts

LEMMA PreviewRollbackStep ==
  ASSUME IInv, NEW c \in Clients, NEW req \in Requests, PreviewRollback(c, req)
  PROVE  IInv'
<1>1. PICK change : change = LoadRollback(req.targets)
  OBVIOUS
<1>2. ASSUME NEW d \in req.targets PROVE change[d] \in Changes
  <2>1. d \in Devices /\ snaps[d] # <<>>
    BY ServiceAssumption DEF PreviewRollback
  <2>2. snaps[d] \in Seq([profile : Profiles, sec : SUBSET Sections])
    BY <2>1 DEF IInv, Shape, TypeOK
  <2>3. PICK snap \in [profile : Profiles, sec : SUBSET Sections] : snap = Last(snaps[d])
    BY <2>1, <2>2, LastIn
  <2>4. change[d] = FromProfile(snap.profile, snap.sec)
    BY <1>1, <2>3 DEF LoadRollback
  <2>5. QED
    BY <2>4, Copied
<1>3. page[c].pc = "idle" /\ PreviewTargets(c, req, change) /\ OnlyPages /\ req.kind # "clone"
  BY <1>1 DEF PreviewRollback, OnlyPages, sensors
<1>4. QED
  BY <1>2, <1>3, PreviewStarts

LEMMA PreviewCloneStep ==
  ASSUME IInv, NEW c \in Clients, NEW req \in Requests, PreviewClone(c, req)
  PROVE  IInv'
<1>1. TypeOK /\ req.source \in Devices /\ req.kind = "clone" /\ OnlyPages /\ Free(req.source)
  BY ServiceAssumption DEF IInv, Shape, PreviewClone, OnlyPages, sensors
<1>2. PICK src \in Devices : src = req.source
  BY <1>1
<1>3. PICK q : /\ q = [NoPage EXCEPT !.pc = "source", !.req = req, !.srcRev = rev[src]]
               /\ q = [pc |-> "source", req |-> req, change |-> <<>>, revs |-> <<>>, srcRev |-> rev[src],
                       settled |-> TRUE, wait |-> {}, shown |-> <<>>]
  <2>1. PICK q : q = [NoPage EXCEPT !.pc = "source", !.req = req, !.srcRev = rev[src]]
    OBVIOUS
  <2>2. q = [pc |-> "source", req |-> req, change |-> <<>>, revs |-> <<>>, srcRev |-> rev[src],
             settled |-> TRUE, wait |-> {}, shown |-> <<>>]
    BY <2>1 DEF NoPage
  <2>3. QED
    BY <2>1, <2>2
<1>4. page' = [page EXCEPT ![c] = q]
  BY <1>2, <1>3 DEF PreviewClone
<1>5. busy' = [d \in Devices |-> IF d = src THEN "read" ELSE busy[d]] /\ busy[src] = None
  BY <1>1, <1>2 DEF PreviewClone, Locked, Free
<1>6. BusyMoves(c)
  BY <1>1, <1>5 DEF BusyMoves, TypeOK
<1>7. rev[src] \in Nat /\ rev'[src] = rev[src]
  BY <1>1 DEF TypeOK, OnlyPages
<1>8. PageShape(q)
  <2>1. q = [pc |-> "source", req |-> req, change |-> <<>>, revs |-> <<>>, srcRev |-> rev[src],
             settled |-> TRUE, wait |-> {}, shown |-> <<>>]
    BY <1>3
  <2>2. DOMAIN q.shown = {}
    BY <2>1
  <2>3. QED
    BY <1>1, <1>7, <2>1, <2>2 DEF PageShape
<1>9. \A d \in Devices : Reads(q, d) => d = src
  BY <1>2, <1>3 DEF Reads
<1>10. PageInv(q)'
  <2>1. CopyOf(q, src)'
    BY <1>3, <1>7 DEF CopyOf
  <2>2. QED
    BY <1>2, <1>3, <2>1 DEF PageInv
<1>11. QED
  BY <1>1, <1>4, <1>5, <1>6, <1>8, <1>9, <1>10, PageStep

LEMMA SourceReadStep ==
  ASSUME IInv, NEW c \in Clients, SourceRead(c)
  PROVE  IInv'
<1>1. PICK p : p = page[c]
  OBVIOUS
<1>2. /\ TypeOK /\ LockInv /\ PageShape(p) /\ PageInv(p) /\ OnlyPages /\ p.pc = "source"
      /\ p.req.kind = "clone" /\ p.req \in Requests
  BY <1>1 DEF IInv, Shape, SourceRead, OnlyPages, sensors, PageShape
<1>3. PICK src \in Devices : src = p.req.source
  BY <1>2, RequestShape
<1>4. PICK targets \in SUBSET Devices : targets = p.req.targets
  BY <1>2, RequestShape
<1>5. PICK reading \in SUBSET targets : reading = {d \in targets : Free(d)}
  OBVIOUS
<1>6. PICK change \in Changes : change = FromProfile(cfg[src], p.req.sec)
  <2>1. cfg[src] \in Profiles /\ p.req.sec \in SUBSET Sections
    BY <1>2, RequestShape DEF TypeOK
  <2>2. QED
    BY <2>1, Copied
<1>a. PICK settled \in BOOLEAN : settled <=> Settled(src)
  OBVIOUS
<1>b. PICK q : q = [p EXCEPT !.pc = "preview", !.change = [d \in targets |-> change],
                      !.revs = [d \in targets |-> rev[d]], !.wait = reading, !.settled = settled]
  OBVIOUS
<1>7. q = [pc |-> "preview", req |-> p.req, change |-> [d \in targets |-> change],
           revs |-> [d \in targets |-> rev[d]], srcRev |-> p.srcRev, settled |-> settled,
           wait |-> reading, shown |-> p.shown]
  <2>1. PageShape(p)
    BY <1>2
  <2>2. QED
    BY <1>b, <2>1 DEF PageShape
<1>8. page' = [page EXCEPT ![c] = q]
  <2>1. settled = Settled(src)
    BY <1>a DEF Settled
  <2>2. QED
    BY <1>1, <1>3, <1>4, <1>5, <1>6, <1>b, <2>1 DEF SourceRead
<1>9. busy[src] = "read" /\ Reads(p, src)
  BY <1>1, <1>2, <1>3 DEF LockInv, Reads
<1>10. busy' = [d \in Devices |-> IF d \in reading THEN "read" ELSE IF d = src THEN None ELSE busy[d]]
  BY <1>1, <1>3, <1>4, <1>5 DEF SourceRead
<1>11. \A d \in reading : busy[d] = None /\ busy'[d] = "read" /\ d # src
  BY <1>5, <1>9, <1>10, ServiceAssumption DEF Free
<1>12. BusyMoves(c)
  BY <1>1, <1>2, <1>9, <1>10, <1>11 DEF BusyMoves, TypeOK
<1>13. PageShape(q)
  BY <1>2, <1>4, <1>7 DEF PageShape
<1>14. \A d \in Devices : Reads(q, d) => d \in reading
  BY <1>7 DEF Reads
<1>15. \A d \in Devices : rev[d] \in Nat /\ rev'[d] = rev[d]
  BY <1>2 DEF TypeOK, OnlyPages
<1>16. PageInv(q)'
  <2>1. ASSUME NEW d \in targets PROVE ShownOf(q, d)'
    <3>1. DOMAIN q.shown = {} /\ q.revs[d] = rev[d] /\ d \in Devices
      BY <1>2, <1>7 DEF PageShape
    <3>2. QED
      BY <1>15, <3>1 DEF ShownOf
  <2>2. CopyOf(q, src)'
    <3>1. CopyOf(p, src)
      BY <1>2, <1>3 DEF PageInv
    <3>2. q.srcRev <= rev'[src] /\ q.pc = "preview" /\ q.req = p.req
      BY <1>7, <1>15, <3>1 DEF CopyOf
    <3>3. ASSUME q.settled
          PROVE  /\ Calm(src)' /\ due'[src] = <<>>
                 /\ \A e \in q.req.targets : q.change[e] = FromProfile([cfg'[src] EXCEPT !.m = "radar"], q.req.sec)
      <4>1. due[src] = <<>> /\ cfg[src].m # "learning" /\ cfg'[src] = cfg[src] /\ due'[src] = due[src]
        <5>1. q.settled = settled
          BY <1>7
        <5>2. Settled(src)
          BY <1>a, <3>3, <5>1
        <5>3. due[src] = <<>> /\ cfg[src].m # "learning"
          BY <5>2 DEF Settled
        <5>4. QED
          BY <1>2, <5>3 DEF OnlyPages
      <4>2. cfg[src] \in Profiles
        BY <1>2 DEF TypeOK
      <4>3. [cfg'[src] EXCEPT !.m = "radar"] = cfg[src]
        BY <4>1, <4>2 DEF Profiles, Modes
      <4>4. \A e \in q.req.targets : q.change[e] = change
        BY <1>4, <1>7
      <4>5. QED
        BY <1>6, <3>2, <4>1, <4>3, <4>4 DEF Calm
    <3>4. QED
      BY <3>2, <3>3 DEF CopyOf
  <2>3. QED
    BY <1>3, <1>4, <1>7, <2>1, <2>2 DEF PageInv
<1>17. QED
  BY <1>1, <1>2, <1>8, <1>11, <1>12, <1>13, <1>14, <1>16, PageStep

LEMMA PreviewReadStep ==
  ASSUME IInv, NEW c \in Clients, NEW d \in Devices, PreviewRead(c, d)
  PROVE  IInv'
<1>1. PICK p : p = page[c]
  OBVIOUS
<1>2. /\ TypeOK /\ LockInv /\ PageShape(p) /\ PageInv(p) /\ OnlyPages /\ p.pc = "preview" /\ d \in p.wait
  BY <1>1 DEF IInv, Shape, PreviewRead, OnlyPages, sensors
<1>3. PICK target : target = Resolve(p.change[d], cfg[d])
  OBVIOUS
<1>4. PICK settled \in BOOLEAN : settled <=> Settled(d) /\ p.settled
  OBVIOUS
<1>5. settled = (Settled(d) /\ p.settled)
  BY <1>2, <1>4 DEF Settled, PageShape
<1>6. PICK shown : shown = IF InRange(target) THEN With(p.shown, d, [target |-> target, settled |-> settled])
                           ELSE p.shown
  OBVIOUS
<1>7. PICK q : q = [p EXCEPT !.wait = p.wait \ {d}, !.shown = shown]
  OBVIOUS
<1>8. q = [pc |-> "preview", req |-> p.req, change |-> p.change, revs |-> p.revs, srcRev |-> p.srcRev,
           settled |-> p.settled, wait |-> p.wait \ {d}, shown |-> shown]
  <2>1. PageShape(p)
    BY <1>2
  <2>2. QED
    BY <1>2, <1>7, <2>1 DEF PageShape
<1>9. page' = [page EXCEPT ![c] = q]
  <2>1. page' = [page EXCEPT ![c] = [p EXCEPT !.wait = p.wait \ {d}, !.shown = shown]]
    BY <1>1, <1>3, <1>5, <1>6 DEF PreviewRead
  <2>2. QED
    BY <1>7, <2>1
<1>10. busy' = [busy EXCEPT ![d] = None]
  BY DEF PreviewRead, Unlocked
<1>11. Reads(p, d) /\ busy[d] = "read"
  BY <1>1, <1>2 DEF LockInv, Reads
<1>12. BusyMoves(c)
  BY <1>1, <1>2, <1>10, <1>11 DEF BusyMoves, TypeOK
<1>13. TypeOK' /\ \A e \in Devices : Steady(e)
  BY <1>12, <1>2, PageSteady
<1>14. ASSUME NEW e \in Devices, Reads(q, e)
       PROVE  busy'[e] = "read" /\ (Reads(page[c], e) \/ busy[e] = None)
  <2>1. e # d /\ e \in p.wait
    BY <1>8, <1>14 DEF Reads
  <2>2. Reads(p, e) /\ busy[e] = "read"
    BY <1>1, <1>2, <2>1 DEF LockInv, Reads
  <2>3. busy'[e] = busy[e]
    BY <1>2, <1>10, <2>1 DEF TypeOK
  <2>4. QED
    BY <1>1, <2>2, <2>3
<1>15. DOMAIN shown \subseteq DOMAIN p.shown \cup {d}
  BY <1>6 DEF With
<1>16. d \in p.req.targets
  BY <1>2 DEF PageShape
<1>17. PageShape(q)
  <2>1. q.wait \subseteq p.wait /\ DOMAIN q.shown \subseteq p.req.targets
    BY <1>2, <1>8, <1>15, <1>16 DEF PageShape
  <2>2. QED
    BY <1>2, <1>8, <2>1 DEF PageShape
<1>18. PageInv(p)'
  <2>1. \A e \in Devices : rev'[e] = rev[e]
    BY <1>2 DEF OnlyPages
  <2>2. QED
    BY <1>2, <1>13, <2>1, PageStays
<1>19. PageInv(q)'
  <2>1. ASSUME NEW e \in p.req.targets PROVE ShownOf(q, e)'
    <3>1. ShownOf(p, e)'
      BY <1>2, <1>18 DEF PageInv
    <3>2. /\ q.revs = p.revs /\ q.settled = p.settled /\ q.change = p.change
          /\ e \in q.wait => e \in p.wait
      BY <1>8
    <3>3. CASE e # d \/ ~InRange(target)
      <4>1. e \in DOMAIN q.shown => e \in DOMAIN p.shown /\ q.shown[e] = p.shown[e]
        BY <1>6, <1>8, <3>3 DEF With
      <4>2. QED
        BY <3>1, <3>2, <4>1 DEF ShownOf
    <3>4. CASE e = d /\ InRange(target)
      <4>1. q.shown[e] = [target |-> target, settled |-> settled]
        BY <1>6, <1>8, <3>4 DEF With
      <4>2. q.shown[e].target = target /\ q.shown[e].settled = settled
        BY <4>1
      <4>3. ASSUME settled
            PROVE  /\ p.settled
                   /\ Calm(e)' /\ due'[e] = <<>> /\ target = Resolve(p.change[e], cfg'[e])
        <5>1. p.settled /\ due[e] = <<>> /\ cfg[e].m # "learning"
          BY <1>4, <3>4, <4>3 DEF Settled
        <5>2. due'[e] = due[e] /\ cfg'[e] = cfg[e]
          BY <1>2 DEF OnlyPages
        <5>3. Calm(e)'
          BY <5>1, <5>2 DEF Calm
        <5>4. QED
          BY <1>3, <3>4, <5>1, <5>2, <5>3
      <4>4. QED
        BY <3>1, <3>2, <4>2, <4>3 DEF ShownOf
    <3>5. QED
      BY <3>3, <3>4
  <2>2. ASSUME p.req.kind = "clone" PROVE CopyOf(q, p.req.source)'
    <3>1. CopyOf(p, p.req.source)'
      BY <1>2, <1>18, <2>2 DEF PageInv
    <3>2. /\ q.pc = p.pc /\ q.req = p.req /\ q.change = p.change /\ q.srcRev = p.srcRev
          /\ q.settled = p.settled
      BY <1>2, <1>8
    <3>3. QED
      BY <3>1, <3>2 DEF CopyOf
  <2>3. QED
    BY <1>8, <2>1, <2>2 DEF PageInv
<1>20. QED
  BY <1>2, <1>9, <1>12, <1>14, <1>17, <1>19, PageStep

\* A page forgets its preview.
LEMMA NoPageStep ==
  ASSUME IInv, NEW c \in Clients, page' = [page EXCEPT ![c] = NoPage], OnlyPages, BusyMoves(c)
  PROVE  IInv'
<1>1. PICK q : q = NoPage
  OBVIOUS
<1>2. q = [pc |-> "idle", req |-> None, change |-> <<>>, revs |-> <<>>, srcRev |-> 0,
           settled |-> TRUE, wait |-> {}, shown |-> <<>>]
  BY <1>1 DEF NoPage
<1>3. PageShape(q)
  BY <1>2 DEF PageShape
<1>4. PageInv(q)' /\ \A d \in Devices : ~Reads(q, d)
  BY <1>2 DEF PageInv, Reads
<1>5. page' = [page EXCEPT ![c] = q]
  BY <1>1
<1>6. QED
  BY <1>3, <1>4, <1>5, PageStep

LEMMA PreviewFailsStep ==
  ASSUME IInv, NEW c \in Clients, NEW d \in Devices, PreviewFails(c, d)
  PROVE  IInv'
<1>1. PICK p : p = page[c]
  OBVIOUS
<1>2. /\ TypeOK /\ LockInv /\ PageShape(p) /\ PageInv(p) /\ OnlyPages
  BY <1>1 DEF IInv, Shape, PreviewFails, OnlyPages, sensors
<1>3. busy' = [busy EXCEPT ![d] = None]
  BY DEF PreviewFails, Unlocked
<1>4. Reads(p, d) /\ busy[d] = "read"
  <2>1. Reads(p, d)
    BY <1>1 DEF PreviewFails, Reads
  <2>2. QED
    BY <1>1, <1>2, <2>1 DEF LockInv
<1>5. BusyMoves(c)
  BY <1>1, <1>2, <1>3, <1>4 DEF BusyMoves, TypeOK
<1>6. CASE page' = [page EXCEPT ![c] = NoPage]
  BY <1>2, <1>5, <1>6, NoPageStep
<1>7. CASE p.pc = "preview" /\ d \in p.wait /\ page' = [page EXCEPT ![c].wait = @ \ {d}]
  <2>1. PICK q : q = [p EXCEPT !.wait = p.wait \ {d}]
    OBVIOUS
  <2>2. q = [pc |-> "preview", req |-> p.req, change |-> p.change, revs |-> p.revs, srcRev |-> p.srcRev,
             settled |-> p.settled, wait |-> p.wait \ {d}, shown |-> p.shown]
    <3>1. PageShape(p)
      BY <1>2
    <3>2. QED
      BY <1>7, <2>1, <3>1 DEF PageShape
  <2>3. page' = [page EXCEPT ![c] = q]
    BY <1>1, <1>7, <2>1
  <2>4. TypeOK' /\ \A e \in Devices : Steady(e)
    BY <1>5, <1>2, PageSteady
  <2>5. ASSUME NEW e \in Devices, Reads(q, e)
        PROVE  busy'[e] = "read" /\ (Reads(page[c], e) \/ busy[e] = None)
    <3>1. e # d /\ e \in p.wait
      BY <2>2, <2>5 DEF Reads
    <3>2. Reads(p, e) /\ busy[e] = "read"
      BY <1>1, <1>2, <1>7, <3>1 DEF LockInv, Reads
    <3>3. busy'[e] = busy[e]
      BY <1>2, <1>3, <3>1 DEF TypeOK
    <3>4. QED
      BY <1>1, <3>2, <3>3
  <2>6. PageShape(q)
    <3>1. q.wait \subseteq p.wait
      BY <2>2
    <3>2. QED
      BY <1>2, <1>7, <2>2, <3>1 DEF PageShape
  <2>7. PageInv(p)'
    <3>1. \A e \in Devices : rev'[e] = rev[e]
      BY <1>2 DEF OnlyPages
    <3>2. QED
      BY <1>2, <2>4, <3>1, PageStays
  <2>8. PageInv(q)'
    <3>1. /\ q.pc = p.pc /\ q.req = p.req /\ q.change = p.change /\ q.srcRev = p.srcRev
          /\ q.settled = p.settled /\ q.revs = p.revs /\ q.shown = p.shown /\ q.wait \subseteq p.wait
      BY <1>7, <2>2
    <3>2. ASSUME NEW e \in p.req.targets PROVE ShownOf(q, e)'
      <4>1. ShownOf(p, e)'
        BY <1>7, <2>7 DEF PageInv
      <4>2. QED
        BY <3>1, <4>1 DEF ShownOf
    <3>3. ASSUME p.req.kind = "clone" PROVE CopyOf(q, p.req.source)'
      <4>1. CopyOf(p, p.req.source)'
        BY <1>7, <2>7, <3>3 DEF PageInv
      <4>2. QED
        BY <3>1, <4>1 DEF CopyOf
    <3>4. QED
      BY <3>1, <3>2, <3>3 DEF PageInv
  <2>9. QED
    BY <1>2, <1>5, <2>3, <2>5, <2>6, <2>8, PageStep
<1>8. QED
  BY <1>1, <1>6, <1>7 DEF PreviewFails

LEMMA NothingLocked ==
  ASSUME TypeOK, NEW c \in Clients, UNCHANGED busy
  PROVE  BusyMoves(c)
  BY DEF BusyMoves, TypeOK

LEMMA ForgetStep ==
  ASSUME IInv, NEW c \in Clients, Forget(c)
  PROVE  IInv'
<1>1. TypeOK /\ OnlyPages /\ UNCHANGED busy
  BY DEF Forget, OnlyPages, sensors, IInv, Shape
<1>2. page' = [page EXCEPT ![c] = NoPage]
  BY DEF Forget
<1>3. QED
  BY <1>1, <1>2, NothingLocked, NoPageStep

\* The checks of a clone show that its source is as the page was shown it.
LEMMA PostCloneStep ==
  ASSUME IInv, NEW c \in Clients, PostClone(c)
  PROVE  IInv'
<1>1. PICK p : p = page[c]
  OBVIOUS
<1>2. /\ TypeOK /\ LockInv /\ PageShape(p) /\ PageInv(p) /\ OnlyPages /\ p.pc = "preview"
      /\ p.wait = {} /\ p.req.kind = "clone" /\ p.req \in Requests
  BY <1>1 DEF IInv, Shape, PostClone, OnlyPages, sensors, PageShape
<1>3. PICK src \in Devices : src = p.req.source
  BY <1>2, RequestShape
<1>4. p.srcRev = rev[src] /\ busy[src] = None
  BY <1>1, <1>3 DEF PostClone, CloneChecks, Free
<1>5. PICK q : q = [p EXCEPT !.pc = "clone"]
  OBVIOUS
<1>6. q = [pc |-> "clone", req |-> p.req, change |-> p.change, revs |-> p.revs, srcRev |-> p.srcRev,
           settled |-> p.settled, wait |-> p.wait, shown |-> p.shown]
  <2>1. PageShape(p)
    BY <1>2
  <2>2. QED
    BY <1>5, <2>1 DEF PageShape
<1>7. page' = [page EXCEPT ![c] = q]
  BY <1>1, <1>5 DEF PostClone
<1>8. busy' = [d \in Devices |-> IF d = src THEN "read" ELSE busy[d]]
  BY <1>1, <1>3 DEF PostClone, Locked
<1>9. BusyMoves(c)
  BY <1>2, <1>4, <1>8 DEF BusyMoves, TypeOK
<1>10. TypeOK' /\ \A d \in Devices : Steady(d) /\ rev'[d] = rev[d]
  <2>1. \A d \in Devices : rev'[d] = rev[d]
    BY <1>2 DEF OnlyPages
  <2>2. QED
    BY <1>2, <1>9, <2>1, PageSteady
<1>11. PageInv(p)'
  BY <1>2, <1>10, PageStays
<1>12. PageShape(q)
  BY <1>2, <1>6 DEF PageShape
<1>13. \A d \in Devices : Reads(q, d) => d = src
  BY <1>3, <1>6 DEF Reads
<1>14. PageInv(q)'
  <2>1. /\ q.req = p.req /\ q.change = p.change /\ q.srcRev = p.srcRev /\ q.pc = "clone"
        /\ q.settled = p.settled /\ q.revs = p.revs /\ q.shown = p.shown /\ q.wait = p.wait
    BY <1>6
  <2>2. ASSUME NEW e \in p.req.targets PROVE ShownOf(q, e)'
    <3>1. ShownOf(p, e)'
      BY <1>2, <1>11 DEF PageInv
    <3>2. QED
      BY <2>1, <3>1 DEF ShownOf
  <2>3. CopyOf(q, src)'
    <3>1. CopyOf(p, src)'
      BY <1>2, <1>3, <1>11 DEF PageInv
    <3>2. p.srcRev = rev'[src]
      BY <1>4, <1>10
    <3>3. QED
      BY <1>2, <2>1, <3>1, <3>2 DEF CopyOf
  <2>4. QED
    BY <1>3, <2>1, <2>2, <2>3 DEF PageInv
<1>15. QED
  BY <1>2, <1>4, <1>7, <1>8, <1>9, <1>12, <1>13, <1>14, PageStep

\* What the source shows now is what the page was shown.
LEMMA CloneReadStep ==
  ASSUME IInv, NEW c \in Clients, CloneRead(c)
  PROVE  IInv'
<1>1. PICK p : p = page[c]
  OBVIOUS
<1>2. /\ TypeOK /\ LockInv /\ JobInv /\ PageShape(p) /\ PageInv(p) /\ OnlyPages /\ p.pc = "clone"
      /\ p.req.kind = "clone" /\ p.req \in Requests
  BY <1>1 DEF IInv, Shape, CloneRead, OnlyPages, sensors, PageShape
<1>3. PICK src \in Devices : src = p.req.source
  BY <1>2, RequestShape
<1>4. PICK change \in Changes : change = FromProfile(cfg[src], p.req.sec)
  <2>1. cfg[src] \in Profiles /\ p.req.sec \in SUBSET Sections
    BY <1>2, RequestShape DEF TypeOK
  <2>2. QED
    BY <2>1, Copied
<1>5. PICK q : q = [p EXCEPT !.pc = "copied", !.change = [d \in p.req.targets |-> change]]
  OBVIOUS
<1>6. q = [pc |-> "copied", req |-> p.req, change |-> [d \in p.req.targets |-> change], revs |-> p.revs,
           srcRev |-> p.srcRev, settled |-> p.settled, wait |-> p.wait, shown |-> p.shown]
  <2>1. PageShape(p)
    BY <1>2
  <2>2. QED
    BY <1>5, <2>1 DEF PageShape
<1>7. page' = [page EXCEPT ![c] = q]
  BY <1>1, <1>3, <1>4, <1>5 DEF CloneRead
<1>8. busy' = [busy EXCEPT ![src] = None]
  BY <1>1, <1>3 DEF CloneRead, Unlocked
<1>9. Reads(p, src) /\ busy[src] = "read"
  BY <1>1, <1>2, <1>3 DEF LockInv, Reads
<1>10. BusyMoves(c)
  BY <1>1, <1>2, <1>8, <1>9 DEF BusyMoves, TypeOK
<1>11. TypeOK' /\ \A d \in Devices : Steady(d) /\ rev'[d] = rev[d]
  <2>1. \A d \in Devices : rev'[d] = rev[d]
    BY <1>2 DEF OnlyPages
  <2>2. QED
    BY <1>2, <1>10, <2>1, PageSteady
<1>12. PageInv(p)'
  BY <1>2, <1>11, PageStays
<1>13. PageShape(q)
  BY <1>2, <1>6 DEF PageShape
<1>14. \A d \in Devices : ~Reads(q, d)
  BY <1>6 DEF Reads
<1>15. ASSUME p.settled, NEW e \in p.req.targets PROVE p.change[e] = change
  <2>1. CopyOf(p, src)
    BY <1>2, <1>3 DEF PageInv
  <2>2. ~Writing(src)
    BY <1>2, <1>9 DEF Writing, JobInv
  <2>3. /\ Calm(src)
        /\ p.change[e] = FromProfile([cfg[src] EXCEPT !.m = "radar"], p.req.sec)
    BY <1>2, <1>15, <2>1, <2>2 DEF CopyOf
  <2>4. cfg[src] \in Profiles
    BY <1>2 DEF TypeOK
  <2>5. [cfg[src] EXCEPT !.m = "radar"] = cfg[src]
    BY <1>9, <2>3, <2>4 DEF Calm, Profiles, Modes
  <2>6. QED
    BY <1>4, <2>3, <2>5
<1>16. PageInv(q)'
  <2>1. /\ q.req = p.req /\ q.pc = "copied" /\ q.settled = p.settled /\ q.revs = p.revs
        /\ q.shown = p.shown /\ q.wait = p.wait
    BY <1>6
  <2>2. ASSUME NEW e \in p.req.targets PROVE ShownOf(q, e)'
    <3>1. ShownOf(p, e)'
      BY <1>2, <1>12 DEF PageInv
    <3>2. p.settled => q.change[e] = p.change[e]
      BY <1>6, <1>15
    <3>3. QED
      BY <2>1, <3>1, <3>2 DEF ShownOf
  <2>3. QED
    BY <2>1, <2>2 DEF PageInv
<1>17. QED
  BY <1>2, <1>7, <1>10, <1>13, <1>14, <1>16, PageStep

-----------------------------------------------------------------------------
(* The pages while something else happens *)

LEMMA PagesStay ==
  ASSUME IInv, TypeOK', JobShape', page' = [c \in Clients |-> page'[c]],
         \A c \in Clients : page'[c] = page[c] \/ page'[c] = NoPage,
         \A d \in Devices : Steady(d),
         \A d \in Devices : busy[d] = "read" => rev'[d] = rev[d] /\ busy'[d] = "read",
         \A d \in Devices : busy'[d] = "calibration" => d \in batch'.todo
  PROVE  Shape' /\ LockInv' /\ \A c \in Clients : PageInv(page[c])'
<1>1. TypeOK /\ LockInv
  BY DEF IInv, Shape
<1>2. PICK none : none = NoPage
  OBVIOUS
<1>3. none = [pc |-> "idle", req |-> None, change |-> <<>>, revs |-> <<>>, srcRev |-> 0,
              settled |-> TRUE, wait |-> {}, shown |-> <<>>]
  BY <1>2 DEF NoPage
<1>4. PageShape(none) /\ PageInv(none)' /\ \A d \in Devices : ~Reads(none, d)
  BY <1>3 DEF PageShape, PageInv, Reads
<1>5. ASSUME NEW c \in Clients
      PROVE  PageShape(page'[c]) /\ \A d \in Devices : Reads(page'[c], d) => Reads(page[c], d)
  BY <1>2, <1>4 DEF IInv, Shape
<1>6. Shape'
  <2>1. DOMAIN page' = Clients
    OBVIOUS
  <2>2. QED
    BY <1>5, <2>1 DEF Shape, PageShape
<1>7. LockInv'
  <2>1. \A c \in Clients : \A d \in Devices : Reads(page'[c], d) => busy'[d] = "read"
    BY <1>1, <1>5 DEF LockInv
  <2>2. \A c, e \in Clients : \A d \in Devices : Reads(page'[c], d) /\ Reads(page'[e], d) => c = e
    BY <1>1, <1>5 DEF LockInv
  <2>3. QED
    BY <2>1, <2>2 DEF LockInv, Reads
<1>8. ASSUME NEW c \in Clients PROVE PageInv(page[c])'
  <2>1. PICK p : p = page'[c]
    OBVIOUS
  <2>2. PageInv(p)'
    <3>1. CASE p = none
      BY <1>4, <3>1
    <3>2. CASE p = page[c]
      <4>1. PageShape(p) /\ PageInv(p)
        BY <3>2 DEF IInv, Shape
      <4>2. \A d \in Devices : Reads(p, d) => rev'[d] = rev[d]
        BY <1>1, <3>2 DEF LockInv
      <4>3. QED
        BY <1>1, <4>1, <4>2, PageStays
    <3>3. QED
      BY <1>2, <2>1, <3>1, <3>2
  <2>3. QED
    BY <2>1, <2>2
<1>9. QED
  BY <1>6, <1>7, <1>8

-----------------------------------------------------------------------------
(* The job *)

\* A job starts with what its page was shown, and the checks say that it still holds.
LEMMA JobStarts ==
  ASSUME IInv, NEW c \in Clients, page[c].pc \in {"preview", "copied"}, oplock = None,
         MayStart(c, page[c].req.targets), StartJob(c, page[c].change),
         UNCHANGED <<cfg, due, snaps, link, busy, rev, batch, oplock>>,
         page' = page \/ page' = [page EXCEPT ![c] = NoPage]
  PROVE  IInv'
<1>1. PICK p : p = page[c]
  OBVIOUS
<1>2. /\ TypeOK /\ LockInv /\ JobInv /\ PageShape(p) /\ PageInv(p) /\ p.pc \in {"preview", "copied"}
  BY <1>1 DEF IInv, Shape
<1>3. PICK targets \in SUBSET Devices : targets = p.req.targets
  BY <1>2, RequestShape
<1>4. /\ cfg' = cfg /\ due' = due /\ snaps' = snaps /\ link' = link /\ busy' = busy /\ rev' = rev
      /\ batch' = batch /\ oplock' = oplock
  OBVIOUS
<1>5. TypeOK'
  BY <1>2, <1>4 DEF TypeOK
<1>6. job' = [run |-> TRUE, kind |-> p.req.kind, targets |-> targets, left |-> targets, what |-> p.change,
              at |-> None, pc |-> "next", target |-> None, todo |-> {}, applied |-> {},
              held |-> None, shown |-> p.shown]
  <2>1. PICK j : j = [NoJob EXCEPT !.run = TRUE, !.kind = p.req.kind, !.targets = targets, !.left = targets,
                        !.what = p.change, !.shown = p.shown]
    OBVIOUS
  <2>2. job' = j
    BY <1>1, <1>3, <2>1 DEF StartJob
  <2>3. j = [run |-> TRUE, kind |-> p.req.kind, targets |-> targets, left |-> targets, what |-> p.change,
              at |-> None, pc |-> "next", target |-> None, todo |-> {}, applied |-> {},
              held |-> None, shown |-> p.shown]
    BY <2>1 DEF NoJob
  <2>4. QED
    BY <2>2, <2>3
<1>7. JobShape'
  <2>1. DOMAIN p.shown \subseteq targets /\ \A d \in targets : p.change[d] \in Changes
    BY <1>2, <1>3 DEF PageShape
  <2>2. QED
    BY <1>6, <2>1 DEF JobShape, Stages
<1>8. JobInv'
  BY <1>6 DEF JobInv
<1>9. \A d \in Devices : ~Writing(d) /\ ~Writing(d)'
  <2>1. job.at = None
    BY <1>1, <1>2 DEF MayStart, JobInv
  <2>2. QED
    BY <1>6, <2>1, ServiceAssumption DEF Writing
<1>10. \A d \in Devices : Steady(d)
  BY <1>2, <1>4, <1>9 DEF Steady, Same, Calm, Ends, TypeOK
<1>11. Shape' /\ LockInv' /\ \A e \in Clients : PageInv(page[e])'
  <2>1. page = [e \in Clients |-> page[e]] /\ DOMAIN page = Clients
    BY DEF IInv, Shape
  <2>2. page' = [e \in Clients |-> page'[e]] /\ \A e \in Clients : page'[e] = page[e] \/ page'[e] = NoPage
    BY <2>1
  <2>3. /\ \A d \in Devices : busy[d] = "read" => rev'[d] = rev[d] /\ busy'[d] = "read"
        /\ \A d \in Devices : busy'[d] = "calibration" => d \in batch'.todo
    BY <1>2, <1>4 DEF LockInv
  <2>4. QED
    BY <1>5, <1>7, <1>10, <2>2, <2>3, PagesStay
<1>12. MembersLeftAlone'
  <2>1. \A d \in targets : d \notin batch.members
    BY <1>1, <1>3 DEF MayStart, CheckFree
  <2>2. Members' = targets /\ Releasing' = {}
    BY <1>4, <1>6 DEF Members, Releasing
  <2>3. QED
    BY <1>4, <2>1, <2>2 DEF MembersLeftAlone
<1>13. PromiseInv'
  <2>1. job'.shown = p.shown /\ job'.what = p.change /\ job'.at = None
    BY <1>6
  <2>2. ASSUME NEW d \in DOMAIN p.shown, p.shown[d].settled
        PROVE  Calm(d)' /\ due'[d] = <<>> /\ p.shown[d].target = Resolve(p.change[d], cfg'[d]) /\ d \in Devices
    <3>1. d \in targets /\ d \in DOMAIN p.revs /\ d \in Devices
      BY <1>2, <1>3 DEF PageShape
    <3>2. ShownOf(p, d) /\ p.revs[d] = rev[d]
      BY <1>1, <1>2, <1>3, <3>1 DEF PageInv, MayStart, CheckRev
    <3>3. Calm(d) /\ due[d] = <<>> /\ p.shown[d].target = Resolve(p.change[d], cfg[d])
      BY <1>9, <2>2, <3>1, <3>2 DEF ShownOf
    <3>4. QED
      BY <1>4, <3>1, <3>3 DEF Calm
  <2>3. \A d \in DOMAIN p.shown : d \in Devices
    BY <1>2, <1>3 DEF PageShape
  <2>4. QED
    BY <2>1, <2>2, <2>3, ServiceAssumption DEF PromiseInv
<1>14. AppliedInv' /\ HeldInv'
  BY <1>6 DEF AppliedInv, HeldInv
<1>15. ResultInv'
  BY DEF StartJob, ResultInv
<1>16. QED
  BY <1>8, <1>11, <1>12, <1>13, <1>14, <1>15 DEF IInv

LEMMA PostWithStep ==
  ASSUME IInv, NEW c \in Clients, PostWith(c)
  PROVE  IInv'
BY JobStarts DEF PostWith, sensors

LEMMA CloneStartStep ==
  ASSUME IInv, NEW c \in Clients, CloneStart(c)
  PROVE  IInv'
<1>1. CASE CloneChecks(c)
  <2>1. MayStart(c, page[c].req.targets)
    BY <1>1 DEF CloneChecks, MayStart, CheckFree
  <2>2. QED
    BY <1>1, <2>1, JobStarts DEF CloneStart, sensors
<1>2. CASE ~CloneChecks(c)
  <2>1. TypeOK /\ OnlyPages /\ UNCHANGED busy /\ page' = [page EXCEPT ![c] = NoPage]
    BY <1>2 DEF CloneStart, OnlyPages, sensors, IInv, Shape
  <2>2. QED
    BY <2>1, NothingLocked, NoPageStep
<1>3. QED
  BY <1>1, <1>2

-----------------------------------------------------------------------------
(* What else happens to the sensors *)

LEMMA OutsideStep ==
  ASSUME IInv, TypeOK', UNCHANGED <<snaps, job, res, page>>, MembersLeftAlone',
         \A d \in Devices : \/ rev'[d] = rev[d] /\ Same(d)
                            \/ rev'[d] = rev[d] + 1 /\ busy[d] = "calibration",
         \A d \in Devices : busy[d] \in {"read", "apply"} => busy'[d] = busy[d],
         \A d \in Devices : busy'[d] = "calibration" => d \in batch'.todo,
         \A d \in Devices : due'[d] # <<>> => due[d] # <<>> /\ Last(due'[d]) = Last(due[d])
  PROVE  IInv'
<1>1. /\ Shape /\ TypeOK /\ JobShape /\ JobInv /\ LockInv /\ MembersLeftAlone
      /\ PromiseInv /\ AppliedInv /\ HeldInv /\ ResultInv
  BY DEF IInv, Shape
<1>2. snaps' = snaps /\ job' = job /\ res' = res /\ page' = page
  OBVIOUS
<1>3. JobShape'
  BY <1>1, <1>2 DEF JobShape
<1>4. ASSUME NEW d \in Devices PROVE Steady(d)
  <2>1. rev[d] \in Nat /\ rev'[d] \in Nat
    BY <1>1 DEF TypeOK
  <2>2. Writing(d)' <=> Writing(d)
    BY <1>2 DEF Writing
  <2>3. QED
    BY <2>1, <2>2 DEF Steady
<1>5. Shape' /\ LockInv' /\ \A c \in Clients : PageInv(page[c])'
  <2>1. page' = [c \in Clients |-> page'[c]] /\ \A c \in Clients : page'[c] = page[c] \/ page'[c] = NoPage
    BY <1>1, <1>2 DEF Shape
  <2>2. \A d \in Devices : busy[d] = "read" => rev'[d] = rev[d] /\ busy'[d] = "read"
    OBVIOUS
  <2>3. QED
    BY <1>3, <1>4, <2>1, <2>2, PagesStay
<1>6. job.at # None => job.at \in Devices
  BY <1>1 DEF JobShape
<1>7. JobInv'
  <2>1. job.at # None => busy'[job.at] = "apply"
    BY <1>1, <1>6 DEF JobInv
  <2>2. QED
    BY <1>1, <1>2, <2>1 DEF JobInv
<1>8. ASSUME NEW d \in job.left PROVE d \in Devices /\ Same(d)
  <2>1. job.run /\ d \in job.targets /\ d \in Devices
    BY <1>1, <1>8 DEF JobInv, JobShape
  <2>2. d \notin batch.todo
    BY <1>1, <2>1 DEF MembersLeftAlone, Members, TypeOK
  <2>3. busy[d] # "calibration"
    BY <1>1, <2>1, <2>2 DEF LockInv
  <2>4. QED
    BY <2>1, <2>3
<1>9. PromiseInv'
  <2>1. ASSUME NEW d \in job.left, Calm(d), due[d] = <<>>
        PROVE  Calm(d)' /\ due'[d] = <<>> /\ \A change : Resolve(change, cfg'[d]) = Resolve(change, cfg[d])
    BY <1>8, <2>1, KeptValue
  <2>2. QED
    BY <1>1, <1>2, <2>1 DEF PromiseInv
<1>10. AppliedInv'
  BY <1>1, <1>2, <1>6 DEF AppliedInv
<1>11. HeldInv'
  <2> SUFFICES ASSUME job.at # None
               PROVE  HeldInv'
    BY <1>2 DEF HeldInv
  <2>1. PICK d \in Devices : d = job.at
    BY <1>6
  <2>2. d \in job.left /\ Same(d) /\ busy'[d] = "apply" /\ busy[d] = "apply"
    BY <1>1, <1>8, <2>1 DEF JobInv
  <2>3. job.held \in [profile : Profiles, settled : BOOLEAN]
    BY <1>1 DEF HeldInv
  <2>4. CASE ~job.held.settled
    BY <1>2, <2>3, <2>4 DEF HeldInv
  <2>5. CASE job.held.settled
    <3>1. /\ cfg[d].m = "radar" /\ job.held.profile.m = "radar"
          /\ job.pc = "read" => due[d] = <<>> /\ cfg[d] = job.held.profile
          /\ job.pc # "read" =>
               /\ Last(snaps[d]).profile = job.held.profile
               /\ Last(snaps[d]).sec = ToWrite(job.target)
               /\ "s" \notin ToWrite(job.target) => cfg[d].s = job.held.profile.s
               /\ "t" \notin ToWrite(job.target) => Ends(d) = job.held.profile.t
      BY <1>1, <2>1, <2>5 DEF HeldInv
    <3>2. Calm(d)
      BY <3>1 DEF Calm
    <3>3. Calm(d)' /\ cfg'[d].s = cfg[d].s /\ Ends(d)' = Ends(d)
      BY <2>2, <3>2 DEF Same
    <3>4. cfg[d] \in Profiles /\ cfg'[d] \in Profiles
      BY <1>1 DEF TypeOK
    <3>5. cfg'[d].m = "radar"
      BY <2>2, <3>3, <3>4 DEF Calm, Profiles, Modes
    <3>6. ASSUME job.pc = "read" PROVE due'[d] = <<>> /\ cfg'[d] = job.held.profile
      <4>1. due'[d] = <<>> /\ cfg'[d].t = cfg[d].t /\ cfg'[d].s = cfg[d].s
        BY <2>2, <3>1, <3>2, <3>6, KeptValue
      <4>2. cfg'[d] = cfg[d]
        BY <3>1, <3>4, <3>5, <4>1 DEF Profiles
      <4>3. QED
        BY <3>1, <3>6, <4>1, <4>2
    <3>7. ASSUME job.pc # "read", "t" \notin ToWrite(job.target) PROVE Ends(d)' = job.held.profile.t
      BY <3>1, <3>3, <3>7
    <3>8. QED
      <4>1. job.at' = d /\ job.held' = job.held /\ job.pc' = job.pc /\ job.target' = job.target
        BY <1>2, <2>1
      <4>2. Ends(job.at)' = Ends(d)'
        BY <4>1 DEF Ends
      <4>3. QED
        BY <1>2, <2>3, <3>1, <3>3, <3>5, <3>6, <3>7, <4>1, <4>2 DEF HeldInv
  <2>6. QED
    BY <2>4, <2>5
<1>12. ResultInv'
  BY <1>1, <1>2, <1>4, <1>7, ResultsStay DEF ResultInv
<1>13. QED
  BY <1>5, <1>7, <1>9, <1>10, <1>11, <1>12 DEF IInv

LEMMA TailKeepsLast ==
  ASSUME NEW S, NEW s \in Seq(S), s # <<>>
  PROVE  /\ Tail(s) \in Seq(S) /\ Head(s) \in S
         /\ Tail(s) = <<>> => Head(s) = Last(s)
         /\ Tail(s) # <<>> => Last(Tail(s)) = Last(s)
<1>1. Len(s) \in Nat /\ Len(s) > 0 /\ Tail(s) \in Seq(S) /\ Head(s) \in S
  OBVIOUS
<1>2. Len(Tail(s)) = Len(s) - 1 /\ \A i \in 1..(Len(s) - 1) : Tail(s)[i] = s[i + 1]
  OBVIOUS
<1>3. Tail(s) = <<>> <=> Len(s) = 1
  <2>1. Tail(s) = <<>> <=> Len(Tail(s)) = 0
    BY <1>1, EmptySeq
  <2>2. QED
    BY <1>1, <1>2, <2>1
<1>4. ASSUME Tail(s) # <<>> PROVE Last(Tail(s)) = Last(s)
  <2>1. PICK n \in Nat : n = Len(s) - 1 /\ n > 0
    BY <1>1, <1>3, <1>4
  <2>2. Tail(s)[n] = s[n + 1]
    BY <1>2, <2>1
  <2>3. QED
    BY <1>1, <1>2, <2>1, <2>2 DEF Last
<1>5. QED
  BY <1>1, <1>3, <1>4 DEF Last

LEMMA LandStep ==
  ASSUME IInv, NEW d \in Devices, Land(d)
  PROVE  IInv'
<1>1. /\ TypeOK /\ LockInv /\ MembersLeftAlone
      /\ rev' = rev /\ busy' = busy /\ batch' = batch /\ oplock' = oplock /\ snaps' = snaps /\ link' = link
      /\ job' = job /\ res' = res /\ page' = page
  BY DEF IInv, Shape, Land
<1>2. due[d] # <<>> /\ due[d] \in Seq(0..MaxT) /\ cfg[d] \in Profiles
  BY <1>1 DEF Land, TypeOK
<1>3. /\ Tail(due[d]) \in Seq(0..MaxT) /\ Head(due[d]) \in 0..MaxT
      /\ Tail(due[d]) = <<>> => Head(due[d]) = Last(due[d])
      /\ Tail(due[d]) # <<>> => Last(Tail(due[d])) = Last(due[d])
  BY <1>2, TailKeepsLast
<1>4. cfg' = [cfg EXCEPT ![d].t = Head(due[d])] /\ due' = [due EXCEPT ![d] = Tail(due[d])]
  BY DEF Land
<1>5. /\ cfg'[d].s = cfg[d].s /\ cfg'[d].m = cfg[d].m /\ cfg'[d].t = Head(due[d]) /\ cfg'[d] \in Profiles
      /\ due'[d] = Tail(due[d])
      /\ \A e \in Devices \ {d} : cfg'[e] = cfg[e] /\ due'[e] = due[e]
  BY <1>1, <1>2, <1>3, <1>4 DEF TypeOK, Profiles
<1>6. TypeOK'
  BY <1>1, <1>3, <1>4, <1>5 DEF TypeOK
<1>7. ASSUME NEW e \in Devices
      PROVE  /\ Same(e)
             /\ due'[e] # <<>> => due[e] # <<>> /\ Last(due'[e]) = Last(due[e])
  <2>1. CASE e = d
    <3>1. Ends(e)' = Ends(e)
      BY <1>2, <1>3, <1>5, <2>1 DEF Ends
    <3>2. QED
      BY <1>1, <1>2, <1>3, <1>5, <2>1, <3>1 DEF Same, Calm
  <2>2. CASE e # d
    BY <1>1, <1>5, <2>2 DEF Same, Calm, Ends
  <2>3. QED
    BY <2>1, <2>2
<1>8. MembersLeftAlone'
  BY <1>1 DEF MembersLeftAlone, Members, Releasing
<1>9. /\ \A e \in Devices : rev'[e] = rev[e] /\ busy'[e] = busy[e]
      /\ \A e \in Devices : busy'[e] = "calibration" => e \in batch'.todo
  BY <1>1 DEF LockInv
<1>10. QED
  BY <1>1, <1>6, <1>7, <1>8, <1>9, OutsideStep

\* A learning sensor stops; its thresholds are as they were.
LEMMA DropStep ==
  ASSUME IInv, NEW d \in Devices, Drop(d)
  PROVE  IInv'
<1>1. /\ TypeOK /\ LockInv /\ MembersLeftAlone
      /\ rev' = rev /\ busy' = busy /\ batch' = batch /\ oplock' = oplock /\ snaps' = snaps /\ due' = due
      /\ job' = job /\ res' = res /\ page' = page
  BY DEF IInv, Shape, Drop
<1>2. cfg' = [cfg EXCEPT ![d].m = "radar"] /\ link' = [link EXCEPT ![d] = "down"]
  BY DEF Drop
<1>3. /\ cfg'[d].s = cfg[d].s /\ cfg'[d].m = "radar" /\ cfg'[d].t = cfg[d].t /\ cfg'[d] \in Profiles
      /\ \A e \in Devices \ {d} : cfg'[e] = cfg[e]
  BY <1>1, <1>2 DEF TypeOK, Profiles, Modes
<1>4. TypeOK'
  BY <1>1, <1>2, <1>3 DEF TypeOK
<1>5. ASSUME NEW e \in Devices PROVE Same(e)
  BY <1>1, <1>3 DEF Same, Calm, Ends
<1>6. MembersLeftAlone'
  BY <1>1 DEF MembersLeftAlone, Members, Releasing
<1>7. /\ \A e \in Devices : rev'[e] = rev[e] /\ busy'[e] = busy[e] /\ due'[e] = due[e]
      /\ \A e \in Devices : busy'[e] = "calibration" => e \in batch'.todo
  BY <1>1 DEF LockInv
<1>8. QED
  BY <1>1, <1>4, <1>5, <1>6, <1>7, OutsideStep

\* Nothing that sensors hold changes.
LEMMA QuietStep ==
  ASSUME IInv, TypeOK', UNCHANGED <<cfg, due, snaps, busy, rev, job, res, page>>, MembersLeftAlone',
         \A d \in Devices : busy[d] = "calibration" => d \in batch'.todo
  PROVE  IInv'
<1>1. /\ cfg' = cfg /\ due' = due /\ busy' = busy /\ rev' = rev /\ UNCHANGED <<snaps, job, res, page>>
  OBVIOUS
<1>2. \A d \in Devices : Same(d)
  BY <1>1 DEF Same, Calm, Ends
<1>3. QED
  BY <1>1, <1>2, OutsideStep

LEMMA ConnectedStep ==
  ASSUME IInv, NEW d \in Devices, Connected(d)
  PROVE  IInv'
<1>1. /\ TypeOK /\ LockInv /\ MembersLeftAlone /\ batch' = batch /\ oplock' = oplock /\ job' = job
      /\ UNCHANGED <<cfg, due, snaps, busy, rev, job, res, page>> /\ link' = [link EXCEPT ![d] = "up"]
  BY DEF IInv, Shape, Connected, sensors
<1>2. TypeOK'
  BY <1>1 DEF TypeOK
<1>3. MembersLeftAlone' /\ \A e \in Devices : busy[e] = "calibration" => e \in batch'.todo
  BY <1>1 DEF MembersLeftAlone, Members, Releasing, LockInv
<1>4. QED
  BY <1>1, <1>2, <1>3, QuietStep

LEMMA WithoutShape ==
  ASSUME TypeOK, NEW d \in batch.todo, batch' = Without(d)
  PROVE  /\ batch' \in [members : SUBSET Devices, todo : SUBSET Devices] /\ batch'.todo \subseteq batch'.members
         /\ batch'.todo = batch.todo \ {d} /\ batch'.members \subseteq batch.members
<1>1. batch \in [members : SUBSET Devices, todo : SUBSET Devices] /\ batch.todo \subseteq batch.members
  BY DEF TypeOK
<1>2. batch'.members = (IF batch.todo = {d} THEN {} ELSE batch.members) /\ batch'.todo = batch.todo \ {d}
  BY DEF Without
<1>3. batch' \in [members : SUBSET Devices, todo : SUBSET Devices]
  BY <1>1 DEF Without
<1>4. QED
  BY <1>1, <1>2, <1>3

LEMMA CalibrationRefusedStep ==
  ASSUME IInv, NEW d \in Devices, CalibrationRefused(d)
  PROVE  IInv'
<1>1. /\ TypeOK /\ LockInv /\ MembersLeftAlone /\ oplock' = oplock /\ job' = job /\ link' = link
      /\ UNCHANGED <<cfg, due, snaps, busy, rev, job, res, page>>
      /\ batch' = Without(d) /\ d \in batch.todo /\ busy[d] # "calibration"
  BY DEF IInv, Shape, CalibrationRefused, sensors
<1>2. /\ batch' \in [members : SUBSET Devices, todo : SUBSET Devices] /\ batch'.todo \subseteq batch'.members
      /\ batch'.todo = batch.todo \ {d} /\ batch'.members \subseteq batch.members
  BY <1>1, WithoutShape
<1>3. TypeOK'
  BY <1>1, <1>2 DEF TypeOK
<1>4. MembersLeftAlone' /\ \A e \in Devices : busy[e] = "calibration" => e \in batch'.todo
  BY <1>1, <1>2 DEF MembersLeftAlone, Members, Releasing, LockInv
<1>5. QED
  BY <1>1, <1>3, <1>4, QuietStep

\* The sensor learns: its config_rev will move.
LEMMA StartCalibrationStep ==
  ASSUME IInv, NEW d \in Devices, StartCalibration(d)
  PROVE  IInv'
<1>1. /\ TypeOK /\ LockInv /\ MembersLeftAlone
      /\ rev' = rev /\ batch' = batch /\ oplock' = oplock /\ snaps' = snaps /\ due' = due /\ link' = link
      /\ job' = job /\ res' = res /\ page' = page /\ d \in batch.todo /\ busy[d] = None
  BY DEF IInv, Shape, StartCalibration, Free
<1>2. /\ cfg' = [cfg EXCEPT ![d].m = "learning"]
      /\ busy' = [e \in Devices |-> IF e \in {d} THEN "calibration" ELSE busy[e]]
  BY DEF StartCalibration, Locked
<1>3. /\ cfg'[d].s = cfg[d].s /\ cfg'[d].m = "learning" /\ cfg'[d].t = cfg[d].t /\ cfg'[d] \in Profiles
      /\ \A e \in Devices \ {d} : cfg'[e] = cfg[e]
  BY <1>1, <1>2 DEF TypeOK, Profiles, Modes
<1>4. busy'[d] = "calibration" /\ \A e \in Devices \ {d} : busy'[e] = busy[e]
  BY <1>2
<1>5. TypeOK'
  <2>1. cfg' \in [Devices -> Profiles] /\ busy' \in [Devices -> {None, "read", "apply", "calibration"}]
    BY <1>1, <1>2, <1>3 DEF TypeOK
  <2>2. QED
    BY <1>1, <2>1 DEF TypeOK
<1>6. ASSUME NEW e \in Devices PROVE Same(e)
  BY <1>1, <1>3, <1>4 DEF Same, Calm, Ends
<1>7. MembersLeftAlone'
  BY <1>1 DEF MembersLeftAlone, Members, Releasing
<1>8. /\ \A e \in Devices : rev'[e] = rev[e] /\ due'[e] = due[e]
      /\ \A e \in Devices : busy[e] \in {"read", "apply"} => busy'[e] = busy[e]
      /\ \A e \in Devices : busy'[e] = "calibration" => e \in batch'.todo
  BY <1>1, <1>4, ServiceAssumption DEF LockInv
<1>9. QED
  BY <1>1, <1>5, <1>6, <1>7, <1>8, OutsideStep

LEMMA LearnedShape ==
  ASSUME TypeOK, NEW d \in Devices, cfg' = Learned(d)
  PROVE  cfg' \in [Devices -> Profiles] /\ \A e \in Devices \ {d} : cfg'[e] = cfg[e]
<1>1. PICK t \in Nat : t = cfg[d].t
  BY ServiceAssumption DEF TypeOK, Profiles
<1>2. PICK u \in 0..MaxT : u = (t + 2) % (MaxT + 1)
  BY ServiceAssumption
<1>3. cfg' = [cfg EXCEPT ![d].t = u, ![d].m = "radar"]
  BY <1>1, <1>2 DEF Learned
<1>4. cfg[d] \in Profiles /\ [[cfg[d] EXCEPT !.t = u] EXCEPT !.m = "radar"] \in Profiles
  BY <1>2 DEF TypeOK, Profiles, Modes
<1>5. cfg'[d] = [[cfg[d] EXCEPT !.t = u] EXCEPT !.m = "radar"] /\ DOMAIN cfg' = Devices
  BY <1>3 DEF TypeOK
<1>6. QED
  BY <1>3, <1>4, <1>5 DEF TypeOK

LEMMA EndCalibrationStep ==
  ASSUME IInv, NEW d \in Devices, EndCalibration(d)
  PROVE  IInv'
<1>1. /\ TypeOK /\ LockInv /\ MembersLeftAlone
      /\ oplock' = oplock /\ snaps' = snaps /\ due' = due /\ link' = link
      /\ job' = job /\ res' = res /\ page' = page /\ d \in batch.todo /\ busy[d] = "calibration"
      /\ batch' = Without(d)
  BY DEF IInv, Shape, EndCalibration
<1>2. cfg' \in [Devices -> Profiles] /\ \A e \in Devices \ {d} : cfg'[e] = cfg[e]
  <2>1. CASE cfg' = Learned(d)
    BY <1>1, <2>1, LearnedShape
  <2>2. CASE cfg' = cfg
    BY <1>1, <2>2 DEF TypeOK
  <2>3. QED
    BY <2>1, <2>2 DEF EndCalibration
<1>3. rev' = [rev EXCEPT ![d] = rev[d] + 1] /\ busy' = [busy EXCEPT ![d] = None]
  BY DEF EndCalibration, Unlocked
<1>4. rev'[d] = rev[d] + 1 /\ busy'[d] = None /\ \A e \in Devices \ {d} : busy'[e] = busy[e] /\ rev'[e] = rev[e]
  BY <1>1, <1>3 DEF TypeOK
<1>5. /\ batch' \in [members : SUBSET Devices, todo : SUBSET Devices] /\ batch'.todo \subseteq batch'.members
      /\ batch'.todo = batch.todo \ {d} /\ batch'.members \subseteq batch.members
  BY <1>1, WithoutShape
<1>6. TypeOK'
  <2>1. rev' \in [Devices -> Nat] /\ busy' \in [Devices -> {None, "read", "apply", "calibration"}]
    BY <1>1, <1>3 DEF TypeOK
  <2>2. QED
    BY <1>1, <1>2, <1>5, <2>1 DEF TypeOK
<1>7. ASSUME NEW e \in Devices \ {d} PROVE Same(e)
  BY <1>1, <1>2, <1>4 DEF Same, Calm, Ends
<1>8. MembersLeftAlone'
  BY <1>1, <1>5 DEF MembersLeftAlone, Members, Releasing
<1>9. /\ \A e \in Devices : due'[e] = due[e]
      /\ \A e \in Devices : busy[e] \in {"read", "apply"} => busy'[e] = busy[e]
      /\ \A e \in Devices : busy'[e] = "calibration" => e \in batch'.todo
  BY <1>1, <1>4, <1>5, ServiceAssumption DEF LockInv
<1>10. \A e \in Devices : \/ rev'[e] = rev[e] /\ Same(e)
                          \/ rev'[e] = rev[e] + 1 /\ busy[e] = "calibration"
  BY <1>1, <1>4, <1>7
<1>11. QED
  BY <1>1, <1>6, <1>8, <1>9, <1>10, OutsideStep

\* Nothing is promised of a sensor whose calibration was given up and that learns on.
LEMMA LateLearningStep ==
  ASSUME IInv, NEW d \in Devices, LateLearning(d)
  PROVE  IInv'
<1>1. /\ TypeOK /\ LockInv /\ MembersLeftAlone
      /\ rev' = rev /\ busy' = busy /\ batch' = batch /\ oplock' = oplock /\ snaps' = snaps /\ due' = due
      /\ link' = link /\ job' = job /\ res' = res /\ page' = page
  BY DEF IInv, Shape, LateLearning
<1>2. cfg' = Learned(d) /\ ~Calm(d)
  BY DEF LateLearning, Calm
<1>3. cfg' \in [Devices -> Profiles] /\ \A e \in Devices \ {d} : cfg'[e] = cfg[e]
  BY <1>1, <1>2, LearnedShape
<1>4. TypeOK'
  BY <1>1, <1>3 DEF TypeOK
<1>5. ASSUME NEW e \in Devices PROVE Same(e)
  BY <1>1, <1>2, <1>3 DEF Same, Calm, Ends
<1>6. MembersLeftAlone'
  BY <1>1 DEF MembersLeftAlone, Members, Releasing
<1>7. /\ \A e \in Devices : rev'[e] = rev[e] /\ busy'[e] = busy[e] /\ due'[e] = due[e]
      /\ \A e \in Devices : busy'[e] = "calibration" => e \in batch'.todo
  BY <1>1 DEF LockInv
<1>8. QED
  BY <1>1, <1>4, <1>5, <1>6, <1>7, OutsideStep

LEMMA CreateBatchStep ==
  ASSUME IInv, NEW ds \in SUBSET Devices, CreateBatch(ds)
  PROVE  IInv'
<1>1. /\ TypeOK /\ LockInv /\ MembersLeftAlone /\ oplock' = oplock /\ job' = job /\ link' = link
      /\ UNCHANGED <<cfg, due, snaps, busy, rev, job, res, page>>
      /\ batch' = [members |-> ds, todo |-> ds] /\ batch.members = {} /\ oplock = None
  BY DEF IInv, Shape, CreateBatch, sensors
<1>2. TypeOK'
  BY <1>1 DEF TypeOK
<1>3. \A d \in Devices : busy[d] # "calibration"
  BY <1>1 DEF LockInv, TypeOK
<1>4. MembersLeftAlone'
  <2>1. \A d \in ds : d \notin Members
    BY DEF CreateBatch, CheckTargets
  <2>2. Members' = Members /\ Releasing' = {} /\ batch'.members = ds
    BY <1>1 DEF Members, Releasing
  <2>3. QED
    BY <2>1, <2>2 DEF MembersLeftAlone
<1>5. QED
  BY <1>1, <1>2, <1>3, <1>4, QuietStep

LEMMA ReleaseStep ==
  ASSUME IInv, NEW ds \in SUBSET Devices, Release(ds)
  PROVE  IInv'
<1>1. /\ TypeOK /\ LockInv /\ MembersLeftAlone /\ batch' = batch /\ job' = job /\ link' = link
      /\ UNCHANGED <<cfg, due, snaps, busy, rev, job, res, page>> /\ oplock' = ds
  BY DEF IInv, Shape, Release, sensors
<1>2. TypeOK' /\ \A d \in Devices : busy[d] = "calibration" => d \in batch'.todo
  BY <1>1 DEF TypeOK, LockInv
<1>3. MembersLeftAlone'
  <2>1. \A d \in ds : d \notin batch.members /\ d \notin Members
    BY DEF Release
  <2>2. Members' = Members /\ Releasing' \subseteq ds
    BY <1>1 DEF Members, Releasing
  <2>3. QED
    BY <1>1, <2>1, <2>2 DEF MembersLeftAlone
<1>4. QED
  BY <1>1, <1>2, <1>3, QuietStep

LEMMA ReleaseAllStep ==
  ASSUME IInv, ReleaseAll
  PROVE  IInv'
<1>1. /\ TypeOK /\ LockInv /\ batch' = batch /\ job' = job /\ link' = link
      /\ UNCHANGED <<cfg, due, snaps, busy, rev, job, res, page>>
      /\ batch.members = {} /\ ~job.run /\ oplock' = {d \in Devices : link[d] # "gone"}
  BY DEF IInv, Shape, ReleaseAll, sensors
<1>2. TypeOK' /\ \A d \in Devices : busy[d] = "calibration" => d \in batch'.todo
  BY <1>1 DEF TypeOK, LockInv
<1>3. MembersLeftAlone'
  BY <1>1 DEF MembersLeftAlone, Members
<1>4. QED
  BY <1>1, <1>2, <1>3, QuietStep

LEMMA ReleasedStep ==
  ASSUME IInv, Released
  PROVE  IInv'
<1>1. /\ TypeOK /\ LockInv /\ MembersLeftAlone
      /\ rev' = rev /\ busy' = busy /\ batch' = batch /\ oplock' = None /\ snaps' = snaps /\ due' = due
      /\ job' = job /\ res' = res /\ page' = page
  BY DEF IInv, Shape, Released
<1>2. /\ cfg' = [d \in Devices |-> IF d \in oplock THEN [cfg[d] EXCEPT !.m = "radar"] ELSE cfg[d]]
      /\ link' = [d \in Devices |-> IF d \in oplock THEN "gone" ELSE link[d]]
  BY DEF Released
<1>3. ASSUME NEW d \in Devices
      PROVE  /\ cfg'[d] \in Profiles /\ cfg'[d].s = cfg[d].s /\ cfg'[d].t = cfg[d].t
             /\ cfg'[d].m = cfg[d].m \/ cfg'[d].m = "radar"
  BY <1>1, <1>2 DEF TypeOK, Profiles, Modes
<1>4. TypeOK'
  <2>1. cfg' \in [Devices -> Profiles] /\ link' \in [Devices -> {"up", "down", "gone"}]
    BY <1>1, <1>2, <1>3 DEF TypeOK
  <2>2. QED
    BY <1>1, <2>1 DEF TypeOK
<1>5. ASSUME NEW d \in Devices PROVE Same(d)
  BY <1>1, <1>3 DEF Same, Calm, Ends
<1>6. MembersLeftAlone'
  BY <1>1 DEF MembersLeftAlone, Members, Releasing
<1>7. /\ \A e \in Devices : rev'[e] = rev[e] /\ busy'[e] = busy[e] /\ due'[e] = due[e]
      /\ \A e \in Devices : busy'[e] = "calibration" => e \in batch'.todo
  BY <1>1 DEF LockInv
<1>8. QED
  BY <1>1, <1>4, <1>5, <1>6, <1>7, OutsideStep

-----------------------------------------------------------------------------
(* The steps of the job *)

LEMMA JobStep ==
  ASSUME IInv, TypeOK', JobShape', JobInv', UNCHANGED <<page, batch, oplock>>,
         job'.run => job.run /\ job'.targets = job.targets,
         \A d \in Devices : Steady(d),
         \A d \in Devices : \/ busy'[d] = busy[d]
                            \/ busy[d] \in {None, "apply"} /\ busy'[d] \in {None, "apply"},
         \A d \in Devices : busy[d] = "read" => rev'[d] = rev[d],
         PromiseInv', AppliedInv', HeldInv', ResultInv'
  PROVE  IInv'
<1>1. LockInv /\ MembersLeftAlone /\ page' = page /\ batch' = batch /\ oplock' = oplock
  BY DEF IInv
<1>2. Shape' /\ LockInv' /\ \A c \in Clients : PageInv(page[c])'
  <2>1. page' = [c \in Clients |-> page'[c]] /\ \A c \in Clients : page'[c] = page[c] \/ page'[c] = NoPage
    BY <1>1 DEF IInv, Shape
  <2>2. \A d \in Devices : busy[d] = "read" => rev'[d] = rev[d] /\ busy'[d] = "read"
    BY ServiceAssumption
  <2>3. \A d \in Devices : busy'[d] = "calibration" => d \in batch'.todo
    BY <1>1, ServiceAssumption DEF LockInv
  <2>4. QED
    BY <2>1, <2>2, <2>3, PagesStay
<1>3. MembersLeftAlone'
  BY <1>1 DEF MembersLeftAlone, Members, Releasing
<1>4. QED
  BY <1>2, <1>3 DEF IInv

LEMMA ResultKept ==
  ASSUME TypeOK, ResultInv, JobInv', NEW d \in DOMAIN res, Steady(d), d \notin job'.left,
         NEW r, r = res[d]
  PROVE  /\ d \in Devices /\ r.rev \in Nat /\ r.rev <= rev'[d]
         /\ rev'[d] = r.rev /\ DOMAIN r.values # {} => Holds(d, r.values)'
<1>1. /\ d \in Devices /\ d \notin job.left /\ r.rev \in Nat /\ r.rev <= rev[d]
      /\ rev[d] = r.rev /\ DOMAIN r.values # {} => Holds(d, r.values)
  BY DEF ResultInv
<1>2. rev[d] \in Nat /\ rev'[d] \in Nat /\ rev[d] <= rev'[d]
  BY <1>1 DEF Steady
<1>3. ~Writing(d)'
  BY <1>1, ServiceAssumption DEF Writing, JobInv
<1>4. ASSUME rev'[d] = r.rev, DOMAIN r.values # {} PROVE Holds(d, r.values)'
  <2>1. rev[d] = r.rev /\ rev'[d] = rev[d]
    BY <1>1, <1>2, <1>4
  <2>2. Holds(d, r.values) /\ Same(d)
    BY <1>1, <1>3, <1>4, <2>1 DEF Steady
  <2>3. QED
    BY <2>2 DEF Holds, Same
<1>5. QED
  BY <1>1, <1>2, <1>4

\* An item ends: what it says is true now, or its snapshot moves the config_rev.
LEMMA FinishStep ==
  ASSUME IInv, NEW d \in Devices, d = job.at, NEW status, NEW snap \in Nat,
         Finish(d, status, snap), Unlocked(d), UNCHANGED <<cfg, due, snaps, link, batch, oplock, page>>,
         snap = 0 => job.pc = "read",
         status = "verified" /\ cfg[d].m # "learning" =>
           \A x \in job.applied : /\ x = "s" => job.target.s = cfg[d].s
                                  /\ x = "m" => job.target.m = "radar"
                                  /\ x = "t" => job.target.t = Ends(d)
  PROVE  IInv'
<1>1. /\ Shape /\ TypeOK /\ JobShape /\ JobInv /\ PromiseInv /\ ResultInv
      /\ cfg' = cfg /\ due' = due /\ snaps' = snaps /\ link' = link /\ batch' = batch /\ oplock' = oplock
  BY DEF IInv, Shape
<1>2. d \in job.left /\ busy[d] = "apply" /\ job.run /\ job.at # None
  BY <1>1, ServiceAssumption DEF JobInv
<1>3. PICK moved \in {0, 1} : moved = IF snap = 0 THEN 0 ELSE 1
  OBVIOUS
<1>4. rev' = [rev EXCEPT ![d] = rev[d] + moved]
  BY <1>3 DEF Finish
<1>5. busy' = [busy EXCEPT ![d] = None] /\ busy'[d] = None /\ \A e \in Devices \ {d} : busy'[e] = busy[e]
  BY <1>1 DEF Unlocked, TypeOK
<1>6. rev[d] \in Nat /\ rev'[d] = rev[d] + moved /\ \A e \in Devices \ {d} : rev'[e] = rev[e]
  BY <1>1, <1>4 DEF TypeOK
<1>7. TypeOK'
  <2>1. rev' \in [Devices -> Nat] /\ busy' \in [Devices -> {None, "read", "apply", "calibration"}]
    BY <1>1, <1>3, <1>4, <1>5 DEF TypeOK
  <2>2. QED
    BY <1>1, <2>1 DEF TypeOK
<1>8. job' = [run |-> TRUE, kind |-> job.kind, targets |-> job.targets, left |-> job.left \ {d},
              what |-> job.what, at |-> None, pc |-> "next", target |-> None, todo |-> {}, applied |-> {},
              held |-> None, shown |-> job.shown]
  <2>1. PICK j : j = [NoJob EXCEPT !.run = TRUE, !.kind = job.kind, !.targets = job.targets,
                        !.left = job.left \ {d}, !.what = job.what, !.shown = job.shown]
    OBVIOUS
  <2>2. job' = j
    BY <2>1 DEF Finish
  <2>3. j = [run |-> TRUE, kind |-> job.kind, targets |-> job.targets, left |-> job.left \ {d},
             what |-> job.what, at |-> None, pc |-> "next", target |-> None, todo |-> {}, applied |-> {},
             held |-> None, shown |-> job.shown]
    BY <2>1 DEF NoJob
  <2>4. QED
    BY <2>2, <2>3
<1>9. JobShape'
  BY <1>1, <1>2, <1>8 DEF JobShape, Stages
<1>10. JobInv'
  BY <1>1, <1>8 DEF JobInv
<1>11. ASSUME NEW e \in Devices PROVE Steady(e)
  <2>1. ~Writing(e)'
    BY <1>8, ServiceAssumption DEF Writing
  <2>2. CASE e # d
    <3>1. rev[e] \in Nat /\ rev'[e] = rev[e] /\ ~Writing(e)
      BY <1>1, <1>6, <2>2 DEF TypeOK, Writing
    <3>2. Same(e)
      BY <1>1, <1>5, <2>2 DEF Same, Calm, Ends
    <3>3. QED
      BY <3>1, <3>2 DEF Steady
  <2>3. CASE e = d
    <3>1. rev[d] \in Nat /\ rev'[d] \in Nat /\ rev[d] <= rev'[d]
      BY <1>6
    <3>2. ASSUME rev'[d] = rev[d] PROVE ~Writing(d) /\ Same(d)
      <4>1. snap = 0
        BY <1>3, <1>6, <3>2
      <4>2. job.pc = "read"
        BY <4>1
      <4>3. ~Writing(d)
        BY <4>2 DEF Writing
      <4>4. Calm(d) => cfg[d].m # "learning"
        BY <1>2 DEF Calm
      <4>5. QED
        BY <1>1, <4>3, <4>4 DEF Same, Calm, Ends
    <3>3. QED
      BY <2>3, <3>1, <3>2 DEF Steady
  <2>4. QED
    BY <2>2, <2>3
<1>12. PromiseInv'
  <2>1. ASSUME NEW e \in DOMAIN job.shown, job.shown[e].settled, e \in job.left, e # d
        PROVE  Calm(e)' /\ due'[e] = <<>> /\ job.shown[e].target = Resolve(job.what[e], cfg'[e])
    <3>1. e \in Devices /\ job.at # e
      BY <1>1, <2>1 DEF JobShape
    <3>2. Calm(e) /\ due[e] = <<>> /\ job.shown[e].target = Resolve(job.what[e], cfg[e])
      BY <1>1, <2>1, <3>1 DEF PromiseInv
    <3>3. busy'[e] = busy[e]
      BY <1>5, <2>1, <3>1
    <3>4. QED
      BY <1>1, <3>2, <3>3 DEF Calm
  <2>2. job'.shown = job.shown /\ job'.what = job.what /\ job'.pc = "next" /\ job'.left = job.left \ {d}
    BY <1>8
  <2>3. QED
    BY <2>1, <2>2 DEF PromiseInv
<1>13. AppliedInv' /\ HeldInv'
  BY <1>8 DEF AppliedInv, HeldInv
<1>14. PICK values : values = IF status = "verified" /\ cfg[d].m # "learning"
                              THEN [x \in job.applied |-> job.target[x]] ELSE <<>>
  OBVIOUS
<1>15. res' = With(res, d, [status |-> status, rev |-> rev'[d], values |-> values])
  BY <1>14 DEF Finish
<1>16. /\ DOMAIN res' = DOMAIN res \cup {d}
       /\ res'[d] = [status |-> status, rev |-> rev'[d], values |-> values]
       /\ \A e \in DOMAIN res \ {d} : res'[e] = res[e]
  BY <1>15 DEF With
<1>17. DOMAIN values # {} => Holds(d, values)'
  <2>1. ASSUME DOMAIN values # {} PROVE Holds(d, values)'
    <3>1. status = "verified" /\ cfg[d].m # "learning" /\ values = [x \in job.applied |-> job.target[x]]
      <4>1. values # <<>>
        BY <2>1
      <4>2. QED
        BY <1>14, <4>1
    <3>2. DOMAIN values = job.applied /\ job.applied \subseteq Sections
      BY <1>1, <3>1 DEF JobShape
    <3>3. /\ "s" \in job.applied => values["s"] = cfg[d].s
          /\ "m" \in job.applied => values["m"] = "radar"
          /\ "t" \in job.applied => values["t"] = Ends(d)
      BY <3>1
    <3>4. Calm(d)' /\ Ends(d)' = Ends(d)
      BY <1>1, <3>1 DEF Calm, Ends
    <3>5. QED
      BY <1>1, <3>2, <3>3, <3>4 DEF Holds
  <2>2. QED
    BY <2>1
<1>18. ResultInv'
  <2> SUFFICES ASSUME NEW e \in DOMAIN res'
               PROVE  /\ e \in Devices /\ e \notin job'.left
                      /\ res'[e].rev \in Nat /\ res'[e].rev <= rev'[e]
                      /\ rev'[e] = res'[e].rev /\ DOMAIN res'[e].values # {} => Holds(e, res[e].values)'
    BY DEF ResultInv
  <2>1. PICK r : r = res'[e]
    OBVIOUS
  <2>2. /\ e \in Devices /\ e \notin job'.left /\ r.rev \in Nat /\ r.rev <= rev'[e]
        /\ rev'[e] = r.rev /\ DOMAIN r.values # {} => Holds(e, r.values)'
    <3>1. CASE e = d
      <4>1. r.rev = rev'[d] /\ r.values = values
        BY <1>16, <2>1, <3>1
      <4>2. rev'[d] \in Nat /\ d \notin job'.left
        BY <1>6, <1>8
      <4>3. QED
        BY <1>17, <3>1, <4>1, <4>2
    <3>2. CASE e # d
      <4>1. e \in DOMAIN res /\ r = res[e]
        BY <1>16, <2>1, <3>2
      <4>2. e \in Devices /\ e \notin job'.left
        BY <1>1, <1>8, <4>1 DEF ResultInv
      <4>3. QED
        BY <1>1, <1>10, <1>11, <4>1, <4>2, ResultKept
    <3>3. QED
      BY <3>1, <3>2
  <2>3. QED
    BY <2>1, <2>2 DEF Holds
<1>19. QED
  <2>1. \A e \in Devices : \/ busy'[e] = busy[e]
                           \/ busy[e] \in {None, "apply"} /\ busy'[e] \in {None, "apply"}
    BY <1>2, <1>5
  <2>2. \A e \in Devices : busy[e] = "read" => rev'[e] = rev[e]
    BY <1>2, <1>6
  <2>3. job'.run => job.run /\ job'.targets = job.targets
    BY <1>2, <1>8
  <2>4. QED
    BY <1>1, <1>7, <1>9, <1>10, <1>11, <1>12, <1>13, <1>18, <2>1, <2>2, <2>3, JobStep

LEMMA RefuseItemStep ==
  ASSUME IInv, NEW d \in Devices, RefuseItem(d)
  PROVE  IInv'
<1>1. /\ Shape /\ TypeOK /\ JobShape /\ JobInv /\ PromiseInv /\ ResultInv /\ LockInv
      /\ cfg' = cfg /\ due' = due /\ snaps' = snaps /\ link' = link /\ batch' = batch /\ oplock' = oplock
      /\ page' = page /\ busy' = busy /\ rev' = rev
      /\ job.run /\ job.pc = "next" /\ d \in job.left
  BY DEF IInv, Shape, RefuseItem, sensors
<1>2. job' = [job EXCEPT !.left = job.left \ {d}]
  BY DEF RefuseItem
<1>3. job' = [run |-> TRUE, kind |-> job.kind, targets |-> job.targets, left |-> job.left \ {d},
              what |-> job.what, at |-> None, pc |-> "next", target |-> job.target, todo |-> job.todo,
              applied |-> job.applied, held |-> job.held, shown |-> job.shown]
  <2>1. job.at = None
    BY <1>1 DEF JobInv
  <2>2. QED
    BY <1>1, <1>2, <2>1 DEF JobShape
<1>4. TypeOK' /\ JobShape' /\ JobInv'
  <2>1. TypeOK'
    BY <1>1 DEF TypeOK
  <2>2. JobShape'
    BY <1>1, <1>3 DEF JobShape, Stages
  <2>3. JobInv'
    BY <1>1, <1>3 DEF JobInv
  <2>4. QED
    BY <2>1, <2>2, <2>3
<1>5. ASSUME NEW e \in Devices PROVE Steady(e)
  <2>1. Writing(e)' <=> Writing(e)
    BY <1>1, <1>3 DEF Writing
  <2>2. QED
    BY <1>1, <2>1 DEF Steady, Same, Calm, Ends, TypeOK
<1>6. PromiseInv' /\ AppliedInv' /\ HeldInv'
  <2>1. \A e \in DOMAIN job.shown : e \in Devices /\ (Calm(e) => Calm(e)')
    BY <1>1 DEF JobShape, Calm
  <2>2. PromiseInv'
    BY <1>1, <1>3, <2>1, ServiceAssumption DEF PromiseInv, JobInv
  <2>3. QED
    BY <1>3, <2>2 DEF AppliedInv, HeldInv
<1>7. /\ DOMAIN res' = DOMAIN res \cup {d} /\ res'[d] = NoResult
      /\ \A e \in DOMAIN res \ {d} : res'[e] = res[e]
  BY DEF RefuseItem, With
<1>8. ResultInv'
  <2> SUFFICES ASSUME NEW e \in DOMAIN res'
               PROVE  /\ e \in Devices /\ e \notin job'.left
                      /\ res'[e].rev \in Nat /\ res'[e].rev <= rev'[e]
                      /\ rev'[e] = res'[e].rev /\ DOMAIN res'[e].values # {} => Holds(e, res[e].values)'
    BY DEF ResultInv
  <2>1. PICK r : r = res'[e]
    OBVIOUS
  <2>2. /\ e \in Devices /\ e \notin job'.left /\ r.rev \in Nat /\ r.rev <= rev'[e]
        /\ rev'[e] = r.rev /\ DOMAIN r.values # {} => Holds(e, r.values)'
    <3>1. CASE e = d
      <4>1. r.rev = 0 /\ DOMAIN r.values = {}
        BY <1>7, <2>1, <3>1 DEF NoResult
      <4>2. rev'[d] \in Nat /\ d \notin job'.left
        BY <1>1, <1>3 DEF TypeOK
      <4>3. QED
        BY <3>1, <4>1, <4>2
    <3>2. CASE e # d
      <4>1. e \in DOMAIN res /\ r = res[e]
        BY <1>7, <2>1, <3>2
      <4>2. e \in Devices /\ e \notin job'.left
        BY <1>1, <1>3, <4>1 DEF ResultInv
      <4>3. QED
        BY <1>1, <1>4, <1>5, <4>1, <4>2, ResultKept
    <3>3. QED
      BY <3>1, <3>2
  <2>3. QED
    BY <2>1, <2>2 DEF Holds
<1>9. job'.targets = job.targets
  BY <1>3
<1>10. QED
  BY <1>1, <1>4, <1>5, <1>6, <1>8, <1>9, JobStep

LEMMA JobDoneStep ==
  ASSUME IInv, JobDone
  PROVE  IInv'
<1>1. /\ Shape /\ TypeOK /\ JobShape /\ JobInv /\ ResultInv
      /\ cfg' = cfg /\ due' = due /\ snaps' = snaps /\ link' = link /\ batch' = batch /\ oplock' = oplock
      /\ page' = page /\ busy' = busy /\ rev' = rev /\ res' = res /\ job.pc = "next"
  BY DEF IInv, Shape, JobDone, sensors
<1>2. job' = [run |-> FALSE, kind |-> "apply", targets |-> {}, left |-> {}, what |-> <<>>,
              at |-> None, pc |-> "next", target |-> None, todo |-> {}, applied |-> {},
              held |-> None, shown |-> <<>>]
  BY DEF JobDone, NoJob
<1>3. TypeOK'
  BY <1>1 DEF TypeOK
<1>4. JobShape'
  <2>1. DOMAIN job'.shown = {}
    BY <1>2
  <2>2. QED
    BY <1>2, <2>1 DEF JobShape, Stages
<1>5. JobInv' /\ AppliedInv' /\ HeldInv'
  BY <1>2 DEF JobInv, AppliedInv, HeldInv
<1>6. PromiseInv'
  BY <1>2 DEF PromiseInv
<1>7. ASSUME NEW e \in Devices PROVE Steady(e)
  <2>1. ~Writing(e) /\ ~Writing(e)'
    BY <1>1, <1>2 DEF Writing
  <2>2. QED
    BY <1>1, <2>1 DEF Steady, Same, Calm, Ends, TypeOK
<1>8. ResultInv'
  <2>1. \A d \in DOMAIN res : d \notin job'.left
    BY <1>2
  <2>2. QED
    BY <1>1, <1>5, <1>7, <2>1, ResultsStay
<1>9. ~job'.run
  BY <1>2
<1>10. QED
  BY <1>1, <1>3, <1>4, <1>5, <1>6, <1>7, <1>8, <1>9, JobStep

LEMMA TakeItemStep ==
  ASSUME IInv, NEW d \in Devices, TakeItem(d)
  PROVE  IInv'
<1>1. /\ Shape /\ TypeOK /\ JobShape /\ JobInv /\ PromiseInv /\ ResultInv
      /\ cfg' = cfg /\ due' = due /\ snaps' = snaps /\ link' = link /\ batch' = batch /\ oplock' = oplock
      /\ page' = page /\ rev' = rev /\ res' = res
      /\ job.run /\ job.pc = "next" /\ d \in job.left /\ busy[d] = None /\ job.at = None
  BY DEF IInv, Shape, TakeItem, sensors, Free, JobInv
<1>2. PICK settled \in BOOLEAN : settled = Settled(d)
  BY DEF Settled
<1>3. PICK held : held = [profile |-> cfg[d], settled |-> settled]
  OBVIOUS
<1>4. job' = [job EXCEPT !.at = d, !.pc = "read", !.target = None, !.applied = {}, !.todo = {}, !.held = held]
  BY <1>2, <1>3 DEF TakeItem
<1>5. job' = [run |-> TRUE, kind |-> job.kind, targets |-> job.targets, left |-> job.left,
              what |-> job.what, at |-> d, pc |-> "read", target |-> None, todo |-> {}, applied |-> {},
              held |-> held, shown |-> job.shown]
  BY <1>1, <1>4 DEF JobShape
<1>6. busy' = [e \in Devices |-> IF e \in {d} THEN "apply" ELSE busy[e]]
  BY DEF TakeItem, Locked
<1>7. busy'[d] = "apply" /\ \A e \in Devices \ {d} : busy'[e] = busy[e]
  BY <1>6
<1>8. TypeOK'
  <2>1. busy' \in [Devices -> {None, "read", "apply", "calibration"}]
    BY <1>1, <1>6 DEF TypeOK
  <2>2. QED
    BY <1>1, <2>1 DEF TypeOK
<1>9. JobShape'
  BY <1>1, <1>5 DEF JobShape, Stages
<1>10. JobInv'
  BY <1>1, <1>5, <1>7, ServiceAssumption DEF JobInv
<1>11. \A e \in Devices : Calm(e) => Calm(e)'
  BY <1>1, <1>7, ServiceAssumption DEF Calm
<1>12. ASSUME NEW e \in Devices PROVE Steady(e)
  <2>1. ~Writing(e) /\ ~Writing(e)'
    BY <1>1, <1>5 DEF Writing
  <2>2. Same(e)
    BY <1>1, <1>11 DEF Same, Ends
  <2>3. QED
    BY <1>1, <2>1, <2>2 DEF Steady, TypeOK
<1>13. PromiseInv'
  <2>1. ASSUME NEW e \in DOMAIN job.shown, job.shown[e].settled, e \in job.left
        PROVE  Calm(e)' /\ due'[e] = <<>> /\ job.shown[e].target = Resolve(job.what[e], cfg'[e])
    <3>1. e \in Devices /\ job.at # e
      BY <1>1, ServiceAssumption DEF JobShape
    <3>2. Calm(e) /\ due[e] = <<>> /\ job.shown[e].target = Resolve(job.what[e], cfg[e])
      BY <1>1, <2>1, <3>1 DEF PromiseInv
    <3>3. QED
      BY <1>1, <1>11, <3>1, <3>2
  <2>2. job'.shown = job.shown /\ job'.what = job.what /\ job'.pc = "read" /\ job'.left = job.left
    BY <1>5
  <2>3. QED
    BY <2>1, <2>2 DEF PromiseInv
<1>14. AppliedInv'
  BY <1>5 DEF AppliedInv
<1>15. HeldInv'
  <2>1. cfg[d] \in Profiles
    BY <1>1 DEF TypeOK
  <2>2. held \in [profile : Profiles, settled : BOOLEAN] /\ held.profile = cfg[d] /\ held.settled = settled
    BY <1>3, <2>1
  <2>3. settled => due[d] = <<>> /\ cfg[d].m = "radar"
    BY <1>2, <2>1 DEF Settled, Profiles, Modes
  <2>4. job'.at = d /\ job'.pc = "read" /\ job'.held = held
    BY <1>5
  <2>5. QED
    BY <1>1, <2>2, <2>3, <2>4 DEF HeldInv
<1>16. ResultInv'
  <2>1. \A e \in DOMAIN res : e \notin job'.left
    BY <1>1, <1>5 DEF ResultInv
  <2>2. QED
    BY <1>1, <1>10, <1>12, <2>1, ResultsStay
<1>17. job'.targets = job.targets
  BY <1>5
<1>18. /\ \A e \in Devices : \/ busy'[e] = busy[e]
                             \/ busy[e] \in {None, "apply"} /\ busy'[e] \in {None, "apply"}
       /\ \A e \in Devices : rev'[e] = rev[e]
  BY <1>1, <1>7
<1>19. QED
  BY <1>1, <1>8, <1>9, <1>10, <1>12, <1>13, <1>14, <1>15, <1>16, <1>17, <1>18, JobStep

LEMMA Appended ==
  ASSUME NEW S, NEW s \in Seq(S), NEW e \in S
  PROVE  Append(s, e) \in Seq(S) /\ Append(s, e) # <<>> /\ Last(Append(s, e)) = e
<1>1. /\ Append(s, e) \in Seq(S) /\ Len(s) \in Nat /\ Len(Append(s, e)) = Len(s) + 1
      /\ Append(s, e)[Len(s) + 1] = e
  OBVIOUS
<1>2. Append(s, e) # <<>>
  BY <1>1, EmptySeq
<1>3. QED
  BY <1>1, <1>2 DEF Last

\* The snapshot is made of what the sensor shows, and what is written is what the page was shown.
LEMMA ReadCurrentStep ==
  ASSUME IInv, ReadCurrent
  PROVE  IInv'
<1>1. /\ Shape /\ TypeOK /\ JobShape /\ JobInv /\ PromiseInv /\ HeldInv /\ ResultInv
      /\ cfg' = cfg /\ due' = due /\ busy' = busy /\ link' = link /\ batch' = batch /\ oplock' = oplock
      /\ page' = page /\ rev' = rev /\ res' = res /\ job.pc = "read"
  BY DEF IInv, Shape, ReadCurrent
<1>2. PICK d \in Devices : d = job.at
  BY <1>1 DEF JobInv, JobShape
<1>3. d \in job.left /\ busy[d] = "apply" /\ job.run /\ job.at # None /\ d \in job.targets
  BY <1>1, <1>2, ServiceAssumption DEF JobInv
<1>4. PICK target : target = Resolve(job.what[d], cfg[d])
  OBVIOUS
<1>5. cfg[d] \in Profiles /\ job.what[d] \in Changes
  BY <1>1, <1>3 DEF TypeOK, JobShape
<1>6. target \in [sec : SUBSET Sections, s : Nat, m : Modes, t : Int]
  BY <1>4, <1>5, ServiceAssumption DEF Resolve, Changes, Profiles
<1>7. InRange(target)
  BY <1>2, <1>4 DEF ReadCurrent
<1>8. ToWrite(target) \subseteq Sections
  BY <1>6 DEF ToWrite
<1>9. PICK snap \in [profile : Profiles, sec : SUBSET Sections] : snap = [profile |-> cfg[d], sec |-> ToWrite(target)]
  BY <1>5, <1>8
<1>10. snaps' = [snaps EXCEPT ![d] = Append(snaps[d], snap)]
  BY <1>2, <1>4, <1>9 DEF ReadCurrent
<1>11. PICK pc \in {"verify", "write"} : pc = IF ToWrite(target) = {} THEN "verify" ELSE "write"
  OBVIOUS
<1>12. job' = [job EXCEPT !.pc = pc, !.target = target, !.todo = ToWrite(target)]
  BY <1>2, <1>4, <1>11 DEF ReadCurrent
<1>13. job.applied = {}
  BY <1>1 DEF JobInv
<1>14. job' = [run |-> TRUE, kind |-> job.kind, targets |-> job.targets, left |-> job.left,
               what |-> job.what, at |-> d, pc |-> pc, target |-> target, todo |-> ToWrite(target),
               applied |-> {}, held |-> job.held, shown |-> job.shown]
  BY <1>1, <1>2, <1>3, <1>12, <1>13 DEF JobShape
<1>15. snaps[d] \in Seq([profile : Profiles, sec : SUBSET Sections])
  BY <1>1 DEF TypeOK
<1>16. /\ Append(snaps[d], snap) \in Seq([profile : Profiles, sec : SUBSET Sections])
       /\ Append(snaps[d], snap) # <<>> /\ Last(Append(snaps[d], snap)) = snap
  <2>1. PICK Snaps : Snaps = [profile : Profiles, sec : SUBSET Sections]
    OBVIOUS
  <2>2. snap \in Snaps /\ snaps[d] \in Seq(Snaps)
    BY <1>15, <2>1
  <2>3. Append(snaps[d], snap) \in Seq(Snaps) /\ Append(snaps[d], snap) # <<>> /\ Last(Append(snaps[d], snap)) = snap
    BY <2>2, Appended
  <2>4. QED
    BY <2>1, <2>3
<1>17. snaps'[d] # <<>> /\ Last(snaps'[d]) = snap
  BY <1>1, <1>10, <1>16 DEF TypeOK
<1>18. TypeOK'
  <2>1. snaps' \in [Devices -> Seq([profile : Profiles, sec : SUBSET Sections])]
    BY <1>1, <1>10, <1>16 DEF TypeOK
  <2>2. QED
    BY <1>1, <2>1 DEF TypeOK
<1>19. JobShape'
  <2>1. PICK todo \in SUBSET Sections : todo = ToWrite(target)
    BY <1>8
  <2>2. /\ job.targets \in SUBSET Devices /\ job.left \in SUBSET Devices
        /\ \A e \in job.targets : job.what[e] \in Changes
        /\ DOMAIN job.shown \subseteq job.targets
    BY <1>1, <1>3 DEF JobShape
  <2>3. job' = [run |-> TRUE, kind |-> job.kind, targets |-> job.targets, left |-> job.left,
                what |-> job.what, at |-> d, pc |-> pc, target |-> target, todo |-> todo,
                applied |-> {}, held |-> job.held, shown |-> job.shown]
    BY <1>14, <2>1
  <2>4. QED
    BY <2>2, <2>3 DEF JobShape, Stages
<1>20. JobInv'
  BY <1>1, <1>3, <1>6, <1>7, <1>14, <1>17, ServiceAssumption DEF JobInv
<1>21. ASSUME NEW e \in Devices PROVE Steady(e)
  <2>1. ~Writing(e)
    BY <1>1 DEF Writing
  <2>2. Same(e)
    BY <1>1 DEF Same, Calm, Ends
  <2>3. QED
    BY <1>1, <2>1, <2>2 DEF Steady, TypeOK
<1>22. PromiseInv'
  <2>1. ASSUME NEW e \in DOMAIN job.shown, job.shown[e].settled, e \in job.left
        PROVE  /\ Calm(e)' /\ due'[e] = <<>> /\ job.shown[e].target = Resolve(job.what[e], cfg'[e])
               /\ e = d => target = job.shown[e].target
    <3>1. Calm(e) /\ due[e] = <<>> /\ job.shown[e].target = Resolve(job.what[e], cfg[e])
      BY <1>1, <2>1 DEF PromiseInv
    <3>2. QED
      BY <1>1, <1>4, <3>1 DEF Calm
  <2>2. job'.shown = job.shown /\ job'.what = job.what /\ job'.at = d /\ job'.left = job.left /\ job'.target = target
    BY <1>14
  <2>3. QED
    BY <1>3, <2>1, <2>2 DEF PromiseInv
<1>23. AppliedInv'
  BY <1>14 DEF AppliedInv
<1>24. HeldInv'
  <2>1. job.held \in [profile : Profiles, settled : BOOLEAN]
    BY <1>1, <1>3 DEF HeldInv
  <2>2. job.held.settled => /\ cfg[d].m = "radar" /\ job.held.profile.m = "radar"
                            /\ due[d] = <<>> /\ cfg[d] = job.held.profile
    BY <1>1, <1>2, <1>3 DEF HeldInv
  <2>3. snap.profile = cfg[d] /\ snap.sec = ToWrite(target)
    BY <1>9
  <2>4. job'.at = d /\ job'.pc # "read" /\ job'.held = job.held /\ job'.target = target
    BY <1>14
  <2>5. job.held.settled => Ends(d)' = job.held.profile.t
    BY <1>1, <2>2 DEF Ends
  <2>6. Ends(job.at)' = Ends(d)'
    BY <2>4 DEF Ends
  <2>7. QED
    BY <1>1, <1>17, <2>1, <2>2, <2>3, <2>4, <2>5, <2>6 DEF HeldInv
<1>25. ResultInv'
  <2>1. \A e \in DOMAIN res : e \notin job'.left
    BY <1>1, <1>14 DEF ResultInv
  <2>2. QED
    BY <1>1, <1>20, <1>21, <2>1, ResultsStay
<1>26. job'.targets = job.targets
  BY <1>14
<1>27. QED
  BY <1>1, <1>3, <1>18, <1>19, <1>20, <1>21, <1>22, <1>23, <1>24, <1>25, <1>26, JobStep

LEMMA ReadCurrentFailsStep ==
  ASSUME IInv, ReadCurrentFails
  PROVE  IInv'
<1>1. JobShape /\ JobInv /\ job.pc = "read"
  BY DEF IInv, Shape, ReadCurrentFails
<1>2. PICK d \in Devices : d = job.at
  BY <1>1 DEF JobInv, JobShape
<1>3. Finish(d, "failed", 0) /\ Unlocked(d) /\ UNCHANGED <<cfg, due, snaps, link, batch, oplock, page>>
  BY <1>2 DEF ReadCurrentFails, sensors
<1>4. QED
  BY <1>1, <1>2, <1>3, FinishStep

\* A write, whether it is acknowledged or not, changes a section that the snapshot names.
LEMMA EffectShape ==
  ASSUME TypeOK, JobInv, NEW d \in Devices, d = job.at, job.pc # "read", d # None, NEW x \in job.todo,
         x \in Sections, Effect(d, x, job.target[x]) \/ UNCHANGED <<cfg, due>>
  PROVE  /\ cfg' \in [Devices -> Profiles] /\ due' \in [Devices -> Seq(0..MaxT)]
         /\ \A e \in Devices \ {d} : cfg'[e] = cfg[e] /\ due'[e] = due[e]
         /\ cfg[d].m = "radar" => cfg'[d].m = "radar"
         /\ "s" \notin ToWrite(job.target) => cfg'[d].s = cfg[d].s
         /\ "t" \notin ToWrite(job.target) => Ends(d)' = Ends(d)
         /\ x # "t" => due' = due
         /\ Effect(d, x, job.target[x]) /\ x = "t" => due'[d] # <<>> /\ Last(due'[d]) = job.target.t
<1>1. /\ job.target \in [sec : SUBSET Sections, s : Nat, m : Modes, t : Int] /\ InRange(job.target)
      /\ x \in ToWrite(job.target)
  BY DEF JobInv
<1>2. /\ cfg \in [Devices -> Profiles] /\ due \in [Devices -> Seq(0..MaxT)]
      /\ cfg[d] \in Profiles /\ due[d] \in Seq(0..MaxT)
  BY DEF TypeOK
<1>3. CASE UNCHANGED <<cfg, due>> /\ ~Effect(d, x, job.target[x])
  BY <1>2, <1>3 DEF Ends
<1>4. CASE Effect(d, x, job.target[x]) /\ x = "t"
  <2>1. job.target.t \in 0..MaxT
    BY <1>1, <1>4 DEF InRange, ToWrite
  <2>2. due' = [due EXCEPT ![d] = Append(due[d], job.target.t)] /\ cfg' = cfg
    BY <1>4 DEF Effect
  <2>3. /\ Append(due[d], job.target.t) \in Seq(0..MaxT) /\ Append(due[d], job.target.t) # <<>>
        /\ Last(Append(due[d], job.target.t)) = job.target.t
    <3>1. PICK values : values = 0..MaxT
      OBVIOUS
    <3>2. due[d] \in Seq(values) /\ job.target.t \in values
      BY <1>2, <2>1, <3>1
    <3>3. QED
      BY <3>1, <3>2, Appended
  <2>4. due' \in [Devices -> Seq(0..MaxT)] /\ \A e \in Devices \ {d} : due'[e] = due[e]
    BY <1>2, <2>2, <2>3
  <2>5. due'[d] # <<>> /\ Last(due'[d]) = job.target.t
    BY <1>2, <2>2, <2>3
  <2>6. QED
    BY <1>1, <1>2, <1>4, <2>2, <2>4, <2>5
<1>5. CASE Effect(d, x, job.target[x]) /\ x = "s"
  <2>1. cfg' = [cfg EXCEPT ![d].s = job.target.s] /\ due' = due
    BY <1>5 DEF Effect
  <2>2. cfg'[d] \in Profiles /\ cfg'[d].m = cfg[d].m /\ cfg'[d].t = cfg[d].t
    BY <1>1, <1>2, <2>1 DEF Profiles
  <2>3. cfg' \in [Devices -> Profiles] /\ \A e \in Devices \ {d} : cfg'[e] = cfg[e]
    BY <1>2, <2>1, <2>2
  <2>4. Ends(d)' = Ends(d)
    BY <2>1, <2>2 DEF Ends
  <2>5. QED
    BY <1>1, <1>2, <1>5, <2>1, <2>2, <2>3, <2>4
<1>6. CASE Effect(d, x, job.target[x]) /\ x = "m"
  <2>1. cfg' = [cfg EXCEPT ![d].m = job.target.m] /\ due' = due
    BY <1>6 DEF Effect
  <2>2. job.target.m = "radar"
    BY <1>1, <1>6 DEF ToWrite, Modes
  <2>3. cfg'[d] \in Profiles /\ cfg'[d].m = "radar" /\ cfg'[d].s = cfg[d].s /\ cfg'[d].t = cfg[d].t
    BY <1>2, <2>1, <2>2 DEF Profiles, Modes
  <2>4. cfg' \in [Devices -> Profiles] /\ \A e \in Devices \ {d} : cfg'[e] = cfg[e]
    BY <1>2, <2>1, <2>3
  <2>5. Ends(d)' = Ends(d)
    BY <2>1, <2>3 DEF Ends
  <2>6. QED
    BY <1>2, <1>6, <2>1, <2>3, <2>4, <2>5
<1>7. QED
  BY <1>3, <1>4, <1>5, <1>6 DEF Sections

LEMMA NextIsLeft ==
  ASSUME job.todo # {}, job.todo \subseteq Sections
  PROVE  NextSection \in job.todo
<1>1. \E x \in job.todo : \A y \in job.todo : Order[x] <= Order[y]
  <2>1. CASE "s" \in job.todo
    BY <2>1 DEF Order, Sections
  <2>2. CASE "s" \notin job.todo /\ "m" \in job.todo
    BY <2>2 DEF Order, Sections
  <2>3. CASE "s" \notin job.todo /\ "m" \notin job.todo
    BY <2>3 DEF Order, Sections
  <2>4. QED
    BY <2>1, <2>2, <2>3
<1>2. QED
  BY <1>1 DEF NextSection

\* The job goes on with its writes.
LEMMA WriteStep ==
  ASSUME IInv, job.pc = "write", NEW x \in job.todo, Effect(job.at, x, job.target[x]) \/ UNCHANGED <<cfg, due>>,
         NEW pc \in {"write", "verify", "reread"}, NEW todo \in SUBSET job.todo,
         NEW applied \in SUBSET (job.applied \cup {x}),
         job' = [run |-> job.run, kind |-> job.kind, targets |-> job.targets, left |-> job.left,
                 what |-> job.what, at |-> job.at, pc |-> pc, target |-> job.target, todo |-> todo,
                 applied |-> applied, held |-> job.held, shown |-> job.shown],
         x = "t" /\ x \in applied => Effect(job.at, x, job.target[x]),
         UNCHANGED <<snaps, link, busy, rev, res, batch, oplock, page>>
  PROVE  IInv'
<1>1. /\ Shape /\ TypeOK /\ JobShape /\ JobInv /\ PromiseInv /\ HeldInv /\ ResultInv /\ AppliedInv
      /\ snaps' = snaps /\ busy' = busy /\ link' = link /\ batch' = batch /\ oplock' = oplock
      /\ page' = page /\ rev' = rev /\ res' = res
  BY DEF IInv, Shape
<1>2. PICK d \in Devices : d = job.at
  BY <1>1 DEF JobInv, JobShape
<1>3. d \in job.left /\ busy[d] = "apply" /\ job.run /\ d # None
  BY <1>1, <1>2, ServiceAssumption DEF JobInv
<1>4. x \in Sections /\ job.todo \subseteq Sections /\ job.applied \subseteq Sections
  BY <1>1 DEF JobShape
<1>5. /\ cfg' \in [Devices -> Profiles] /\ due' \in [Devices -> Seq(0..MaxT)]
      /\ \A e \in Devices \ {d} : cfg'[e] = cfg[e] /\ due'[e] = due[e]
      /\ cfg[d].m = "radar" => cfg'[d].m = "radar"
      /\ "s" \notin ToWrite(job.target) => cfg'[d].s = cfg[d].s
      /\ "t" \notin ToWrite(job.target) => Ends(d)' = Ends(d)
      /\ x # "t" => due' = due
      /\ Effect(d, x, job.target[x]) /\ x = "t" => due'[d] # <<>> /\ Last(due'[d]) = job.target.t
  BY <1>1, <1>2, <1>3, <1>4, EffectShape
<1>6. TypeOK'
  BY <1>1, <1>5 DEF TypeOK
<1>7. /\ job'.at = d /\ job'.pc = pc /\ job'.left = job.left /\ job'.targets = job.targets
      /\ job'.target = job.target /\ job'.held = job.held /\ job'.shown = job.shown /\ job'.what = job.what
      /\ job'.applied = applied /\ job'.todo = todo /\ job'.run = job.run /\ job.at = d
  BY <1>2
<1>8. JobShape'
  <2>1. /\ job.run \in BOOLEAN /\ job.targets \in SUBSET Devices /\ job.left \in SUBSET Devices
        /\ \A e \in job.targets : job.what[e] \in Changes
        /\ DOMAIN job.shown \subseteq job.targets /\ job.at \in Devices \cup {None}
        /\ todo \in SUBSET Sections /\ applied \in SUBSET Sections
    BY <1>1, <1>3, <1>4 DEF JobShape
  <2>2. QED
    BY <2>1 DEF JobShape, Stages
<1>9. JobInv'
  BY <1>1, <1>3, <1>7 DEF JobInv
<1>10. ASSUME NEW e \in Devices PROVE Steady(e)
  <2>1. CASE e = d
    <3>1. Writing(e) /\ Writing(e)'
      BY <1>7, <2>1 DEF Writing
    <3>2. QED
      BY <1>1, <3>1 DEF Steady, TypeOK
  <2>2. CASE e # d
    <3>1. ~Writing(e)
      BY <1>7, <2>2 DEF Writing
    <3>2. Same(e)
      BY <1>1, <1>5, <2>2 DEF Same, Calm, Ends
    <3>3. QED
      BY <1>1, <3>1, <3>2 DEF Steady, TypeOK
  <2>3. QED
    BY <2>1, <2>2
<1>11. PromiseInv'
  <2>1. ASSUME NEW e \in DOMAIN job.shown, job.shown[e].settled, e \in job.left, e # d
        PROVE  Calm(e)' /\ due'[e] = <<>> /\ job.shown[e].target = Resolve(job.what[e], cfg'[e])
    <3>1. e \in Devices /\ job.at # e
      BY <1>1, <1>7, <2>1 DEF JobShape
    <3>2. Calm(e) /\ due[e] = <<>> /\ job.shown[e].target = Resolve(job.what[e], cfg[e])
      BY <1>1, <2>1, <3>1 DEF PromiseInv
    <3>3. QED
      BY <1>1, <1>5, <2>1, <3>1, <3>2 DEF Calm
  <2>2. d \in DOMAIN job.shown /\ job.shown[d].settled => job.target = job.shown[d].target
    BY <1>1, <1>7 DEF PromiseInv
  <2>3. QED
    BY <1>7, <2>1, <2>2 DEF PromiseInv
<1>12. AppliedInv'
  <2>1. ASSUME "t" \in applied, due'[d] # <<>> PROVE Last(due'[d]) = job.target.t
    <3>1. CASE x = "t"
      BY <1>2, <1>5, <2>1, <3>1
    <3>2. CASE x # "t"
      <4>1. "t" \in job.applied /\ due' = due
        BY <1>5, <2>1, <3>2
      <4>2. QED
        BY <1>1, <1>3, <1>7, <2>1, <4>1 DEF AppliedInv
    <3>3. QED
      BY <3>1, <3>2
  <2>2. QED
    BY <1>7, <2>1 DEF AppliedInv
<1>13. HeldInv'
  <2>1. job.held \in [profile : Profiles, settled : BOOLEAN]
    BY <1>1, <1>2, <1>3 DEF HeldInv
  <2>2. job.held.settled =>
          /\ cfg[d].m = "radar" /\ job.held.profile.m = "radar"
          /\ Last(snaps[d]).profile = job.held.profile
          /\ Last(snaps[d]).sec = ToWrite(job.target)
          /\ "s" \notin ToWrite(job.target) => cfg[d].s = job.held.profile.s
          /\ "t" \notin ToWrite(job.target) => Ends(d) = job.held.profile.t
    BY <1>1, <1>2, <1>3 DEF HeldInv
  <2>3. job.held.settled =>
          /\ cfg'[d].m = "radar"
          /\ "s" \notin ToWrite(job.target) => cfg'[d].s = job.held.profile.s
          /\ "t" \notin ToWrite(job.target) => Ends(d)' = job.held.profile.t
    BY <1>5, <2>2
  <2>4. Ends(job.at)' = Ends(d)'
    BY <1>7 DEF Ends
  <2>5. QED
    BY <1>1, <1>7, <2>1, <2>2, <2>3, <2>4 DEF HeldInv
<1>14. ResultInv'
  <2>1. \A e \in DOMAIN res : e \notin job'.left
    BY <1>1, <1>7 DEF ResultInv
  <2>2. QED
    BY <1>1, <1>9, <1>10, <2>1, ResultsStay
<1>15. QED
  BY <1>1, <1>3, <1>6, <1>7, <1>8, <1>9, <1>10, <1>11, <1>12, <1>13, <1>14, JobStep

LEMMA WriteSectionStep ==
  ASSUME IInv, WriteSection
  PROVE  IInv'
<1>1. JobShape /\ JobInv /\ job.pc = "write" /\ job.todo # {} /\ job.todo \subseteq Sections
  BY DEF IInv, Shape, WriteSection, JobShape
<1>2. PICK x \in job.todo : x = NextSection
  BY <1>1, NextIsLeft
<1>3. PICK pc \in {"write", "verify"} : pc = IF job.todo = {x} THEN "verify" ELSE "write"
  OBVIOUS
<1>4. Effect(job.at, x, job.target[x])
  BY <1>2 DEF WriteSection
<1>5. job' = [job EXCEPT !.todo = job.todo \ {x}, !.applied = job.applied \cup {x}, !.pc = pc]
  BY <1>2, <1>3 DEF WriteSection
<1>6. job' = [run |-> job.run, kind |-> job.kind, targets |-> job.targets, left |-> job.left,
              what |-> job.what, at |-> job.at, pc |-> pc, target |-> job.target, todo |-> job.todo \ {x},
              applied |-> job.applied \cup {x}, held |-> job.held, shown |-> job.shown]
  BY <1>1, <1>5 DEF JobShape
<1>7. UNCHANGED <<snaps, link, busy, rev, res, batch, oplock, page>>
  BY DEF WriteSection
<1>8. job.todo \ {x} \in SUBSET job.todo /\ job.applied \cup {x} \in SUBSET (job.applied \cup {x})
  OBVIOUS
<1>9. QED
  BY <1>1, <1>3, <1>4, <1>6, <1>7, <1>8, WriteStep

LEMMA WriteFailsStep ==
  ASSUME IInv, WriteFails
  PROVE  IInv'
<1>1. JobShape /\ JobInv /\ job.pc = "write" /\ job.todo # {} /\ job.todo \subseteq Sections
  BY DEF IInv, Shape, WriteFails, JobShape
<1>2. PICK x \in job.todo : x = NextSection
  BY <1>1, NextIsLeft
<1>3. Effect(job.at, x, job.target[x]) \/ UNCHANGED <<cfg, due>>
  BY <1>2 DEF WriteFails
<1>4. job' = [job EXCEPT !.pc = "reread", !.applied = {}]
  BY DEF WriteFails
<1>5. job' = [run |-> job.run, kind |-> job.kind, targets |-> job.targets, left |-> job.left,
              what |-> job.what, at |-> job.at, pc |-> "reread", target |-> job.target, todo |-> job.todo,
              applied |-> {}, held |-> job.held, shown |-> job.shown]
  BY <1>1, <1>4 DEF JobShape
<1>6. UNCHANGED <<snaps, link, busy, rev, res, batch, oplock, page>>
  BY DEF WriteFails
<1>7. job.todo \in SUBSET job.todo /\ {} \in SUBSET (job.applied \cup {x})
  OBVIOUS
<1>8. QED
  BY <1>1, <1>3, <1>5, <1>6, <1>7, WriteStep

\* The sensor is at its last stages: there is a snapshot, and its config_rev moves.
LEMMA WrittenAt ==
  ASSUME IInv, job.pc \in {"verify", "reread"}
  PROVE  /\ job.at \in Devices
         /\ Len(snaps[job.at]) \in Nat /\ Len(snaps[job.at]) # 0
<1>1. TypeOK /\ JobShape /\ JobInv
  BY DEF IInv, Shape
<1>2. PICK d \in Devices : d = job.at
  BY <1>1 DEF JobInv, JobShape
<1>3. PICK Snaps : Snaps = [profile : Profiles, sec : SUBSET Sections]
  OBVIOUS
<1>4. snaps[d] \in Seq(Snaps) /\ snaps[d] # <<>>
  BY <1>1, <1>2, <1>3, ServiceAssumption DEF JobInv, TypeOK
<1>5. Len(snaps[d]) \in Nat /\ Len(snaps[d]) # 0
  BY <1>4, EmptySeq
<1>6. QED
  BY <1>2, <1>5

LEMMA RereadStep ==
  ASSUME IInv, Reread
  PROVE  IInv'
<1>1. PICK d \in Devices : d = job.at
  BY WrittenAt DEF Reread
<1>2. PICK snap \in Nat : snap = Len(snaps[d]) /\ snap # 0
  BY <1>1, WrittenAt DEF Reread
<1>3. Finish(d, "failed", snap) /\ Unlocked(d) /\ UNCHANGED <<cfg, due, snaps, link, batch, oplock, page>>
  BY <1>1, <1>2 DEF Reread, sensors
<1>4. QED
  BY <1>1, <1>2, <1>3, FinishStep

LEMMA VerifyFailsStep ==
  ASSUME IInv, VerifyFails
  PROVE  IInv'
<1>1. PICK d \in Devices : d = job.at
  BY WrittenAt DEF VerifyFails
<1>2. PICK snap \in Nat : snap = Len(snaps[d]) /\ snap # 0
  BY <1>1, WrittenAt DEF VerifyFails
<1>3. Finish(d, "unverified", snap) /\ Unlocked(d) /\ UNCHANGED <<cfg, due, snaps, link, batch, oplock, page>>
  BY <1>1, <1>2 DEF VerifyFails, sensors
<1>4. QED
  BY <1>1, <1>2, <1>3, FinishStep

\* The values that were read back are the target's; the threshold the sensor shows in the end is,
\* because whatever is on its way was written by this very apply.
LEMMA VerifiedStep ==
  ASSUME IInv, Verified
  PROVE  IInv'
<1>1. TypeOK /\ JobShape /\ JobInv /\ AppliedInv /\ job.pc = "verify"
  BY DEF IInv, Shape, Verified
<1>2. PICK d \in Devices : d = job.at
  BY <1>1, WrittenAt
<1>3. PICK snap \in Nat : snap = Len(snaps[d]) /\ snap # 0
  BY <1>1, <1>2, WrittenAt
<1>4. PICK status : status = IF Differs(job.target, cfg[d], job.applied) = {} THEN "verified" ELSE "partial"
  OBVIOUS
<1>5. Finish(d, status, snap) /\ Unlocked(d) /\ UNCHANGED <<cfg, due, snaps, link, batch, oplock, page>>
  BY <1>2, <1>3, <1>4 DEF Verified, sensors
<1>6. ASSUME status = "verified", cfg[d].m # "learning", NEW x \in job.applied
      PROVE  /\ x = "s" => job.target.s = cfg[d].s
             /\ x = "m" => job.target.m = "radar"
             /\ x = "t" => job.target.t = Ends(d)
  <2>1. job.target[x] = cfg[d][x]
    BY <1>4, <1>6 DEF Differs
  <2>2. cfg[d].m = "radar"
    BY <1>1, <1>6 DEF TypeOK, Profiles, Modes
  <2>3. x = "t" /\ due[d] # <<>> => Last(due[d]) = job.target.t
    BY <1>1, <1>2, <1>6, ServiceAssumption DEF AppliedInv
  <2>4. x = "t" => job.target.t = Ends(d)
    BY <2>1, <2>3 DEF Ends
  <2>5. QED
    BY <2>1, <2>2, <2>4
<1>7. QED
  BY <1>2, <1>3, <1>5, <1>6, FinishStep

-----------------------------------------------------------------------------
(* The theorems *)

LEMMA InitIInv ==
  ASSUME Init
  PROVE  IInv
<1>1. PICK start \in Profiles : start = [s |-> 0, m |-> "radar", t |-> 1]
  <2>1. 1 \in 0..MaxT
    BY ServiceAssumption
  <2>2. [s |-> 0, m |-> "radar", t |-> 1] \in Profiles
    BY <2>1 DEF Profiles, Modes
  <2>3. QED
    BY <2>2
<1>2. \A d \in Devices : /\ cfg[d] = start /\ due[d] = <<>> /\ busy[d] = None /\ rev[d] = 0
  BY <1>1 DEF Init
<1>3. job = [run |-> FALSE, kind |-> "apply", targets |-> {}, left |-> {}, what |-> <<>>,
             at |-> None, pc |-> "next", target |-> None, todo |-> {}, applied |-> {},
             held |-> None, shown |-> <<>>]
  BY DEF Init, NoJob
<1>4. PICK none : none = NoPage
  OBVIOUS
<1>5. none = [pc |-> "idle", req |-> None, change |-> <<>>, revs |-> <<>>, srcRev |-> 0,
              settled |-> TRUE, wait |-> {}, shown |-> <<>>]
  BY <1>4 DEF NoPage
<1>6. PageShape(none) /\ PageInv(none) /\ \A d \in Devices : ~Reads(none, d)
  BY <1>5 DEF PageShape, PageInv, Reads
<1>7. page = [c \in Clients |-> none]
  BY <1>4 DEF Init
<1>8. TypeOK
  <2>1. cfg \in [Devices -> Profiles]
    BY <1>1 DEF Init
  <2>2. due \in [Devices -> Seq(0..MaxT)] /\ snaps \in [Devices -> Seq([profile : Profiles, sec : SUBSET Sections])]
    BY DEF Init
  <2>3. batch \in [members : SUBSET Devices, todo : SUBSET Devices] /\ batch.todo \subseteq batch.members
    BY DEF Init, NoBatch
  <2>4. QED
    BY <2>1, <2>2, <2>3 DEF TypeOK, Init
<1>9. JobShape
  <2>1. DOMAIN job.shown = {}
    BY <1>3
  <2>2. QED
    BY <1>3, <2>1 DEF JobShape, Stages
<1>10. Shape
  BY <1>6, <1>7, <1>8, <1>9 DEF Shape
<1>11. JobInv /\ AppliedInv /\ HeldInv
  BY <1>3 DEF JobInv, AppliedInv, HeldInv
<1>12. LockInv
  BY <1>2, <1>6, <1>7, ServiceAssumption DEF LockInv
<1>13. MembersLeftAlone
  BY <1>3 DEF MembersLeftAlone, Members, Releasing, Init
<1>14. PromiseInv
  BY <1>3 DEF PromiseInv
<1>15. ResultInv
  BY DEF ResultInv, Init
<1>16. QED
  BY <1>6, <1>7, <1>10, <1>11, <1>12, <1>13, <1>14, <1>15 DEF IInv

LEMMA Invariance ==
  ASSUME IInv, [Next]_vars
  PROVE  IInv'
<1>1. CASE PageNext
  <2>1. PICK c \in Clients :
          \/ \E req \in Requests : PreviewDraft(c, req) \/ PreviewRollback(c, req) \/ PreviewClone(c, req)
          \/ SourceRead(c) \/ Forget(c) \/ PostApply(c) \/ PostRollback(c) \/ PostClone(c) \/ CloneRead(c) \/ CloneStart(c)
          \/ \E d \in Devices : PreviewRead(c, d) \/ PreviewFails(c, d)
    BY <1>1 DEF PageNext
  <2>2. CASE \E req \in Requests : PreviewDraft(c, req) \/ PreviewRollback(c, req) \/ PreviewClone(c, req)
    BY <2>2, PreviewDraftStep, PreviewRollbackStep, PreviewCloneStep
  <2>3. CASE SourceRead(c) \/ Forget(c) \/ PostClone(c) \/ CloneRead(c) \/ CloneStart(c)
    BY <2>3, SourceReadStep, ForgetStep, PostCloneStep, CloneReadStep, CloneStartStep
  <2>4. CASE PostApply(c) \/ PostRollback(c)
    BY <2>4, PostWithStep DEF PostApply, PostRollback
  <2>5. CASE \E d \in Devices : PreviewRead(c, d) \/ PreviewFails(c, d)
    BY <2>5, PreviewReadStep, PreviewFailsStep
  <2>6. QED
    BY <2>1, <2>2, <2>3, <2>4, <2>5
<1>2. CASE JobNext
  <2>1. CASE \E d \in Devices : TakeItem(d) \/ RefuseItem(d)
    BY <2>1, TakeItemStep, RefuseItemStep
  <2>2. CASE ReadCurrent \/ ReadCurrentFails \/ WriteSection \/ WriteFails
    BY <2>2, ReadCurrentStep, ReadCurrentFailsStep, WriteSectionStep, WriteFailsStep
  <2>3. CASE Reread \/ Verified \/ VerifyFails \/ JobDone
    BY <2>3, RereadStep, VerifiedStep, VerifyFailsStep, JobDoneStep
  <2>4. QED
    BY <1>2, <2>1, <2>2, <2>3 DEF JobNext
<1>3. CASE SensorNext
  <2>1. PICK d \in Devices :
          \/ Land(d) \/ Drop(d) \/ Connected(d)
          \/ CalibrationRefused(d) \/ StartCalibration(d) \/ EndCalibration(d) \/ LateLearning(d)
    BY <1>3 DEF SensorNext
  <2>2. CASE Land(d) \/ Drop(d) \/ Connected(d)
    BY <2>2, LandStep, DropStep, ConnectedStep
  <2>3. CASE CalibrationRefused(d) \/ StartCalibration(d) \/ EndCalibration(d) \/ LateLearning(d)
    BY <2>3, CalibrationRefusedStep, StartCalibrationStep, EndCalibrationStep, LateLearningStep
  <2>4. QED
    BY <2>1, <2>2, <2>3
<1>4. CASE ServerNext
  BY <1>4, CreateBatchStep, ReleaseStep, ReleaseAllStep, ReleasedStep DEF ServerNext
<1>5. CASE UNCHANGED vars
  <2>1. /\ UNCHANGED <<cfg, due, snaps, busy, rev, job, res, page>>
        /\ batch' = batch /\ oplock' = oplock /\ link' = link /\ job' = job
    BY <1>5 DEF vars
  <2>2. TypeOK'
    BY <2>1 DEF IInv, Shape, TypeOK
  <2>3. MembersLeftAlone'
    BY <2>1 DEF IInv, MembersLeftAlone, Members, Releasing
  <2>4. \A d \in Devices : busy[d] = "calibration" => d \in batch'.todo
    BY <2>1 DEF IInv, LockInv
  <2>5. QED
    BY <2>1, <2>2, <2>3, <2>4, QuietStep
<1>6. QED
  BY <1>1, <1>2, <1>3, <1>4, <1>5 DEF Next

LEMMA Inductive == Spec => []IInv
<1>1. Init => IInv
  BY InitIInv
<1>2. IInv /\ [Next]_vars => IInv'
  BY Invariance
<1>3. QED
  BY <1>1, <1>2, PTL DEF Spec

\* Every variable has its type, in every state.
THEOREM TypeCorrect == Spec => []TypeOK
<1>1. IInv => TypeOK
  BY DEF IInv, Shape
<1>2. QED
  BY <1>1, Inductive, PTL

\* Wherever an apply is stopped, the newest snapshot of its sensor names every section that may
\* differ and holds the value it had (fleet.py:912, apply_profile()).
THEOREM RestorableAlways == Spec => []Restorable
<1>1. ASSUME IInv PROVE Restorable
  <2> SUFFICES ASSUME job.at # None, job.held.settled, cfg[job.at].m # "learning"
               PROVE  LET d == job.at
                          now == [cfg[d] EXCEPT !.t = IF due[d] = <<>> THEN @ ELSE Last(due[d])]
                          touched == {x \in Sections : now[x] # job.held.profile[x]}
                      IN  touched # {} => /\ snaps[d] # <<>>
                                          /\ touched \subseteq Last(snaps[d]).sec
                                          /\ \A x \in touched : Last(snaps[d]).profile[x] = job.held.profile[x]
    BY DEF Restorable
  <2>1. TypeOK /\ JobShape /\ JobInv /\ HeldInv
    BY <1>1 DEF IInv, Shape
  <2>2. PICK d \in Devices : d = job.at
    BY <2>1 DEF JobShape
  <2>3. PICK now : now = [cfg[d] EXCEPT !.t = IF due[d] = <<>> THEN @ ELSE Last(due[d])]
    OBVIOUS
  <2>4. PICK touched : touched = {x \in Sections : now[x] # job.held.profile[x]}
    OBVIOUS
  <2>5. cfg[d] \in Profiles
    BY <2>1 DEF TypeOK
  <2>6. now["s"] = cfg[d].s /\ now["m"] = cfg[d].m /\ now["t"] = Ends(d)
    BY <2>3, <2>5 DEF Profiles, Ends
  <2>7. /\ cfg[d].m = "radar" /\ job.held.profile.m = "radar"
        /\ job.pc = "read" => due[d] = <<>> /\ cfg[d] = job.held.profile
        /\ job.pc # "read" =>
             /\ Last(snaps[d]).profile = job.held.profile
             /\ Last(snaps[d]).sec = ToWrite(job.target)
             /\ "s" \notin ToWrite(job.target) => cfg[d].s = job.held.profile.s
             /\ "t" \notin ToWrite(job.target) => Ends(d) = job.held.profile.t
    BY <2>1, <2>2 DEF HeldInv
  <2>8. CASE job.pc = "read"
    <3>1. now["s"] = job.held.profile["s"] /\ now["m"] = job.held.profile["m"] /\ now["t"] = job.held.profile["t"]
      BY <2>6, <2>7, <2>8 DEF Ends
    <3>2. touched = {}
      BY <2>4, <3>1 DEF Sections
    <3>3. QED
      BY <2>2, <2>3, <2>4, <3>2
  <2>9. CASE job.pc # "read"
    <3>1. snaps[d] # <<>>
      BY <2>1, <2>2, <2>9 DEF JobInv
    <3>2. touched \subseteq ToWrite(job.target)
      BY <2>4, <2>6, <2>7, <2>9 DEF Sections
    <3>3. QED
      BY <2>2, <2>3, <2>4, <2>7, <2>9, <3>1, <3>2
  <2>10. QED
    BY <2>8, <2>9
<1>2. QED
  BY <1>1, Inductive, PTL

\* What a job writes is what the page that asked for it was shown (config_rev, 409).
THEOREM PreviewHonouredAlways == Spec => []PreviewHonoured
<1>1. ASSUME IInv PROVE PreviewHonoured
  <2> SUFFICES ASSUME job.pc = "write", job.at \in DOMAIN job.shown, job.shown[job.at].settled
               PROVE  Differs(job.target, job.shown[job.at].target, job.target.sec) = {}
    BY DEF PreviewHonoured
  <2>1. job.target = job.shown[job.at].target
    BY <1>1 DEF IInv, PromiseInv
  <2>2. QED
    BY <2>1 DEF Differs
<1>2. QED
  BY <1>1, Inductive, PTL

\* The sensors of a running job are in no batch and no release (G22, G27).
THEOREM MembersLeftAloneAlways == Spec => []MembersLeftAlone
<1>1. IInv => MembersLeftAlone
  BY DEF IInv
<1>2. QED
  BY <1>1, Inductive, PTL

\* "verified" holds until this server changes the sensor again (fleet.py, poll_verify()).
THEOREM VerdictTrueAlways == Spec => []VerdictTrue
<1>1. ASSUME IInv PROVE VerdictTrue
  <2> SUFFICES ASSUME NEW d \in DOMAIN res, rev[d] = res[d].rev, job.at # d, cfg[d].m # "learning",
                      NEW x \in DOMAIN res[d].values
               PROVE  [cfg[d] EXCEPT !.t = IF due[d] = <<>> THEN @ ELSE Last(due[d])][x] = res[d].values[x]
    BY DEF VerdictTrue
  <2>1. TypeOK /\ d \in Devices /\ Holds(d, res[d].values)
    BY <1>1 DEF IInv, Shape, ResultInv
  <2>2. cfg[d] \in Profiles
    BY <2>1 DEF TypeOK
  <2>3. PICK now : now = [cfg[d] EXCEPT !.t = IF due[d] = <<>> THEN @ ELSE Last(due[d])]
    OBVIOUS
  <2>4. now["s"] = cfg[d].s /\ now["m"] = cfg[d].m /\ now["t"] = Ends(d)
    BY <2>2, <2>3 DEF Profiles, Ends
  <2>5. x \in Sections /\ cfg[d].m = "radar"
    BY <2>1, <2>2 DEF Holds, Profiles, Modes
  <2>6. now[x] = res[d].values[x]
    BY <2>1, <2>4, <2>5 DEF Holds, Sections
  <2>7. QED
    BY <2>3, <2>6
<1>2. QED
  BY <1>1, Inductive, PTL
=============================================================================
