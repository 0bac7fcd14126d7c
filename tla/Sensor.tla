------------------------------- MODULE Sensor -------------------------------
(***************************************************************************)
(* One sensor at the end of a BLE link, byte for byte: the simulated       *)
(* device of ms605/sim.py, the frames of Frame.tla in chunks that may be   *)
(* lost, and the program's side of the link: the operations of             *)
(* ms605/driver.py that read and write the settings, used the way a draft  *)
(* is previewed, applied and verified.                                     *)
(***************************************************************************)
EXTENDS Profile, TLC

CONSTANTS Drafts,      \* changes a page may ask for
          Settings,    \* single attributes the program may set
          InitTags,    \* the attributes a sensor starts with
          Learned,     \* the thresholds space learning ends with
          CalibTicks,  \* ticks a learning takes
          ChunkSize,   \* bytes per write and per notification
          MaxOps, MaxTicks, MaxFaults, MaxPolls  \* bounds

\* the longest attribute, live output, takes 71 bytes; the longest a sensor lets
\* be written, the thresholds, 28
IsValue(value, size) == value \in Seq(0..255) /\ Len(value) <= size

ASSUME SizeAssumption == ChunkSize \in Nat \ {0} /\ CalibTicks \in Nat \ {0}
ASSUME BoundsAssumption == MaxOps \in Nat /\ MaxTicks \in Nat /\ MaxFaults \in Nat /\ MaxPolls \in Nat
ASSUME TagsAssumption ==
  /\ {52, 56, 98} \subseteq DOMAIN InitTags /\ Len(InitTags[52]) = 1
  /\ \A t \in DOMAIN InitTags : IsValue(InitTags[t], 71)
ASSUME LearnedAssumption == Learned \in [1..7 -> Int \X Int]
ASSUME SettingsAssumption == \A attr \in Settings : attr \in (0..255) \X Seq(0..255) /\ Len(attr[2]) <= 28
ASSUME DraftsAssumption ==
  \A changes \in Drafts :
    /\ DOMAIN changes = ToSet(Sections)
    /\ changes.subsensor_timing # None => changes.subsensor_timing \in Seq(Int \X Int)

VARIABLES
  link,  \* the GATT link is up
  tags,  \* the sensor's attributes: what a read of each returns
  learn, \* [on, ticks, mode, start]: the learning under way
  due,   \* acknowledged thresholds that do not show yet, oldest first
  ticks, \* ticks of the sensor's live output
  up,    \* [air, buf, owed]: frames on the way to the sensor
  down,  \* [air, buf, owed]: frames on the way to the program
  app,   \* the operation under way
  sent,  \* every <<tag, value>> an operation has set out to write
  left   \* bounds: the operations, and the faults (lost chunks, refused writes,
         \* lost links), that may still come; and whether a chunk was lost

vars == <<link, tags, learn, due, ticks, up, down, app, sent, left>>

Live(t) == t[54] = <<1>>
NoLearning == [on |-> FALSE, ticks |-> 0, mode |-> 0, start |-> <<>>]
Quiet == [air |-> <<>>, buf |-> <<>>, owed |-> {}]
Idle == [pc |-> "idle", id |-> 0, changes |-> None, todo |-> {}, written |-> {}, before |-> None,
         after |-> None, rows |-> None, base |-> None, read |-> None, polls |-> 0]

Init ==
  /\ link = TRUE
  /\ tags = InitTags
  /\ learn = NoLearning
  /\ due = <<>>
  /\ ticks = 0
  /\ up = Quiet /\ down = Quiet
  /\ app = Idle
  /\ sent = {}
  /\ left = [ops |-> MaxOps, faults |-> MaxFaults, lost |-> FALSE]

(* -- the air ----------------------------------------------------------------- *)

\* a chunk on its way: its frame, whether it is the last of it, and whether one
\* before it was lost
Chunks(frame) ==
  LET parts == ChunkFrame(frame, ChunkSize) IN
  [i \in DOMAIN parts |-> [bytes |-> parts[i], frame |-> frame, last |-> i = Len(parts), hurt |-> FALSE]]

Put(w, frame) == [w EXCEPT !.air = @ \o Chunks(frame)]

Heard(w) == Feed(w.buf, Head(w.air).bytes)

\* The first chunk arrives. `owed`: the frames that arrived whole and have not
\* come out of the reassembler.
Take(w) ==
  LET c == Head(w.air)  r == Heard(w)
      whole == IF c.last /\ ~c.hurt THEN {c.frame} ELSE {} IN
  [air |-> Tail(w.air), buf |-> r.buf, owed |-> (w.owed \cup whole) \ ToSet(r.frames)]

Drop1(w) ==
  LET c == Head(w.air) IN
  [w EXCEPT !.air = [i \in DOMAIN Tail(@) |->
     IF ~c.last /\ \A j \in 1..(i - 1) : ~Tail(@)[j].last
     THEN [Tail(@)[i] EXCEPT !.hurt = TRUE] ELSE Tail(@)[i]]]

(* -- the sensor ----------------------------------------------------------------- *)

\* the attributes that may be written, and the bytes each takes
WriteSize ==
  [tag \in {32, 33, 41, 48, 49, 50, 51, 52, 54, 61, 98} |->
     CASE tag \in {33, 48} -> 4 [] tag = 49 -> 16 [] tag = 51 -> 28 [] tag = 98 -> 3 [] OTHER -> 1]

Refuses(s, tag, value) ==
  \/ tag \notin DOMAIN WriteSize
  \/ WriteSize[tag] # Len(value)
  \/ tag \in {61, 52} /\ value[1] \notin 1..4
  \/ tag = 52 /\ value[1] # SpaceLearning /\ s.learn.on

\* the interval of one sub-sensor is set in the list of all
SetInterval(list, value) ==
  FlattenSeq([i \in SubSensors |->
    IF list[3 * i - 2] = value[1] THEN value ELSE SubSeq(list, 3 * i - 2, 3 * i)])

StartLearning(s) ==
  IF s.learn.on THEN s
  ELSE [s EXCEPT !.learn = [on |-> TRUE, ticks |-> 0, mode |-> s.tags[52][1],
                            start |-> DecodeZoneThresholds(s.tags[51])],
                 !.tags = [@ EXCEPT ![52] = <<SpaceLearning>>]]

\* SimMS605._write(): thresholds are acknowledged now and show later
Write(s, tag, value) ==
  CASE tag = 52 /\ value[1] = SpaceLearning -> StartLearning(s)
    [] tag = 51 -> [s EXCEPT !.due = Append(@, value)]
    [] tag = 98 -> [s EXCEPT !.tags = [@ EXCEPT ![98] = SetInterval(s.tags[98], value)]]
    [] OTHER -> [s EXCEPT !.tags = [@ EXCEPT ![tag] = value]]

Answered(s, tag, value) == [s EXCEPT !.out = Append(@, <<tag, value>>)]

Read(s, value) ==
  IF Len(value) = 1 /\ value[1] \in DOMAIN s.tags
  THEN Answered(s, value[1], s.tags[value[1]]) ELSE Answered(s, 3, <<1>>)

\* one attribute of a command (its trailer is none); statuses follow the values
\* that were read
Attribute(s, attr) ==
  IF attr[1] = 1 THEN s
  ELSE IF attr[1] = 2 THEN Read(s, attr[2])
  ELSE IF Refuses(s, attr[1], attr[2]) THEN [s EXCEPT !.status = Append(@, <<3, <<1>>>>)]
  ELSE [Write(s, attr[1], attr[2]) EXCEPT !.status = Append(@, <<3, <<0>>>>)]

\* inject_status(): the next write is refused, not applied and answered so
Refusal(s, attr) ==
  IF attr[1] = 1 THEN s
  ELSE IF attr[1] = 2 THEN Read(s, attr[2]) ELSE [s EXCEPT !.status = Append(@, <<3, <<1>>>>)]

\* the attributes of one command in turn
Obeyed(s, attrs, refuse) ==
  LET after[i \in 0..Len(attrs)] ==
        IF i = 0 THEN s
        ELSE IF refuse THEN Refusal(after[i - 1], attrs[i]) ELSE Attribute(after[i - 1], attrs[i]) IN
  after[Len(attrs)]

Reply(s) == IF s.out \o s.status = <<>> THEN <<<<3, <<0>>>>>> ELSE s.out \o s.status  \* a bare ping

\* then one answer
Obey(s, frame, refuse) ==
  LET done == Obeyed([s EXCEPT !.out = <<>>, !.status = <<>>], frame.attrs, refuse) IN
  [done EXCEPT !.frames = Append(@, BuildFrameRaw(Reply(done), frame.msgId, TriggerSrc))]

\* noise and damaged frames are ignored
Handle(s, raw, refuse) ==
  LET frame == ParseFrame(raw) IN
  IF ~frame.ok \/ ~frame.crcOk THEN s ELSE Obey(s, frame, refuse)

\* the frames of one chunk in turn
Handled(s, raws, refuse) ==
  LET after[i \in 0..Len(raws)] == IF i = 0 THEN s ELSE Handle(after[i - 1], raws[i], refuse) IN
  after[Len(raws)]

\* a chunk reaches the sensor, which obeys and answers every frame it completes
DeliverUp(refuse) ==
  LET raws == Heard(up).frames
      s == Handled([tags |-> tags, learn |-> learn, due |-> due, out |-> <<>>, status |-> <<>>, frames |-> <<>>],
                   raws, refuse) IN
  /\ link /\ up.air # <<>>
  /\ refuse => left.faults > 0 /\ raws # <<>>
  /\ tags' = s.tags /\ learn' = s.learn /\ due' = s.due
  /\ up' = Take(up)
  /\ down' = [down EXCEPT !.air = @ \o FlattenSeq([i \in DOMAIN s.frames |-> Chunks(s.frames[i])])]
  /\ left' = [left EXCEPT !.faults = IF refuse THEN @ - 1 ELSE @]
  /\ UNCHANGED <<link, ticks, app, sent>>

\* thresholds written earlier show up, whether the link is still there or not
Land ==
  /\ due # <<>>
  /\ tags' = [tags EXCEPT ![51] = Head(due)]
  /\ due' = Tail(due)
  /\ UNCHANGED <<link, learn, ticks, up, down, app, sent, left>>

(* -- the sensor's clock ------------------------------------------------------------ *)

I16(n) == IF n > 32767 THEN 32767 ELSE n
Round(n, d) ==  \* half to even
  LET q == n \div d  r == n % d IN
  IF 2 * r > d \/ (2 * r = d /\ q % 2 = 1) THEN q + 1 ELSE q

\* while it learns the sensor shows thresholds on their way to the learned ones
CurrentThresholds(k) ==
  IF ~learn.on THEN DecodeZoneThresholds(tags[51])
  ELSE [z \in 1..7 |-> [p \in {1, 2} |->
          Round(learn.start[z][p] * (CalibTicks - k) + Learned[z][p] * k, CalibTicks)]]

Signal(z) == <<8 + 2 * z, 4 + z>>  \* of zone z - 1

RadarValue(k) ==
  LET thr == CurrentThresholds(k)
      cur(z) == <<Signal(z)[1] + ((ticks + 1) % 3), Signal(z)[2]>>
      on == Bits(tags[50][1], 7)
      active == [z \in 1..7 |-> on[z] /\ cur(z)[1] >= thr[z][1]]
      flag(b) == IF b THEN 1 ELSE 0
      zone(z) == U16(cur(z)[1]) \o U16(cur(z)[2]) \o <<flag(on[z]), flag(active[z])>>
                 \o U16(I16(thr[z][1])) \o U16(I16(thr[z][2]))
      here(i) == \E z \in 1..7 : active[z] /\ Bits(tags[48][i], 7)[z] IN
  <<Mask([i \in SubSensors |-> here(i)])>> \o FlattenSeq([z \in 1..7 |-> zone(z)])

Push(w, tag, value) == Put(w, BuildFrameRaw(<<<<tag, value>>>>, 0, PushTriggerSrc))

\* one tick of a learning sensor: progress, and at the end the result
LearnTick ==
  LET k == learn.ticks + 1
      shown == Push(Push(down, 55, RadarValue(k)), 56, tags[56]) IN
  /\ link /\ learn.on /\ ticks < MaxTicks
  /\ ticks' = ticks + 1
  /\ IF k < CalibTicks
     THEN learn' = [learn EXCEPT !.ticks = k] /\ down' = shown /\ UNCHANGED tags
     ELSE /\ learn' = NoLearning
          /\ tags' = [tags EXCEPT ![51] = EncodeZoneThresholds(Learned), ![61] = <<4>>, ![52] = <<learn.mode>>]
          /\ down' = Push(shown, 62, <<1>>)
  /\ UNCHANGED <<link, due, up, app, sent, left>>

LiveTick ==
  /\ link /\ ~learn.on /\ Live(tags) /\ ticks < MaxTicks
  /\ ticks' = ticks + 1
  /\ down' = Push(down, 55, RadarValue(0))
  /\ UNCHANGED <<link, tags, learn, due, up, app, sent, left>>

(* -- the link ------------------------------------------------------------------------ *)

LoseUp ==
  /\ up.air # <<>> /\ left.faults > 0
  /\ up' = Drop1(up)
  /\ left' = [left EXCEPT !.faults = @ - 1, !.lost = TRUE]
  /\ UNCHANGED <<link, tags, learn, due, ticks, down, app, sent>>

LoseDown ==
  /\ down.air # <<>> /\ left.faults > 0
  /\ down' = Drop1(down)
  /\ left' = [left EXCEPT !.faults = @ - 1, !.lost = TRUE]
  /\ UNCHANGED <<link, tags, learn, due, ticks, up, app, sent>>

\* a request under way fails; a page still has what it was shown
Interrupted == IF app.pc = "previewed" THEN app ELSE [Idle EXCEPT !.id = app.id]

\* Mutant of LinkLost: what the learning showed when the link ended stays.
LinkLostKeepsShown ==
  /\ link /\ left.faults > 0
  /\ link' = FALSE
  /\ tags' = [tags EXCEPT ![54] = <<0>>, ![51] = EncodeZoneThresholds(CurrentThresholds(learn.ticks))]
  /\ learn' = NoLearning
  /\ up' = Quiet /\ down' = Quiet
  /\ app' = Interrupted
  /\ left' = [left EXCEPT !.faults = @ - 1]
  /\ UNCHANGED <<due, ticks, sent>>

\* The link ends: live output stops, learning is reset and nothing of it kept.
LinkLost ==
  /\ link /\ left.faults > 0
  /\ link' = FALSE
  /\ tags' = [tags EXCEPT ![54] = <<0>>, ![52] = IF learn.on THEN <<learn.mode>> ELSE @]
  /\ learn' = NoLearning
  /\ up' = Quiet /\ down' = Quiet
  /\ app' = Interrupted
  /\ left' = [left EXCEPT !.faults = @ - 1]
  /\ UNCHANGED <<due, ticks, sent>>

\* a new link: both ends start with an empty buffer
Accept ==
  /\ ~link
  /\ link' = TRUE
  /\ UNCHANGED <<tags, learn, due, ticks, up, down, app, sent, left>>

(* -- the program ------------------------------------------------------------------------ *)

Request(attrs) == up' = Put(up, BuildCommand(attrs, NextMsgId(app.id)))
ReadConfig == [i \in DOMAIN ReadConfigTags |-> <<2, <<ReadConfigTags[i]>>>>]

\* an operation begins or goes on: one request at a time
Ask(pc, todo, attrs) ==
  /\ Request(attrs)
  /\ app' = [app EXCEPT !.pc = pc, !.id = NextMsgId(@), !.todo = todo]
  /\ sent' = sent \cup {a \in ToSet(attrs) : a[1] # 2}
  /\ UNCHANGED <<link, tags, learn, due, ticks, down>>

Begin(pc, changes, attrs) ==
  /\ link /\ app.pc = "idle" /\ left.ops > 0
  /\ Request(attrs)
  /\ app' = [Idle EXCEPT !.pc = pc, !.id = NextMsgId(app.id), !.changes = changes, !.polls = MaxPolls]
  /\ sent' = sent \cup {a \in ToSet(attrs) : a[1] # 2}
  /\ left' = [left EXCEPT !.ops = @ - 1]
  /\ UNCHANGED <<link, tags, learn, due, ticks, down>>

Preview(changes) == Begin("preview", changes, ReadConfig)
\* a single attribute: live output, do-not-disturb, the clock, a sample interval,
\* "space learning"
Set(attr) == Begin("set", None, <<attr>>)
Ping == Begin("set", None, <<>>)

\* the page asks for what it was shown
Apply ==
  /\ link /\ app.pc = "previewed"
  /\ Ask("apply", {}, ReadConfig)
  /\ UNCHANGED left

\* the next section of the target, and the read that verifies them all
WriteSection ==
  /\ link /\ app.pc = "write"
  /\ \E i \in DOMAIN Sections :
       LET s == Sections[i] IN
       /\ s \in app.todo /\ \A j \in 1..(i - 1) : Sections[j] \notin app.todo
       /\ Ask("writing", app.todo \ {s}, <<<<TagOf[s], Encode(s, app.changes[s])>>>>)
  /\ UNCHANGED left

Verify ==
  /\ link /\ app.pc = "write" /\ app.todo = {}
  /\ Ask("verify", {}, ReadConfig)
  /\ UNCHANGED left

\* The preview's read: a target that does not validate is refused, otherwise it
\* is shown.
Previewed(frame) ==
  LET current == FromConfig(frame)
      target == Resolve(app.changes, current)
      before == ProfileView(current)
      after == ProfileView(Merge(current, target)) IN
  IF ~Complete(frame) \/ ~Validate(target) THEN [Idle EXCEPT !.id = app.id]
  ELSE [app EXCEPT !.pc = "previewed", !.before = before, !.after = after, !.rows = DiffRows(before, after)]

\* The apply's read: the changes are resolved afresh, against what is there now
\* (`base`, a history variable), and the sections of that target are written.
Applied(frame) ==
  LET current == FromConfig(frame)
      target == Resolve(app.changes, current) IN
  IF ~Complete(frame) \/ ~Validate(target) THEN [Idle EXCEPT !.id = app.id]
  ELSE [app EXCEPT !.pc = "write", !.changes = target, !.todo = Written(target),
          !.written = Written(target), !.base = ProfileView(current)]

Acked(frame) ==
  IF FirstErrorStatus(frame) # 0 THEN [Idle EXCEPT !.id = app.id]
  ELSE [app EXCEPT !.pc = "write"]

\* the read matches: verified; otherwise another read, or PARTIAL at the end
Compared(frame) ==
  LET read == FromConfig(frame) IN
  IF ~Complete(frame) THEN [Idle EXCEPT !.id = app.id]
  ELSE IF DiffSections(app.changes, read, app.written) = {}
  THEN [app EXCEPT !.pc = "verified", !.read = ProfileView(read)]
  ELSE IF app.polls > 0 THEN [app EXCEPT !.pc = "write", !.polls = @ - 1]
  ELSE [Idle EXCEPT !.id = app.id]

Answer(frame) ==
  CASE app.pc = "preview" -> Previewed(frame)
    [] app.pc = "apply" -> Applied(frame)
    [] app.pc = "writing" -> Acked(frame)
    [] app.pc = "verify" -> Compared(frame)
    [] OTHER -> [Idle EXCEPT !.id = app.id]

\* A chunk reaches the program. Damaged frames are dropped, a push answers no
\* request, a late answer has another id.
DeliverDown ==
  LET mine == SelectSeq(Heard(down).frames, LAMBDA raw :
                LET f == ParseFrame(raw) IN f.ok /\ f.crcOk /\ f.msgId = app.id) IN
  /\ link /\ down.air # <<>>
  /\ down' = Take(down)
  /\ app' = IF mine = <<>> \/ app.pc \notin {"preview", "apply", "writing", "verify", "set"} THEN app
            ELSE Answer(ParseFrame(mine[1]))
  /\ UNCHANGED <<link, tags, learn, due, ticks, up, sent, left>>

\* a time-out: no answer, and nothing on the way any more
TimeOut ==
  /\ app.pc \in {"preview", "apply", "writing", "verify", "set"}
  /\ up.air = <<>> /\ down.air = <<>>
  /\ app' = [Idle EXCEPT !.id = app.id]
  /\ UNCHANGED <<link, tags, learn, due, ticks, up, down, sent, left>>

\* a preview that is not applied, or an apply that is over
Done ==
  /\ app.pc \in {"previewed", "verified"}
  /\ app' = [Idle EXCEPT !.id = app.id]
  /\ UNCHANGED <<link, tags, learn, due, ticks, up, down, sent, left>>

(* -- the specification ---------------------------------------------------------------------- *)

AppNext ==
  \/ \E changes \in Drafts : Preview(changes)
  \/ Ping
  \/ \E attr \in Settings : Set(attr)
  \/ Apply \/ WriteSection \/ Verify \/ TimeOut \/ Done

Next ==
  \/ AppNext
  \/ DeliverDown \/ LoseUp \/ LoseDown \/ LinkLost \/ Accept
  \/ \E refuse \in BOOLEAN : DeliverUp(refuse)
  \/ Land \/ LearnTick \/ LiveTick

Spec == Init /\ [][Next]_vars

(* -- properties -------------------------------------------------------------------------------- *)

\* What comes out of the reassembler does not depend on where the bytes were cut
\* (protocol.py:498): the chunk that comes next could as well come in two.
ChunkingIrrelevant ==
  \A w \in {up, down} : w.air # <<>> =>
    LET c == Head(w.air).bytes IN
    \A i \in 1..(Len(c) - 1) :
      LET a == Feed(w.buf, SubSeq(c, 1, i))
          b == Feed(a.buf, SubSeq(c, i + 1, Len(c))) IN
      Heard(w) = [buf |-> b.buf, frames |-> a.frames \o b.frames]

\* On a link that loses nothing every frame comes out as soon as it is whole,
\* whatever its values look like (a threshold of 0x55AA is a frame head).
CleanLinkDelivers == ~left.lost => up.owed = {} /\ down.owed = {}

\* Every attribute of the sensor holds a value that was written as a whole, was
\* there from the start, or was learned to the end: a damaged frame, frames run
\* together by a lost chunk, and an interrupted learning leave no trace.
StoredWasSent ==
  \A t \in DOMAIN tags \ {98} :
    \/ tags[t] = InitTags[t] \/ <<t, tags[t]>> \in sent
    \/ t = 51 /\ tags[t] = EncodeZoneThresholds(Learned)
    \/ t = 61 /\ tags[t] = <<4>>
    \/ t = 54 /\ tags[t] = <<0>>

\* The thresholds were others at the preview's read than at the apply's: some
\* that were acknowledged before showed up between the two, or were learned.
Moved(s) == s = "zone_thresholds" /\ app.base[s] # app.before[s]

\* What a verified apply reads back is what its preview showed as "after", for
\* every section it wrote, and the preview's rows name no other section; but
\* for thresholds that moved, which a relative change or one of some zones
\* builds on (fleet.py:913 reads afresh).
VerifiedIsAfter ==
  app.pc = "verified" =>
    \A s \in DOMAIN app.rows : ~Moved(s) =>
      /\ s \in app.written => app.read[s] = app.after[s]
      /\ app.rows[s] # {} => s \in app.written

\* A frame that arrived whole has come out of the reassembler or is still in its
\* buffer (protocol.py:530: "don't swallow what follows").
NothingSwallowed ==
  \A w \in {up, down} : \A f \in w.owed :
    \E i \in 1..(Len(w.buf) - Len(f) + 1) : SubSeq(w.buf, i, i + Len(f) - 1) = f
=============================================================================
