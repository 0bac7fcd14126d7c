------------------------------ MODULE Registry ------------------------------
(***************************************************************************)
(* The data directory: registry.json with the user's sites and sensors     *)
(* (src/ms605/registry.py), the calibration history and the snapshots of   *)
(* one sensor (src/ms605/storage.py), under failing writes, a process that *)
(* stops between any two steps, and power cuts.                            *)
(*                                                                         *)
(* Everything here is synchronous code on one event loop: an operation     *)
(* that writes ends before another begins.  Aliases, notes and time stamps *)
(* are copied as they are and left out.  Paths are numbers: 0 is           *)
(* registry.json, n > 0 the snapshot named after the instant n.            *)
(***************************************************************************)
EXTENDS Integers, Sequences, FiniteSets

CONSTANTS
  Sites, Devices, Addrs, Hosts,
  None,      \* no file, no value
  Torn,      \* a file cut short
  MaxOps,    \* bound on the operations
  MaxFaults, \* bound on failing writes, crashes and power cuts
  MaxTime    \* bound on the clock and on the names of snapshots

Sensors == [site : Sites, addresses : [Hosts -> Addrs \cup {None}]]
Imports == [site : Sites, address : Addrs, host : Hosts]
Registries == [sites : SUBSET Sites, sensors : [Devices -> Sensors \cup {None}], pending : SUBSET Imports]

ASSUME RegistryAssumption ==
  /\ MaxOps \in Nat /\ MaxFaults \in Nat /\ MaxTime \in Nat
  /\ None # Torn /\ {None, Torn} \cap Registries = {} /\ {None, Torn} \cap Nat = {}
  /\ None \notin Devices /\ None \notin Sensors

VARIABLES
  power,   \* the process is "up", "down" (it stopped), or "cut": so did the machine
  host,    \* Registry.host
  reg,     \* the registry in memory: [sites, sensors, pending]
  job,     \* write_json_atomic() under way: [pc, path, data, before, synced]
  disk,    \* path -> what a reader finds
  lasting, \* path -> what a power cut may leave
  hist,    \* the history file, piece by piece
  safe,    \* the pieces of it a power cut cannot take
  kept,    \* ghost: the records that must be read back
  saved,   \* ghost: the snapshots that must be found, [name, id]
  clock, back,  \* the wall clock; whether it was ever set back
  left     \* bounds: [ops, faults], and the numbers given to records and snapshots

files == <<disk, lasting>>
history == <<hist, safe, kept>>
time == <<clock, back>>
vars == <<power, host, reg, job, files, history, saved, time, left>>

Paths == 0..MaxTime
Empty == [sites |-> {}, sensors |-> [d \in Devices |-> None], pending |-> {}]
Writing(path, data, before) == [pc |-> "write", path |-> path, data |-> data, before |-> before, synced |-> FALSE]
Idle == [Writing(0, None, None) EXCEPT !.pc = "idle"]

Init ==
  /\ power = "down" /\ host \in Hosts
  /\ reg = Empty /\ job = Idle
  /\ disk = [p \in Paths |-> None] /\ lasting = [p \in Paths |-> {None}]
  /\ hist = <<>> /\ safe = 0 /\ kept = {} /\ saved = {}
  /\ clock = 1 /\ back = FALSE
  /\ left = [ops |-> MaxOps, faults |-> MaxFaults, next |-> 1]

Ready == power = "up" /\ job.pc = "idle" /\ left.ops > 0
Counted == left' = [left EXCEPT !.ops = @ - 1]
Numbered == left' = [left EXCEPT !.ops = @ - 1, !.next = @ + 1]
Faulty == left.faults > 0 /\ left' = [left EXCEPT !.faults = @ - 1]

-----------------------------------------------------------------------------
(* write_json_atomic() *)

WriteTemp ==
  /\ power = "up" /\ job.pc = "write"
  /\ job' = [job EXCEPT !.pc = "sync"]
  /\ UNCHANGED <<power, host, reg, files, history, saved, time, left>>

\* Mutant of Fsync: the file is flushed to the system only.
FlushOnly ==
  /\ power = "up" /\ job.pc = "sync"
  /\ job' = [job EXCEPT !.pc = "replace", !.synced = FALSE]
  /\ UNCHANGED <<power, host, reg, files, history, saved, time, left>>

Fsync ==
  /\ power = "up" /\ job.pc = "sync"
  /\ job' = [job EXCEPT !.pc = "replace", !.synced = TRUE]
  /\ UNCHANGED <<power, host, reg, files, history, saved, time, left>>

\* The directory is not synchronised: a power cut may leave any earlier content, and a torn one
\* if the temporary file was not synchronised.
Replace ==
  /\ power = "up" /\ job.pc = "replace"
  /\ disk' = [disk EXCEPT ![job.path] = job.data]
  /\ lasting' = [lasting EXCEPT ![job.path] = @ \cup {job.data} \cup (IF job.synced THEN {} ELSE {Torn})]
  /\ saved' = IF job.path = 0 THEN saved ELSE saved \cup {[name |-> job.path, id |-> job.data]}
  /\ job' = Idle
  /\ UNCHANGED <<power, host, reg, history, time, left>>

\* Any of the steps fails: the temporary file is removed; a registry change is taken back
\* (_mutation()), a snapshot is not there.
WriteFails ==
  /\ power = "up" /\ job.pc # "idle" /\ Faulty
  /\ reg' = IF job.path = 0 THEN job.before ELSE reg
  /\ job' = Idle
  /\ UNCHANGED <<power, host, files, history, saved, time>>

-----------------------------------------------------------------------------
(* The registry's operations: validate, change memory, save *)

Mutation(new) ==
  /\ reg' = new
  /\ job' = Writing(0, new, reg)
  /\ UNCHANGED <<power, host, files, history, saved, time>>

Registered(d) == reg.sensors[d] # None
Fresh(site) == [site |-> site, addresses |-> [h \in Hosts |-> None]]

AddSite(s) ==
  /\ Ready /\ s \notin reg.sites /\ Counted
  /\ Mutation([reg EXCEPT !.sites = @ \cup {s}])

AddSensor(d, s) ==
  /\ Ready /\ s \in reg.sites /\ ~Registered(d) /\ Counted
  /\ Mutation([reg EXCEPT !.sensors[d] = Fresh(s)])

UpdateSensor(d, s) ==
  /\ Ready /\ Registered(d) /\ s \in reg.sites /\ Counted
  /\ Mutation([reg EXCEPT !.sensors[d].site = s])

RemoveSensor(d) ==
  /\ Ready /\ Registered(d) /\ Counted
  /\ Mutation([reg EXCEPT !.sensors[d] = None])

\* The pending imports this host made of an address.
PendingAt(a) == {p \in reg.pending : p.host = host /\ p.address = a}

\* A registered sensor's address is refreshed and the imports of that address are moot.
MatchKnown(d, a) ==
  /\ Ready /\ Registered(d) /\ Counted
  /\ Mutation([reg EXCEPT !.sensors[d].addresses[host] = a, !.pending = @ \ PendingAt(a)])

\* An import of the address becomes the sensor: the first, of those for several sites.
MatchPending(d, a) ==
  /\ Ready /\ ~Registered(d) /\ Counted
  /\ \E p \in PendingAt(a) :
       Mutation([reg EXCEPT !.sensors[d] = [site |-> p.site, addresses |-> [h \in Hosts |-> IF h = host THEN a ELSE None]],
                            !.pending = @ \ {p}])

\* The addresses import_sensor_info() skips.
KnownAt(s) == {p.address : p \in {q \in reg.pending : q.site = s /\ q.host = host}}
                \cup {reg.sensors[d].addresses[host] : d \in {e \in Devices : Registered(e)}}

\* A file of addresses: all or nothing, and only what is new.
ImportSensorInfo(s, as) ==
  LET added == {[site |-> s, address |-> a, host |-> host] : a \in as \ KnownAt(s)} IN
  /\ Ready /\ Counted
  /\ s \notin reg.sites \/ added # {}
  /\ Mutation([reg EXCEPT !.sites = @ \cup {s}, !.pending = @ \cup added])

-----------------------------------------------------------------------------
(* Snapshots *)

\* The first free name from now on.
FreeName == {n \in clock..MaxTime : disk[n] = None /\ \A k \in clock..(n - 1) : disk[k] # None}

SaveSnapshot ==
  /\ Ready /\ Numbered
  /\ \E n \in FreeName : job' = Writing(n, left.next, None)
  /\ UNCHANGED <<power, host, reg, files, history, saved, time>>

\* list_snapshots(), newest first; the unreadable ones are skipped.
Listed == LET names == {n \in Paths \ {0} : disk[n] \notin {None, Torn}} IN
          [i \in 1..Cardinality(names) |-> CHOOSE n \in names : Cardinality({k \in names : k > n}) = i - 1]

Tick ==
  /\ clock < MaxTime
  /\ clock' = clock + 1
  /\ UNCHANGED <<power, host, reg, job, files, history, saved, back, left>>

SetBack ==
  /\ clock > 1 /\ ~back
  /\ clock' = 1 /\ back' = TRUE
  /\ UNCHANGED <<power, host, reg, job, files, history, saved, left>>

-----------------------------------------------------------------------------
(* The calibration history *)

\* A piece of the file: record n, or 0 for the beginning of one, of a device or (older records)
\* of an address only; whether a newline follows, and whether it ends inside a character.
Piece(n, id, a, end) == [n |-> n, id |-> id, address |-> a, end |-> end, cut |-> FALSE]

\* What may be left of a piece: n, with no newline.
Beginnings(piece, n) == {[piece EXCEPT !.n = n, !.end = FALSE, !.cut = c] : c \in {FALSE, n = 0}}

Clean == IF hist = <<>> THEN TRUE ELSE hist[Len(hist)].end

\* Mutant of AppendHistory: the file is opened for writing, not for appending.
AppendRewrites(id, a) ==
  /\ Ready /\ Numbered
  /\ hist' = <<Piece(left.next, id, a, TRUE)>>
  /\ kept' = IF Clean THEN kept \cup {left.next} ELSE kept
  /\ UNCHANGED <<power, host, reg, job, files, safe, saved, time>>

AppendHistory(id, a) ==
  /\ Ready /\ Numbered
  /\ hist' = Append(hist, Piece(left.next, id, a, TRUE))
  /\ kept' = IF Clean THEN kept \cup {left.next} ELSE kept
  /\ UNCHANGED <<power, host, reg, job, files, safe, saved, time>>

\* The write fails half-way (a full disk): nothing, a beginning, or all but the newline stays.
AppendFails(id, a, n) ==
  /\ Ready /\ left.faults > 0 /\ n \in {0, left.next}
  /\ \E piece \in Beginnings(Piece(n, id, a, FALSE), n) : hist' = Append(hist, piece)
  /\ left' = [left EXCEPT !.faults = @ - 1, !.next = @ + 1]
  /\ UNCHANGED <<power, host, reg, job, files, safe, kept, saved, time>>

\* A line is a record if it is one piece, whole.
IsRecord(i) ==
  /\ hist[i].n # 0
  /\ i > 1 => hist[i - 1].end
  /\ i < Len(hist) => hist[i].end

\* The file can be decoded; else read_history() is an error, which the hub takes for no record.
Readable == \A i \in DOMAIN hist : ~hist[i].cut

\* read_history(): a device's records and those that name only one of its addresses.
ReadHistory(id, as) == {i \in DOMAIN hist : Readable /\ IsRecord(i) /\
                          IF hist[i].id = None THEN hist[i].address \in as ELSE hist[i].id = id}
LastRead(id, as) == {i \in ReadHistory(id, as) : \A k \in ReadHistory(id, as) : k <= i}

\* The hub's index: the last record per device id, and per address for those without an id.
IndexById(id) == {i \in DOMAIN hist : Readable /\ IsRecord(i) /\ hist[i].id = id
                    /\ \A k \in (i + 1)..Len(hist) : ~(IsRecord(k) /\ hist[k].id = id)}
IndexByAddress(a) == {i \in DOMAIN hist : Readable /\ IsRecord(i) /\ hist[i].id = None /\ hist[i].address = a
                    /\ \A k \in (i + 1)..Len(hist) : ~(IsRecord(k) /\ hist[k].id = None /\ hist[k].address = a)}

\* Mutant of LastCalibration: the record under the device's id wins.
LastCalibrationById(id, as) ==
  LET found == IF IndexById(id) # {} THEN IndexById(id) ELSE UNION {IndexByAddress(a) : a \in as} IN
  {i \in found : \A k \in found : k <= i}

LastCalibration(id, as) ==
  LET found == IndexById(id) \cup UNION {IndexByAddress(a) : a \in as} IN
  {i \in found : \A k \in found : k <= i}

-----------------------------------------------------------------------------
(* Crashes and starts *)

\* The process stops, wherever it is.
Crash ==
  /\ power = "up" /\ Faulty
  /\ power' = "down" /\ reg' = Empty /\ job' = Idle
  /\ UNCHANGED <<host, files, history, saved, time>>

\* The machine stops: every file may hold an older content.  By the time it is back the clock
\* has passed the names in use.
PowerCut ==
  /\ power = "up" /\ Faulty
  /\ power' = "cut" /\ reg' = Empty /\ job' = Idle
  /\ clock' \in {t \in clock..(MaxTime + 1) : \A p \in Paths \ {0} : lasting[p] # {None} => p < t}
  /\ UNCHANGED <<host, files, history, saved, back>>

Forget(p, c) ==
  /\ power = "cut" /\ c # disk[p]
  /\ disk' = [disk EXCEPT ![p] = c] /\ lasting' = [lasting EXCEPT ![p] = {c}]
  /\ UNCHANGED <<power, host, reg, job, history, saved, time, left>>

\* ... and the history may have lost its end, also in the middle of a record.
Shorten(i) ==
  /\ power = "cut" /\ i \in safe..(Len(hist) - 1)
  /\ \/ hist' = SubSeq(hist, 1, i)
     \/ \E n \in {0, hist[i + 1].n} : \E piece \in Beginnings(hist[i + 1], n) :
          hist' = Append(SubSeq(hist, 1, i), piece)
  /\ safe' = Len(hist')
  /\ UNCHANGED <<power, host, reg, job, files, kept, saved, time, left>>

\* Registry._load()
Loads(c) ==
  c # None => /\ c # Torn
              /\ \A d \in Devices : c.sensors[d] # None => c.sensors[d].site \in c.sites

Stored(c) == IF c = None THEN Empty ELSE c

\* On this host, or another one the data directory was copied to.
Start(h) ==
  /\ power # "up" /\ Loads(disk[0])
  /\ power' = "up" /\ host' = h
  /\ reg' = Stored(disk[0])
  /\ lasting' = IF power = "cut" THEN [p \in Paths |-> {disk[p]}] ELSE lasting
  /\ safe' = IF power = "cut" THEN Len(hist) ELSE safe
  /\ kept' = IF power = "cut" THEN {n \in kept : \E i \in DOMAIN hist : IsRecord(i) /\ hist[i].n = n /\ hist[i].end} ELSE kept
  /\ saved' = IF power = "cut" THEN {x \in saved : disk[x.name] = x.id} ELSE saved
  /\ UNCHANGED <<job, disk, hist, time, left>>

-----------------------------------------------------------------------------
Next ==
  \/ \E s \in Sites : AddSite(s) \/ \E as \in SUBSET Addrs : ImportSensorInfo(s, as)
  \/ \E d \in Devices : RemoveSensor(d)
  \/ \E d \in Devices, s \in Sites : AddSensor(d, s) \/ UpdateSensor(d, s)
  \/ \E d \in Devices, a \in Addrs : MatchKnown(d, a) \/ MatchPending(d, a)
  \/ WriteTemp \/ Fsync \/ Replace \/ WriteFails
  \/ SaveSnapshot \/ Tick \/ SetBack
  \/ \E id \in Devices \cup {None}, a \in Addrs :
       AppendHistory(id, a) \/ \E n \in 0..left.next : AppendFails(id, a, n)
  \/ Crash \/ PowerCut
  \/ \E p \in Paths : \E c \in lasting[p] : Forget(p, c)
  \/ \E i \in 0..Len(hist) : Shorten(i)
  \/ \E h \in Hosts : Start(h)

Spec == Init /\ [][Next]_vars

-----------------------------------------------------------------------------
(* Properties *)

\* A registry is written to path 0, the number of a snapshot to the others.
Contents(p) == IF p = 0 THEN Registries ELSE Nat
Steps == {"write", "sync", "replace"}
Saves == [pc : Steps, path : {0}, data : Registries, before : Registries, synced : BOOLEAN]
Snapshots == [pc : Steps, path : Paths \ {0}, data : Nat, before : {None}, synced : BOOLEAN]
Pieces == [n : Nat, id : Devices \cup {None}, address : Addrs, end : BOOLEAN, cut : BOOLEAN]

\* The type invariant.
TypeOK ==
  /\ power \in {"up", "down", "cut"} /\ host \in Hosts /\ reg \in Registries
  /\ \/ job = Idle
     \/ job.path = 0 /\ job \in Saves
     \/ job.path # 0 /\ job \in Snapshots
  /\ DOMAIN disk = Paths /\ DOMAIN lasting = Paths
  /\ \A p \in Paths : disk[p] \in lasting[p] /\ lasting[p] \subseteq {None, Torn} \cup Contents(p)
  /\ hist \in Seq(Pieces) /\ safe \in Nat /\ kept \subseteq Nat
  /\ saved \subseteq [name : Paths \ {0}, id : Nat]
  /\ clock \in Nat \ {0} /\ back \in BOOLEAN
  /\ left \in [ops : Nat, faults : Nat, next : Nat \ {0}]

\* Whatever stops the process or the machine, and wherever it stops in a write, the next start
\* finds a registry it accepts: never half a file, never a sensor of a site that is not there
\* (write_json_atomic(), the checks of _load()).
RegistryLoads == \A c \in lasting[0] : Loads(c)

\* A reader finds the registry as it was before the change under way, or after it; between
\* changes, and after one that failed, memory says what the file says (_mutation()).
OldOrNew ==
  power = "up" =>
    Stored(disk[0]) \in IF job.pc # "idle" /\ job.path = 0 THEN {job.before, job.data} ELSE {reg}

\* A record appended to a file that ends with a newline has a line of its own, in its place,
\* whatever failed or stopped later; only a power cut may take it, or the newline that keeps
\* the next record off its line.  read_history() reads it back while the file is Readable ...
HistoryKept ==
  power = "up" =>
    /\ \A n \in kept : \E i \in DOMAIN hist : IsRecord(i) /\ hist[i].n = n
    /\ \A i, k \in DOMAIN hist : i < k /\ IsRecord(i) /\ IsRecord(k) => hist[i].n < hist[k].n

\* ... or always, a truncated line being skipped (storage.py:131).  The code breaks this: a line
\* truncated inside a character is an error for the whole file, see README.md.
TornIsSkipped ==
  power = "up" =>
    \A n \in kept : \E i \in DOMAIN hist : hist[i].n = n /\ i \in ReadHistory(hist[i].id, {hist[i].address})

\* A snapshot is never replaced by a later one, also if the clock is set back; if it was not,
\* they are listed newest first (save_snapshot(), list_snapshots()).
SnapshotsKept ==
  power = "up" =>
    /\ \A x \in saved : disk[x.name] = x.id
    /\ ~back => \A i, k \in DOMAIN Listed : i < k => disk[Listed[i]] > disk[Listed[k]]

\* The hub's index of the history finds the record read_history() would list last, for a device
\* and any addresses it goes by ("the same matching as read_history()").
IndexIsRead ==
  \A d \in Devices, as \in SUBSET Addrs : LastCalibration(d, as) = LastRead(d, as)
=============================================================================
