------------------------------ MODULE Profile ------------------------------
(***************************************************************************)
(* A sensor's settings (ms605/models.py): the byte strings of the          *)
(* attributes, the profile made of them, the changes of a draft            *)
(* (SensorChanges of ms605/fleet.py) and what a preview shows of a change  *)
(* (ms605/gui/apply.py).                                                   *)
(***************************************************************************)
EXTENDS Frame

CONSTANT None

Zones == 0..6
Sorted(zones) == SelectSeq(<<0, 1, 2, 3, 4, 5, 6>>, LAMBDA z : z \in zones)
SubSensors == 1..3

\* the writable sections, in the order they are written, and their tags
Sections == <<"sensitivity", "detect_mode", "zone_enable", "zone_thresholds",
              "subsensor_zones", "subsensor_timing", "subsensor_enable">>
TagOf == [sensitivity |-> 61, detect_mode |-> 52, zone_enable |-> 50, zone_thresholds |-> 51,
          subsensor_zones |-> 48, subsensor_timing |-> 49, subsensor_enable |-> 41]
DistancesTag == 53
ReadConfigTags == <<41, 48, 49, 50, 51, 52, DistancesTag, 61>>
SpaceLearning == 4

(* -- codecs ------------------------------------------------------------------ *)

\* bit i - 1 of a mask is flag i
Mask(flags) ==
  LET below[n \in 0..Len(flags)] ==
        IF n = 0 THEN 0 ELSE below[n - 1] + (IF flags[n] THEN 2^(n - 1) ELSE 0) IN
  below[Len(flags)]
Bits(mask, n) == [i \in 1..n |-> (mask \div 2^(i - 1)) % 2 = 1]

EncodeU16Pairs(pairs) == FlattenSeq([i \in DOMAIN pairs |-> U16(pairs[i][1]) \o U16(pairs[i][2])])
U16Pairs(value, n) ==
  [i \in 1..n |-> <<FromU16(SubSeq(value, 4 * i - 3, 4 * i - 2)), FromU16(SubSeq(value, 4 * i - 1, 4 * i))>>]

EncodeZoneThresholds(pairs) == EncodeU16Pairs(pairs)
DecodeZoneThresholds(value) == U16Pairs(value, 7)

\* the fourth slot is reserved
EncodePresenceAbsenceTimes(timings) == EncodeU16Pairs(Append(timings, <<0, 0>>))
DecodePresenceAbsenceTimes(value) == U16Pairs(value, 3)

\* a sub-sensor's zones, in any order and with repeats, are one mask
EncodeSegmentMap(zoneLists) ==
  [i \in 1..4 |-> IF i = 4 THEN 0 ELSE Mask([z \in 1..7 |-> z - 1 \in ToSet(zoneLists[i])])]
DecodeSegmentMap(value) ==
  [i \in SubSensors |-> Sorted({z \in Zones : Bits(value[i], 7)[z + 1]})]

EncodeSampleInterval(index, seconds) == <<index>> \o U16(seconds)

Encode(section, value) ==
  CASE section \in {"sensitivity", "detect_mode"} -> <<value>>
    [] section \in {"zone_enable", "subsensor_enable"} -> <<Mask(value)>>
    [] section = "zone_thresholds" -> EncodeZoneThresholds(value)
    [] section = "subsensor_zones" -> EncodeSegmentMap(value)
    [] section = "subsensor_timing" -> EncodePresenceAbsenceTimes(value)

\* what decode_config() needs of an answer
Complete(frame) ==
  /\ \A i \in DOMAIN ReadConfigTags : Get(frame, ReadConfigTags[i]) # <<>>
  /\ Len(Get(frame, 51)) = 28 /\ Len(Get(frame, 48)) >= 3 /\ Len(Get(frame, 49)) >= 12

(* -- profiles ------------------------------------------------------------------ *)

NoProfile == [s \in ToSet(Sections) |-> None]

\* decode_config(), then ConfigProfile.from_config(); bits past the known
\* zones and sub-sensors are not captured
FromConfig(frame) ==
  [sensitivity |-> Get(frame, 61)[1], detect_mode |-> Get(frame, 52)[1],
   zone_enable |-> Bits(Get(frame, 50)[1], 7),
   zone_thresholds |-> DecodeZoneThresholds(Get(frame, 51)),
   subsensor_zones |-> DecodeSegmentMap(Get(frame, 48)),
   subsensor_timing |-> DecodePresenceAbsenceTimes(Get(frame, 49)),
   subsensor_enable |-> Bits(Get(frame, 41)[1], 3)]

U16s == 0..65535
IsU16Pairs(pairs, n) ==
  Len(pairs) = n /\ \A i \in DOMAIN pairs : pairs[i][1] \in U16s /\ pairs[i][2] \in U16s

ValidSection(section, value) ==
  CASE section \in {"sensitivity", "detect_mode"} -> value \in 1..4
    [] section = "zone_enable" -> Len(value) = 7
    [] section = "subsensor_enable" -> Len(value) = 3
    [] section = "zone_thresholds" -> IsU16Pairs(value, 7)
    [] section = "subsensor_timing" -> IsU16Pairs(value, 3)
    [] section = "subsensor_zones" -> Len(value) = 3 /\ \A i \in SubSensors : ToSet(value[i]) \subseteq Zones

SectionsPresent(profile) == {s \in ToSet(Sections) : profile[s] # None}

Validate(profile) == \A s \in SectionsPresent(profile) : ValidSection(s, profile[s])

\* zones compare as the mask that is stored
Plain(section, value) ==
  IF section = "subsensor_zones" THEN [i \in SubSensors |-> ToSet(value[i])] ELSE value

DiffSections(profile, other, sections) ==
  {s \in sections : Plain(s, profile[s]) # Plain(s, other[s])}

(* -- changes -------------------------------------------------------------------- *)

\* Changes are a profile whose thresholds may be [relative, trigger, maintain],
\* with None for each zone that stays as it is.
NewThreshold(relative, current, value) ==
  IF value = None THEN current ELSE IF relative THEN current + value ELSE value

ResolveThresholds(change, current) ==
  [z \in 1..7 |-> <<NewThreshold(change.relative, current[z][1], change.trigger[z]),
                    NewThreshold(change.relative, current[z][2], change.maintain[z])>>]

\* SensorChanges.resolve(); a target that does not validate is refused
Resolve(changes, current) ==
  IF changes.zone_thresholds = None THEN changes
  ELSE [changes EXCEPT !.zone_thresholds = ResolveThresholds(@, current.zone_thresholds)]

\* apply_profile() never writes "space learning"
Written(target) ==
  {s \in SectionsPresent(target) : ~(s = "detect_mode" /\ target.detect_mode = SpaceLearning)}

(* -- what a preview shows ---------------------------------------------------------- *)

\* Mutant of Merge: the skipped mode is shown as if it were written.
MergeAll(current, target) ==
  [s \in ToSet(Sections) |-> IF target[s] # None THEN target[s] ELSE current[s]]

Merge(current, target) ==
  [s \in ToSet(Sections) |-> IF s \in Written(target) THEN target[s] ELSE current[s]]

\* profile_view(): zones sorted and without repeats
ProfileView(profile) ==
  [profile EXCEPT !.subsensor_zones = [i \in SubSensors |-> Sorted(ToSet(@[i]))]]

Row(index, part, before, after) == [index |-> index, part |-> part, before |-> before, after |-> after]

PairRows(parts, before, after) ==
  {Row(x[1], parts[x[2]], before[x[1]][x[2]], after[x[1]][x[2]]) :
     x \in {y \in (DOMAIN before) \X {1, 2} : before[y[1]][y[2]] # after[y[1]][y[2]]}}

ListRows(before, after) ==
  {Row(i, "value", before[i], after[i]) : i \in {j \in DOMAIN before : before[j] # after[j]}}

ScalarRows(before, after) == IF before = after THEN {} ELSE {Row(0, "value", before, after)}

\* for every section, a row for every value that differs
DiffRows(before, after) ==
  [s \in ToSet(Sections) |->
     CASE s \in {"sensitivity", "detect_mode"} -> ScalarRows(before[s], after[s])
       [] s = "zone_thresholds" -> PairRows(<<"trigger", "maintain">>, before[s], after[s])
       [] s = "subsensor_timing" -> PairRows(<<"presence_s", "absence_s">>, before[s], after[s])
       [] OTHER -> ListRows(before[s], after[s])]
=============================================================================
