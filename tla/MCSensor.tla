------------------------------ MODULE MCSensor ------------------------------
EXTENDS Sensor

Pairs(t, m) == [z \in 1..7 |-> <<t, m>>]

MCInitTags ==
  (41 :> <<7>>) @@ (48 :> <<7, 24, 96, 0>>) @@ (49 :> EncodePresenceAbsenceTimes([i \in 1..3 |-> <<5, 30>>])) @@
  (50 :> <<127>>) @@ (51 :> EncodeZoneThresholds(Pairs(80, 40))) @@ (52 :> <<2>>) @@
  (53 :> <<0, 8, 16, 24, 32, 40, 48, 56>>) @@ (54 :> <<0>>) @@ (56 :> <<0>>) @@ (61 :> <<2>>) @@ (32 :> <<0>>) @@
  (33 :> <<0, 0, 0, 0>>) @@ (98 :> <<0, 0, 60, 1, 0, 60, 2, 0, 60>>)

MCLearned == [z \in 1..7 |-> <<77 - 7 * z, 31 - z>>]

One(value) == [z \in 1..7 |-> IF z = 3 THEN value ELSE None]

\* live output, space learning, the interval of sub-sensor 1
MCSettings == {<<54, <<1>>>>, <<52, <<SpaceLearning>>>>, <<98, EncodeSampleInterval(1, 300)>>}

\* thresholds that look like a frame's head and tail, a relative change that may
\* leave the range, zones out of order and twice, a mode that must not be written
MCDrafts ==
  {[NoProfile EXCEPT !["zone_thresholds"] =
      [relative |-> FALSE, trigger |-> [z \in 1..7 |-> 21930], maintain |-> One(21930)]],
   [NoProfile EXCEPT !["zone_thresholds"] = [relative |-> TRUE, trigger |-> One(43606), maintain |-> One(-1)],
                     !["detect_mode"] = SpaceLearning],
   [NoProfile EXCEPT !["subsensor_zones"] = <<<<4, 1, 4>>, <<>>, <<0>>>>, !["zone_enable"] = [z \in 1..7 |-> z # 2],
                     !["subsensor_timing"] = <<<<65535, 0>>, <<1, 256>>, <<43605, 21930>>>>,
                     !["subsensor_enable"] = <<TRUE, FALSE, TRUE>>]}
=============================================================================
