---------------------------- MODULE FrontProofs ----------------------------
(***************************************************************************)
(* Proofs about what stands between users and a session: Live, Hub,        *)
(* LiveFeed, Peer and Console, for every set of viewers, pages, sensors,   *)
(* terminals and sessions and every bound on what is under way.            *)
(***************************************************************************)
EXTENDS Live, Hub, LiveFeed, Peer, Console, SequenceTheorems, FiniteSetTheorems, TLAPS

-----------------------------------------------------------------------------
(* The live output of a session *)

\* What the sensor's tag54 will be when the writes under way have arrived.
Target == IF writes = <<>> THEN out ELSE writes[Len(writes)]

\* That is what the viewers want or, while a calibration runs, what it found.
StreamInv == link = "CONNECTED" /\ missed = "no"
               => Target = IF busy = "calibration" THEN wasOn ELSE Wanted

\* A connect never falls back to a link.
BackInv == link = "CONNECTING" => back # "CONNECTED"

\* A connect resets the value before there is a link to show it on.
PirInv == link \in {"CONNECTING", "CONNECTED"} => pir # "earlier"

IInv == TypeOK /\ BackInv

-----------------------------------------------------------------------------
LEMMA TypeInit == Init => TypeOK
<1>1. Init => LinkTypeOK
  BY DEF Init, LinkInit, LinkTypeOK, LinkStates
<1>2. Init => missed \in {"no", "write", "connect"} /\ fresh \in BOOLEAN /\ late \in BOOLEAN /\ oldLink \in BOOLEAN
  BY DEF Init
<1>3. QED
  BY <1>1, <1>2 DEF Init, TypeOK, Switch

\* A new write becomes the last one.
LEMMA WriteLast ==
  ASSUME TypeOK, NEW v \in Switch, Write(v)
  PROVE  /\ writes' \in Seq(Switch) /\ writes' # <<>> /\ writes'[Len(writes')] = v
         /\ missed' = "no" /\ out' = out
  BY AppendProperties DEF TypeOK, Write

\* Dropping a write that is not the last leaves the last one in place.
LEMMA DropLast ==
  ASSUME writes \in Seq(Switch), NEW i \in 1..Len(writes), Dropped(i)
  PROVE  /\ writes' \in Seq(Switch)
         /\ i # Len(writes) => writes' # <<>> /\ writes'[Len(writes')] = writes[Len(writes)]
<1> DEFINE s == SubSeq(writes, 1, i - 1)
           t == SubSeq(writes, i + 1, Len(writes))
<1>1. s \in Seq(Switch) /\ Len(s) = i - 1
  BY SubSeqProperties
<1>2. t \in Seq(Switch) /\ Len(t) = Len(writes) - i
      /\ \A k \in 1..(Len(writes) - i) : t[k] = writes[i + k]
  BY SubSeqProperties
<1>3. writes' = s \o t
  BY DEF Dropped
<1> HIDE DEF s, t
<1>4. writes' \in Seq(Switch) /\ Len(writes') = Len(s) + Len(t)
  BY <1>1, <1>2, <1>3, ConcatProperties
<1>5. ASSUME i # Len(writes)
      PROVE  writes' # <<>> /\ writes'[Len(writes')] = writes[Len(writes)]
  <2>1. Len(t) \in Nat \ {0} /\ t[Len(t)] = writes[i + Len(t)] /\ i + Len(t) = Len(writes)
    BY <1>2, <1>5
  <2>2. (s \o t)[Len(s) + Len(t)] = t[Len(t)]
    BY <1>1, <1>2, <2>1, ConcatProperties
  <2>3. Len(writes') # 0
    BY <1>1, <1>4, <2>1
  <2>4. writes' # <<>>
    BY <1>4, <2>3, EmptySeq
  <2>5. QED
    BY <1>3, <1>4, <2>1, <2>2, <2>4
<1>6. QED
  BY <1>4, <1>5

\* The oldest write arriving leaves the last one in place, or arrives as the target.
LEMMA ApplyTarget ==
  ASSUME TypeOK, Applied
  PROVE  writes' \in Seq(Switch) /\ out' \in Switch /\ Target' = Target
<1>1. writes \in Seq(Switch) /\ writes # <<>> /\ writes' = Tail(writes) /\ out' = Head(writes)
  BY DEF TypeOK, Applied
<1>2. /\ writes' \in Seq(Switch) /\ out' \in Switch /\ Len(writes') = Len(writes) - 1
      /\ \A k \in 1..Len(writes') : writes'[k] = writes[k + 1]
  BY <1>1, HeadTailProperties
<1>3. Len(writes) \in Nat \ {0} /\ out' = writes[1]
  BY <1>1, EmptySeq
<1>4. CASE Len(writes) = 1
  <2>1. writes' = <<>>
    BY <1>2, <1>4, EmptySeq
  <2>2. QED
    BY <1>1, <1>2, <1>3, <1>4, <2>1 DEF Target
<1>5. CASE Len(writes) > 1
  <2>1. Len(writes') \in 1..Len(writes') /\ writes' # <<>>
    BY <1>2, <1>5
  <2>2. writes'[Len(writes')] = writes[Len(writes)]
    BY <1>2, <1>3, <2>1
  <2>3. QED
    BY <1>1, <1>2, <2>1, <2>2 DEF Target
<1>6. Len(writes) = 1 \/ Len(writes) > 1
  <2>1. \A n \in Nat \ {0} : n = 1 \/ n > 1
    OBVIOUS
  <2>2. QED
    BY <1>3, <2>1, Zenon
<1>7. QED
  BY <1>4, <1>5, <1>6

LEMMA TypeStep == TypeOK /\ [Next]_vars => TypeOK'
<1> SUFFICES ASSUME TypeOK, [Next]_vars PROVE TypeOK'
  OBVIOUS
<1> USE DEF TypeOK, LinkTypeOK, LinkStates, stream, reads
<1>w. Wanted \in Switch
  BY DEF Wanted, Switch
<1>s. ASSUME NewStream
      PROVE  pir' \in {"none", "current", "earlier", "stray"} /\ fresh' \in BOOLEAN /\ late' \in BOOLEAN
  BY <1>s DEF NewStream
<1>v. ASSUME NEW v \in Switch, Write(v)
      PROVE  writes' \in Seq(Switch) /\ out' \in Switch /\ missed' \in {"no", "write", "connect"}
  BY <1>v, WriteLast
<1>1. ASSUME NEW v \in Viewers, AcquireLive(v)
      PROVE  TypeOK'
  <2>1. /\ UNCHANGED <<link, back, busy, wasOn, oldLink>> /\ watch' \in SUBSET Viewers
        /\ (Write("on") /\ NewStream) \/ UNCHANGED <<stream, reads>>
    BY <1>1, Zenon DEF AcquireLive
  <2>2. CASE Write("on") /\ NewStream
    <3>1. writes' \in Seq(Switch) /\ out' \in Switch /\ missed' \in {"no", "write", "connect"}
      BY <1>v, <2>2 DEF Switch
    <3>2. QED
      BY <1>s, <2>1, <2>2, <3>1, Zenon
  <2>3. CASE UNCHANGED <<stream, reads>>
    BY <2>1, <2>3
  <2>4. QED
    BY <2>1, <2>2, <2>3
<1>2. ASSUME NEW v \in Viewers, ReleaseLive(v)
      PROVE  TypeOK'
  <2>1. /\ UNCHANGED <<link, back, busy, wasOn, reads, oldLink>> /\ watch' \in SUBSET Viewers
        /\ Write("off") \/ UNCHANGED stream
    BY <1>2 DEF ReleaseLive
  <2>2. writes' \in Seq(Switch) /\ out' \in Switch /\ missed' \in {"no", "write", "connect"}
    BY <1>v, <2>1 DEF Switch
  <2>3. QED
    BY <2>1, <2>2
<1>3. CASE Applied
  BY <1>3, ApplyTarget DEF Applied
<1>4. ASSUME NEW i \in 1..Len(writes), Dropped(i)
      PROVE  TypeOK'
  <2>1. writes' \in Seq(Switch)
    BY <1>4, DropLast
  <2>2. missed' \in {"no", "write", "connect"}
    BY <1>4, Zenon DEF Dropped
  <2>3. QED
    BY <1>4, <2>1, <2>2 DEF Dropped
<1>5. ASSUME NEW reason \in {"other", "calibration"}, StartOperation(reason)
      PROVE  TypeOK'
  <2>1. busy' \in {"none", "other", "calibration"} /\ wasOn' \in Switch
    BY <1>5, <1>w DEF StartOperation
  <2>2. UNCHANGED <<link, back, watch, stream, oldLink>> /\ (NewStream \/ UNCHANGED reads)
    BY <1>5 DEF StartOperation
  <2>3. QED
    BY <1>s, <2>1, <2>2
<1>6. CASE EndOperation
  <2>1. /\ UNCHANGED <<link, back, watch, wasOn, reads, oldLink>> /\ busy' = "none"
        /\ Write(Wanted) \/ UNCHANGED stream
    BY <1>6 DEF EndOperation
  <2>2. writes' \in Seq(Switch) /\ out' \in Switch /\ missed' \in {"no", "write", "connect"}
    BY <1>v, <1>w, <2>1
  <2>3. QED
    BY <2>1, <2>2
<1>7. CASE StartConnect
  BY <1>7, <1>s DEF StartConnect, Begin
<1>8. CASE ConnectOk
  <2>1. "on" \in Switch /\ "off" \in Switch
    BY DEF Switch
  <2>2. <<"on">> \in Seq(Switch) /\ <<>> \in Seq(Switch)
    BY <2>1
  <2>3. writes' \in Seq(Switch) /\ out' \in Switch
    BY <1>8, <2>1, <2>2, Zenon DEF ConnectOk
  <2>4. QED
    BY <1>8, <2>3 DEF ConnectOk, Succeed
<1>9. CASE ConnectFails
  BY <1>9 DEF ConnectFails, Fail
<1>10. CASE LinkEnds
  <2>1. fresh' \in BOOLEAN /\ late' \in BOOLEAN /\ oldLink' \in BOOLEAN
    BY <1>10, Zenon DEF LinkEnds
  <2>2. link' \in LinkStates /\ back' \in LinkStates \ {"CONNECTING"}
    BY <1>10 DEF LinkEnds, Lost, Release
  <2>e. <<>> \in Seq(Switch) /\ "off" \in Switch
    BY DEF Switch
  <2>3. writes' \in Seq(Switch) /\ out' \in Switch /\ missed' \in {"no", "write", "connect"}
    BY <1>10, <2>e, Zenon DEF LinkEnds
  <2>4. watch' = watch /\ busy' = busy /\ wasOn' = wasOn
    BY <1>10 DEF LinkEnds
  <2>6. pir' \in {"none", "earlier"}
    BY <1>10 DEF LinkEnds
  <2>5. QED
    BY <2>1, <2>2, <2>3, <2>4, <2>6, Zenon
<1>11. CASE OldLinkGone
  <2>1. oldLink' \in BOOLEAN /\ UNCHANGED <<link, back, watch, busy, wasOn, stream, reads>>
    BY <1>11, Zenon DEF OldLinkGone
  <2>2. QED
    BY <2>1
<1>12. CASE Push
  <2>1. /\ pir' \in {"none", "current", "earlier", "stray"}
        /\ UNCHANGED <<link, back, watch, busy, wasOn, stream, fresh, late, oldLink>>
    BY <1>12 DEF Push
  <2>2. QED
    BY <2>1
<1>13. CASE PollReads \/ PollLate
  <2>1. /\ fresh' \in BOOLEAN /\ late' \in BOOLEAN
        /\ UNCHANGED <<link, back, watch, busy, wasOn, stream, pir, oldLink>>
    BY <1>13 DEF PollReads, PollLate
  <2>2. QED
    BY <2>1
<1>14. CASE PollAnswered
  <2>1. /\ fresh' \in BOOLEAN /\ pir' \in {"none", "current", "earlier", "stray"}
        /\ UNCHANGED <<link, back, watch, busy, wasOn, stream, late, oldLink>>
    BY <1>14 DEF PollAnswered
  <2>2. QED
    BY <2>1
<1>15. CASE UNCHANGED vars
  BY <1>15 DEF vars
<1>16. QED
  BY <1>1, <1>2, <1>3, <1>4, <1>5, <1>6, <1>7, <1>8, <1>9, <1>10, <1>11, <1>12, <1>13, <1>14, <1>15
     DEF Next

LEMMA BackStep == TypeOK /\ BackInv /\ [Next]_vars => BackInv'
<1> SUFFICES ASSUME TypeOK, BackInv, [Next]_vars PROVE BackInv'
  OBVIOUS
<1> USE DEF BackInv
<1>1. CASE UNCHANGED <<link, back>>
  BY <1>1
<1>2. CASE StartConnect \/ ConnectOk \/ ConnectFails \/ LinkEnds
  BY <1>2, Zenon DEF StartConnect, ConnectOk, ConnectFails, LinkEnds, Begin, Succeed, Fail, Lost, Release
<1>3. [Next]_vars => UNCHANGED <<link, back>> \/ StartConnect \/ ConnectOk \/ ConnectFails \/ LinkEnds
  BY DEF Next, vars, AcquireLive, ReleaseLive, Applied, Dropped, StartOperation, EndOperation,
         OldLinkGone, Push, PollReads, PollAnswered, PollLate
<1>4. QED
  BY <1>1, <1>2, <1>3

LEMMA Invariance == Spec => []IInv
<1>1. Init => IInv
  BY TypeInit DEF Init, LinkInit, BackInv, IInv
<1>2. IInv /\ [Next]_vars => IInv'
  BY TypeStep, BackStep DEF IInv
<1>3. QED
  BY <1>1, <1>2, PTL DEF Spec

\* Live.tla's type invariant, and the part of it that the abstract link needs to be consistent.
THEOREM TypeCorrect == Spec => []TypeOK
BY Invariance, PTL DEF IInv

-----------------------------------------------------------------------------
(* The stream follows the viewers, but for a connect that succeeds under a calibration. *)

LEMMA StreamStep ==
  ASSUME IInv, StreamInv, [Next]_vars
  PROVE  StreamInv'
<1> USE DEF StreamInv, stream, reads
<1>t. TypeOK /\ BackInv
  BY DEF IInv
<1>w. Wanted \in Switch
  BY DEF Wanted, Switch
<1>v. ASSUME NEW v \in Switch, Write(v)
      PROVE  Target' = v
  BY <1>v, <1>t, WriteLast DEF Target
<1>1. ASSUME NEW v \in Viewers, AcquireLive(v)
      PROVE  StreamInv'
  <2>1. UNCHANGED <<link, busy, wasOn>> /\ Wanted' = "on"
    BY <1>1 DEF AcquireLive, Wanted
  <2>2. CASE watch = {} /\ Writable
    BY <1>1, <1>v, <2>1, <2>2 DEF AcquireLive, Writable, Switch
  <2>3. CASE ~(watch = {} /\ Writable)
    <3>1. UNCHANGED <<writes, out, missed>>
      BY <1>1, <2>3, Zenon DEF AcquireLive
    <3>2. Target' = Target
      BY <3>1 DEF Target
    <3>3. link = "CONNECTED" /\ busy # "calibration" => Wanted = "on"
      BY <2>3 DEF Writable, Wanted
    <3>4. QED
      BY <2>1, <3>1, <3>2, <3>3
  <2>4. QED
    BY <2>2, <2>3
<1>2. ASSUME NEW v \in Viewers, ReleaseLive(v)
      PROVE  StreamInv'
  <2>1. UNCHANGED <<link, busy, wasOn>> /\ watch' = watch \ {v} /\ v \in watch
    BY <1>2 DEF ReleaseLive
  <2>2. CASE watch = {v} /\ Writable
    BY <1>2, <1>v, <2>1, <2>2 DEF ReleaseLive, Writable, Switch, Wanted
  <2>3. CASE ~(watch = {v} /\ Writable)
    <3>1. UNCHANGED <<writes, out, missed>>
      BY <1>2, <2>3, Zenon DEF ReleaseLive
    <3>2. Target' = Target
      BY <3>1 DEF Target
    <3>3. link = "CONNECTED" /\ busy # "calibration" => Wanted' = Wanted
      BY <2>1, <2>3 DEF Writable, Wanted
    <3>4. QED
      BY <2>1, <3>1, <3>2, <3>3
  <2>4. QED
    BY <2>2, <2>3
<1>3. CASE Applied
  <2>1. Target' = Target
    BY <1>3, <1>t, ApplyTarget
  <2>2. QED
    BY <1>3, <2>1 DEF Applied, Wanted
<1>4. ASSUME NEW i \in 1..Len(writes), Dropped(i)
      PROVE  StreamInv'
  <2>1. UNCHANGED <<link, watch, busy, wasOn, out>>
    BY <1>4 DEF Dropped
  <2>2. CASE i = Len(writes)
    <3>1. missed' = "write"
      BY <1>4, <2>2, Zenon DEF Dropped
    <3>2. QED
      BY <3>1
  <2>3. CASE i # Len(writes)
    <3>1. writes \in Seq(Switch) /\ writes # <<>>
      BY <1>4, <1>t, EmptySeq DEF TypeOK
    <3>2. Target' = Target
      BY <1>4, <2>3, <3>1, DropLast DEF Target
    <3>4. missed' = missed
      BY <1>4, <2>3 DEF Dropped
    <3>5. Wanted' = Wanted
      BY <2>1 DEF Wanted
    <3>6. QED
      BY <2>1, <3>2, <3>4, <3>5
  <2>4. QED
    BY <2>2, <2>3
<1>5. ASSUME NEW reason \in {"other", "calibration"}, StartOperation(reason)
      PROVE  StreamInv'
  <2>1. /\ UNCHANGED <<link, watch, writes, out, missed>> /\ busy = "none"
        /\ busy' = "calibration" => wasOn' = Wanted
    BY <1>5 DEF StartOperation
  <2>2. QED
    BY <2>1 DEF Target, Wanted
<1>6. CASE EndOperation
  <2>1. UNCHANGED <<link, watch, wasOn>> /\ busy' = "none" /\ Wanted' = Wanted
    BY <1>6 DEF EndOperation, Wanted
  <2>2. CASE busy = "calibration" /\ Wanted # wasOn /\ link = "CONNECTED"
    BY <1>6, <1>v, <1>w, <2>1, <2>2 DEF EndOperation
  <2>3. CASE ~(busy = "calibration" /\ Wanted # wasOn /\ link = "CONNECTED")
    <3>1. UNCHANGED <<writes, out, missed>>
      BY <1>6, <2>3, Zenon DEF EndOperation
    <3>2. Target' = Target
      BY <3>1 DEF Target
    <3>3. QED
      BY <2>1, <2>3, <3>1, <3>2
  <2>4. QED
    BY <2>2, <2>3
<1>7. CASE StartConnect \/ ConnectFails
  <2>1. link' # "CONNECTED" \/ (link' = link /\ UNCHANGED <<watch, busy, wasOn, writes, out, missed>>)
    BY <1>7, <1>t, Zenon DEF StartConnect, ConnectFails, Begin, Fail, BackInv
  <2>2. QED
    BY <2>1 DEF Target, Wanted
<1>8. CASE ConnectOk
  <2>1. CASE busy = "calibration"
    BY <1>8, <2>1 DEF ConnectOk
  <2>2. CASE busy # "calibration"
    <3>1. /\ out' = "off" /\ UNCHANGED <<watch, busy, wasOn>>
          /\ writes' = IF watch # {} THEN <<"on">> ELSE <<>>
      BY <1>8, <2>2 DEF ConnectOk
    <3>2. QED
      BY <2>2, <3>1 DEF Target, Wanted
  <2>3. QED
    BY <2>1, <2>2
<1>9. CASE LinkEnds
  <2>1. link' # "CONNECTED"
    BY <1>9, Zenon DEF LinkEnds, Lost, Release
  <2>2. QED
    BY <2>1
<1>10. CASE OldLinkGone \/ Push \/ PollReads \/ PollAnswered \/ PollLate
  <2>1. UNCHANGED <<link, watch, busy, wasOn, writes, out, missed>>
    BY <1>10 DEF OldLinkGone, Push, PollReads, PollAnswered, PollLate
  <2>2. QED
    BY <2>1 DEF Target, Wanted
<1>11. CASE UNCHANGED vars
  BY <1>11 DEF vars, Target, Wanted
<1>12. QED
  BY <1>1, <1>2, <1>3, <1>4, <1>5, <1>6, <1>7, <1>8, <1>9, <1>10, <1>11 DEF Next

\* Init has no link, so the stream invariant holds there for want of one.
LEMMA StreamInvariance == Spec => []StreamInv
<1>1. Init => StreamInv
  BY DEF Init, LinkInit, StreamInv
<1>2. IInv /\ StreamInv /\ [Next]_vars => StreamInv'
  BY StreamStep
<1>3. QED
  BY <1>1, <1>2, Invariance, PTL DEF Spec

\* Whatever the viewers and however many, a connected sensor's stream is what they asked for,
\* except after a connect that succeeded before a calibration let go of the operation lock.
THEOREM StreamAlways == Spec => []StreamMatches
<1>1. StreamInv => StreamMatches
  BY DEF StreamInv, StreamMatches, Settled, Target, Writable
<1>2. QED
  BY <1>1, StreamInvariance, PTL

\* A calibration finds tag54 untouched until it lets the lock go.
THEOREM CalibrationAlways == Spec => []CalibrationUntouched
<1>1. StreamInv => CalibrationUntouched
  BY DEF StreamInv, CalibrationUntouched, Target
<1>2. QED
  BY <1>1, StreamInvariance, PTL

-----------------------------------------------------------------------------
(* The PIR value. *)

LEMMA PirStep == BackInv /\ PirInv /\ [Next]_vars => PirInv'
<1> SUFFICES ASSUME BackInv, PirInv, [Next]_vars PROVE PirInv'
  OBVIOUS
<1> USE DEF PirInv, reads, stream
<1>1. ASSUME NEW v \in Viewers, AcquireLive(v)
      PROVE  PirInv'
  <2>1. link' = link /\ (pir' = "none" \/ pir' = pir)
    BY <1>1, Zenon DEF AcquireLive, NewStream
  <2>2. QED
    BY <2>1
<1>2. CASE LinkEnds
  <2>1. link' \notin {"CONNECTING", "CONNECTED"}
    BY <1>2, Zenon DEF LinkEnds, Lost, Release
  <2>2. QED
    BY <2>1
<1>3. ASSUME NEW reason \in {"other", "calibration"}, StartOperation(reason)
      PROVE  PirInv'
  <2>1. link' = link /\ (pir' = "none" \/ pir' = pir)
    BY <1>3 DEF StartOperation, NewStream
  <2>2. QED
    BY <2>1
<1>4. CASE StartConnect
  BY <1>4 DEF StartConnect, NewStream
<1>5. CASE ConnectOk
  BY <1>5 DEF ConnectOk, Succeed
<1>6. CASE ConnectFails
  BY <1>6 DEF ConnectFails, Fail, BackInv
<1>7. CASE Push
  BY <1>7 DEF Push
<1>8. CASE PollAnswered
  BY <1>8 DEF PollAnswered
<1>9. CASE UNCHANGED <<link, pir>>
  BY <1>9
<1>10. QED
  BY <1>1, <1>2, <1>3, <1>4, <1>5, <1>6, <1>7, <1>8, <1>9
     DEF Next, vars, ReleaseLive, Applied, Dropped, EndOperation, OldLinkGone, PollReads, PollLate

\* A value read or pushed on an earlier link is never shown on a later one, whichever poll
\* answers come late: the resets of last_pir and the stream number guard every one of them.
\* A stray push of a link that is still closing is the exception, see run live_old_link: a push
\* carries no such number.
THEOREM PirAlways == Spec => []PirIsCurrent
<1>1. Init => PirInv
  BY DEF Init, LinkInit, PirInv
<1>2. IInv /\ PirInv /\ [Next]_vars => PirInv'
  BY PirStep DEF IInv
<1>3. PirInv => PirIsCurrent
  BY DEF PirInv, PirIsCurrent
<1>4. QED
  BY <1>1, <1>2, <1>3, Invariance, PTL DEF Spec

-----------------------------------------------------------------------------
(* The hub *)

IsList(s) == \E S : s \in Seq(S)

LEMMA Joins ==
  ASSUME NEW s, NEW t, IsList(s), IsList(t)
  PROVE  /\ IsList(s \o t) /\ Len(s) \in Nat /\ Len(t) \in Nat /\ Len(s \o t) = Len(s) + Len(t)
         /\ \A n \in 1..Len(s \o t) : (s \o t)[n] = IF n <= Len(s) THEN s[n] ELSE t[n - Len(s)]
<1>1. PICK S : s \in Seq(S)
  BY DEF IsList
<1>2. PICK T : t \in Seq(T)
  BY DEF IsList
<1>3. s \in Seq(S \cup T) /\ t \in Seq(S \cup T)
  BY <1>1, <1>2
<1>4. s \o t \in Seq(S \cup T)
  BY <1>3
<1>5. QED
  BY <1>3, <1>4, ConcatProperties DEF IsList

LEMMA SmallLists ==
  /\ IsList(<<>>) /\ \A e : IsList(<<e>>)
  /\ \A k \in Nat : \A M : IsList([n \in 1..k |-> M[n]])
<1>1. IsList(<<>>)
  <2>1. <<>> \in Seq({})
    OBVIOUS
  <2>2. QED
    BY <2>1 DEF IsList
<1>2. ASSUME NEW e PROVE IsList(<<e>>)
  <2>1. <<e>> \in Seq({e})
    OBVIOUS
  <2>2. QED
    BY <2>1 DEF IsList
<1>3. ASSUME NEW k \in Nat, NEW M PROVE IsList([n \in 1..k |-> M[n]])
  <2>1. [n \in 1..k |-> M[n]] \in Seq({M[n] : n \in 1..k})
    OBVIOUS
  <2>2. QED
    BY <2>1 DEF IsList
<1>4. QED
  BY <1>1, <1>2, <1>3

TopicNames == {"sites", "pending", "batch", "apply", "gather"}

Marking == [topics : SUBSET TopicNames, sensors : SUBSET Sensors, jobs : SUBSET Sensors, notices : Nat]

\* The parts of what a flush publishes.
SensorMessages(c, m) == PerSensor(m.sensors, LAMBDA d : Message("sensor", d, SensorView(c, d)))
JobMessages(c, m) ==
  PerSensor(m.jobs, LAMBDA d : Message("job", d, [id |-> c.batch.id, job |-> c.batch.job[d]]))
BatchMessages(c, m) == IF "batch" \in m.topics THEN <<Message("batch", 0, c.batch)>> ELSE JobMessages(c, m)
NoticeMessages(m) == [n \in 1..m.notices |-> Message("notice", 0, 0)]

LEMMA MessageParts ==
  ASSUME NEW c, NEW m \in Marking
  PROVE  /\ \A topic, e : IsList(If(topic, m, e))
         /\ IsList(SensorMessages(c, m)) /\ IsList(BatchMessages(c, m)) /\ IsList(NoticeMessages(m))
<1>1. /\ m.sensors \subseteq Sensors /\ m.jobs \subseteq Sensors /\ m.notices \in Nat
  BY DEF Marking
<1>2. ASSUME NEW ds, ds \subseteq Sensors PROVE Cardinality(ds) \in Nat
  <2>1. IsFiniteSet(ds)
    BY <1>2, FS_Subset, HubAssumption
  <2>2. QED
    BY <2>1, FS_CardinalityType
<1>3. ASSUME NEW topic, NEW e PROVE IsList(If(topic, m, e))
  BY SmallLists DEF If
<1>4. IsList(SensorMessages(c, m))
  <2>1. PICK k \in Nat : k = Cardinality(m.sensors)
    BY <1>1, <1>2
  <2>2. QED
    BY <2>1, SmallLists DEF PerSensor, SensorMessages
<1>5. IsList(JobMessages(c, m))
  <2>1. PICK k \in Nat : k = Cardinality(m.jobs)
    BY <1>1, <1>2
  <2>2. QED
    BY <2>1, SmallLists DEF PerSensor, JobMessages
<1>6. IsList(BatchMessages(c, m))
  BY <1>5, SmallLists DEF BatchMessages
<1>7. IsList(NoticeMessages(m))
  BY <1>1, SmallLists DEF NoticeMessages
<1>8. QED
  BY <1>3, <1>4, <1>6, <1>7

\* What a flush publishes is a list, whatever is marked.
LEMMA MessagesList ==
  ASSUME NEW c, NEW m \in Marking
  PROVE  IsList(Messages(c, m))
<1> DEFINE sites == If("sites", m, Message("sites", 0, c.sites))
           imports == If("pending", m, Message("pending", 0, c.pending))
           sensors == SensorMessages(c, m)
           batch == BatchMessages(c, m)
           apply == If("apply", m, Message("apply", 0, c.apply))
           gather == If("gather", m, Message("gather", 0, GatherStatus(c)))
           notices == NoticeMessages(m)
<1>1. /\ IsList(sites) /\ IsList(imports) /\ IsList(sensors) /\ IsList(batch) /\ IsList(apply)
      /\ IsList(gather) /\ IsList(notices)
  BY MessageParts
<1>2. Messages(c, m) = sites \o imports \o sensors \o batch \o apply \o gather \o notices
  BY DEF Messages, SensorMessages, BatchMessages, JobMessages, NoticeMessages
<1> HIDE DEF sites, imports, sensors, batch, apply, gather, notices
<1>3. IsList(sites \o imports \o sensors \o batch)
  <2>1. IsList(sites \o imports)
    BY <1>1, Joins
  <2>2. IsList(sites \o imports \o sensors)
    BY <1>1, <2>1, Joins
  <2>3. QED
    BY <1>1, <2>2, Joins
<1>4. IsList(sites \o imports \o sensors \o batch \o apply)
  BY <1>1, <1>3, Joins
<1>5. IsList(sites \o imports \o sensors \o batch \o apply \o gather)
  BY <1>1, <1>4, Joins
<1>6. QED
  BY <1>1, <1>2, <1>5, Joins

\* The queues and the pages, with whatever the messages hold.
HubTyped ==
  /\ seq \in Nat /\ marks \in Marking
  /\ routes.release \subseteq Sensors
  /\ routes = [release |-> routes.release, stop |-> routes.stop, cancel |-> routes.cancel]
  /\ \E S : client \in [Pages -> [conn : {"off", "open", "closing"}, queue : Seq([seq : Int, m : S])]]
  /\ \E V : page \in [Pages -> [last : Int, view : V]]

HubInv == HubTyped /\ NoGap

LEMMA HubStarts == HubInit => HubInv
<1> SUFFICES ASSUME HubInit PROVE HubInv
  OBVIOUS
<1>1. /\ seq = 0 /\ marks = NoMarks /\ routes = NoRoutes
      /\ client = [p \in Pages |-> [conn |-> "off", queue |-> <<>>]]
      /\ page = [p \in Pages |-> [last |-> -1, view |-> Snapshot(core)]]
  BY DEF HubInit
<1>2. marks \in Marking
  BY <1>1 DEF NoMarks, Marking
<1>3. client \in [Pages -> [conn : {"off", "open", "closing"}, queue : Seq([seq : Int, m : {}])]]
  BY <1>1
<1>4. page \in [Pages -> [last : Int, view : {Snapshot(core)}]]
  BY <1>1
<1>5. HubTyped
  BY <1>1, <1>2, <1>3, <1>4 DEF HubTyped, NoRoutes
<1>6. NoGap
  BY <1>1 DEF NoGap
<1>7. QED
  BY <1>5, <1>6 DEF HubInv

\* A queue goes on from `last` to the number of the last message there is.
GoesOn(q, last, to) ==
  /\ \A n \in 2..Len(q) : q[n].seq = q[n - 1].seq + 1
  /\ q # <<>> /\ q[1].m.kind # "snapshot" => q[1].seq = last + 1
  /\ (IF q = <<>> THEN last ELSE q[Len(q)].seq) = to

\* What is published goes on from what is queued.
LEMMA GoesOnWith ==
  ASSUME NEW S, NEW q \in Seq([seq : Int, m : S]), NEW last \in Int, NEW from \in Nat, NEW k \in Nat, NEW ms,
         NEW new, new = [n \in 1..k |-> [seq |-> from + n, m |-> ms[n]]], GoesOn(q, last, from)
  PROVE  GoesOn(q \o new, last, from + k)
<1>1. IsList(q) /\ IsList(new) /\ Len(new) = k
  <2>1. PICK e : e = new
    OBVIOUS
  <2>2. DOMAIN e = 1..k /\ e = [n \in 1..k |-> e[n]]
    BY <2>1
  <2>3. IsList(e)
    BY <2>2, SmallLists
  <2>4. PICK T : e \in Seq(T)
    BY <2>3 DEF IsList
  <2>5. Len(e) = k
    BY <2>2, <2>4
  <2>6. QED
    BY <2>1, <2>3, <2>5 DEF IsList
<1>2. /\ Len(q) \in Nat /\ Len(q \o new) = Len(q) + k /\ IsList(q \o new)
      /\ \A n \in 1..Len(q \o new) : (q \o new)[n] = IF n <= Len(q) THEN q[n] ELSE new[n - Len(q)]
  BY <1>1, Joins
<1>3. PICK r : r = q \o new
  OBVIOUS
<1>4. \A n \in 1..k : new[n].seq = from + n
  OBVIOUS
<1>5. q # <<>> => Len(q) # 0 /\ q[Len(q)].seq = from
  BY DEF GoesOn
<1>6. q = <<>> => last = from /\ Len(q) = 0
  BY DEF GoesOn
<1>7. ASSUME NEW n \in 2..Len(r) PROVE r[n].seq = r[n - 1].seq + 1
  <2>1. CASE n <= Len(q)
    <3>1. r[n] = q[n] /\ r[n - 1] = q[n - 1] /\ n \in 2..Len(q)
      BY <1>2, <1>3, <1>7, <2>1
    <3>2. QED
      BY <3>1 DEF GoesOn
  <2>2. CASE n = Len(q) + 1
    <3>1. r[n] = new[1] /\ r[n - 1] = q[Len(q)] /\ q # <<>> /\ 1 \in 1..k
      BY <1>2, <1>3, <1>7, <2>2
    <3>2. QED
      BY <1>4, <1>5, <3>1
  <2>3. CASE n > Len(q) + 1
    <3>1. PICK i \in 2..k : i = n - Len(q)
      <4>1. Len(r) = Len(q) + k /\ n \in Int /\ n <= Len(r)
        BY <1>2, <1>3, <1>7
      <4>2. n - Len(q) \in 2..k
        BY <1>2, <2>3, <4>1
      <4>3. QED
        BY <4>2
    <3>2. n - 1 - Len(q) = i - 1 /\ i \in 1..k /\ i - 1 \in 1..k /\ n \in 1..Len(r) /\ n - 1 \in 1..Len(r)
      BY <1>2, <1>3, <1>7, <2>3, <3>1
    <3>3. r[n] = new[i] /\ r[n - 1] = new[i - 1]
      <4>1. ~(n <= Len(q)) /\ ~(n - 1 <= Len(q)) /\ n - Len(q) = i
        BY <1>2, <1>7, <2>3, <3>1
      <4>2. r[n] = new[n - Len(q)] /\ r[n - 1] = new[n - 1 - Len(q)]
        BY <1>2, <1>3, <3>2, <4>1
      <4>3. QED
        BY <3>2, <4>1, <4>2
    <3>4. new[i].seq = from + i /\ new[i - 1].seq = from + (i - 1)
      BY <1>4, <3>2
    <3>5. QED
      BY <3>3, <3>4
  <2>4. QED
    BY <1>2, <1>7, <2>1, <2>2, <2>3
<1>8. r # <<>> /\ r[1].m.kind # "snapshot" => r[1].seq = last + 1
  <2> SUFFICES ASSUME r # <<>>, r[1].m.kind # "snapshot" PROVE r[1].seq = last + 1
    OBVIOUS
  <2>1. 1 \in 1..Len(r)
    <3>1. PICK T : r \in Seq(T)
      BY <1>2, <1>3 DEF IsList
    <3>2. QED
      BY <3>1
  <2>2. CASE q # <<>>
    <3>1. r[1] = q[1]
      BY <1>2, <1>3, <1>5, <2>1, <2>2
    <3>2. QED
      BY <2>2, <3>1 DEF GoesOn
  <2>3. CASE q = <<>>
    <3>1. r[1] = new[1] /\ 1 \in 1..k
      BY <1>2, <1>3, <1>6, <2>1, <2>3
    <3>2. QED
      BY <1>4, <1>6, <2>3, <3>1
  <2>4. QED
    BY <2>2, <2>3
<1>9. (IF r = <<>> THEN last ELSE r[Len(r)].seq) = from + k
  <2>1. PICK T : r \in Seq(T)
    BY <1>2, <1>3 DEF IsList
  <2>2. CASE k = 0
    <3>1. Len(r) = Len(q) /\ \A n \in 1..Len(q) : r[n] = q[n]
      BY <1>2, <1>3, <2>2
    <3>2. CASE q = <<>>
      BY <1>6, <2>1, <2>2, <3>1, <3>2
    <3>3. CASE q # <<>>
      BY <1>5, <2>1, <2>2, <3>1, <3>3
    <3>4. QED
      BY <3>2, <3>3
  <2>3. CASE k # 0
    <3>1. Len(r) = Len(q) + k /\ k \in 1..k /\ Len(r) \in 1..Len(r) /\ ~(Len(r) <= Len(q))
      BY <1>2, <1>3, <2>3
    <3>2. Len(r) - Len(q) = k
      BY <1>2, <3>1
    <3>3. r[Len(r)] = new[k]
      BY <1>2, <1>3, <3>1, <3>2
    <3>4. r # <<>>
      BY <2>1, <3>1
    <3>5. new[k].seq = from + k
      BY <1>4, <3>1
    <3>6. QED
      BY <3>3, <3>4, <3>5
  <2>4. QED
    BY <2>2, <2>3
<1>10. QED
  BY <1>3, <1>7, <1>8, <1>9 DEF GoesOn

\* Publishing keeps every queue whole, or closes the connection.
LEMMA HubPublishes ==
  ASSUME HubInv, NEW c, NEW m \in Marking, Published(c, m), page' = page,
         routes'.release \subseteq Sensors,
         routes' = [release |-> routes'.release, stop |-> routes'.stop, cancel |-> routes'.cancel]
  PROVE  HubInv'
<1>1. PICK ms : ms = Messages(c, m)
  OBVIOUS
<1>2. PICK k \in Nat : k = Len(ms)
  <2>1. PICK M : ms \in Seq(M)
    BY <1>1, MessagesList DEF IsList
  <2>2. QED
    BY <2>1
<1>3. PICK new : new = [n \in 1..k |-> [seq |-> seq + n, m |-> ms[n]]]
  OBVIOUS
<1>4. /\ marks' = NoMarks /\ seq' = seq + k
      /\ client' = [p \in Pages |-> Put(client[p], new)]
  BY <1>1, <1>2, <1>3 DEF Published
<1>5. PICK S : client \in [Pages -> [conn : {"off", "open", "closing"}, queue : Seq([seq : Int, m : S])]]
  BY DEF HubInv, HubTyped
<1>6. PICK R : R = S \cup {ms[n] : n \in 1..k}
  OBVIOUS
<1>7. seq \in Nat /\ seq' \in Nat
  BY <1>4 DEF HubInv, HubTyped
<1>8. new \in Seq([seq : Int, m : R]) /\ Len(new) = k
  <2>1. ASSUME NEW n \in 1..k PROVE [seq |-> seq + n, m |-> ms[n]] \in [seq : Int, m : R]
    <3>1. seq + n \in Int
      BY <1>7
    <3>2. ms[n] \in R
      BY <1>6
    <3>3. QED
      BY <3>1, <3>2
  <2>2. new \in [1..k -> [seq : Int, m : R]]
    BY <1>3, <2>1
  <2>3. PICK Numbered : Numbered = [seq : Int, m : R]
    OBVIOUS
  <2>4. new \in [1..k -> Numbered] /\ k \in Nat
    BY <1>2, <2>2, <2>3
  <2>5. new \in Seq(Numbered) /\ Len(new) = k
    BY <2>4
  <2>6. QED
    BY <2>3, <2>5
<1>9. ASSUME NEW p \in Pages
      PROVE  /\ client'[p] \in [conn : {"off", "open", "closing"}, queue : Seq([seq : Int, m : R])]
             /\ client'[p].conn = "open" => GoesOn(client'[p].queue, page'[p].last, seq')
  <2>1. PICK cl : cl = client[p]
    OBVIOUS
  <2>2. /\ cl \in [conn : {"off", "open", "closing"}, queue : Seq([seq : Int, m : S])]
        /\ client'[p] = Put(cl, new)
    BY <1>4, <1>5, <2>1
  <2>3. cl.queue \in Seq([seq : Int, m : S]) /\ cl.queue \in Seq([seq : Int, m : R])
    <3>1. cl.queue \in Seq([seq : Int, m : S])
      BY <2>2
    <3>2. [seq : Int, m : S] \subseteq [seq : Int, m : R]
      <4>1. S \subseteq R
        BY <1>6
      <4>2. QED
        BY <4>1
    <3>3. QED
      BY <3>1, <3>2, SeqMonotonic
  <2>4. CASE cl.conn # "open"
    <3>1. client'[p] = cl
      BY <2>2, <2>4 DEF Put
    <3>2. QED
      BY <2>2, <2>3, <2>4, <3>1
  <2>5. CASE cl.conn = "open" /\ Len(cl.queue) + Len(new) > MaxQueue
    <3>1. client'[p] = [conn |-> "closing", queue |-> <<>>]
      BY <2>2, <2>5 DEF Put
    <3>2. QED
      BY <3>1
  <2>6. CASE cl.conn = "open" /\ ~(Len(cl.queue) + Len(new) > MaxQueue)
    <3>1. client'[p] = [cl EXCEPT !.queue = cl.queue \o new]
      BY <2>2, <2>6 DEF Put
    <3>2. cl.queue \o new \in Seq([seq : Int, m : R])
      BY <1>8, <2>3
    <3>3. client'[p] = [conn |-> "open", queue |-> cl.queue \o new]
      BY <2>2, <2>6, <3>1
    <3>4. GoesOn(cl.queue, page[p].last, seq) /\ page[p].last \in Int
      BY <2>1, <2>6 DEF HubInv, HubTyped, NoGap, GoesOn
    <3>5. GoesOn(cl.queue \o new, page[p].last, seq + k)
      BY <1>3, <1>7, <2>3, <3>4, GoesOnWith
    <3>6. client'[p].conn = "open" /\ client'[p].queue = cl.queue \o new
      BY <3>3
    <3>7. client'[p] \in [conn : {"off", "open", "closing"}, queue : Seq([seq : Int, m : R])]
      BY <3>2, <3>3
    <3>8. GoesOn(client'[p].queue, page'[p].last, seq')
      BY <1>4, <3>5, <3>6
    <3>9. QED
      BY <3>7, <3>8
  <2>7. QED
    BY <2>4, <2>5, <2>6
<1>10. client' \in [Pages -> [conn : {"off", "open", "closing"}, queue : Seq([seq : Int, m : R])]]
  BY <1>4, <1>9
<1>11. marks' \in Marking
  BY <1>4 DEF NoMarks, Marking
<1>12. HubTyped'
  BY <1>7, <1>10, <1>11 DEF HubInv, HubTyped
<1>13. NoGap'
  BY <1>9 DEF NoGap, GoesOn
<1>14. QED
  BY <1>12, <1>13 DEF HubInv

\* Waiting for the flush changes no queue.
LEMMA HubSchedules ==
  ASSUME HubInv, UNCHANGED <<seq, client, page>>, marks' \in Marking, routes'.release \subseteq Sensors,
         routes' = [release |-> routes'.release, stop |-> routes'.stop, cancel |-> routes'.cancel]
  PROVE  HubInv'
<1>1. HubTyped'
  BY DEF HubInv, HubTyped
<1>2. NoGap'
  BY DEF HubInv, NoGap
<1>3. QED
  BY <1>1, <1>2 DEF HubInv

LEMMA MarkingKept ==
  ASSUME HubInv, NEW topics, topics \subseteq TopicNames, NEW ds, ds \subseteq Sensors
  PROVE  Marked(topics, ds) \in Marking /\ NoMarks \in Marking /\ marks \in Marking
<1>1. marks \in Marking
  BY DEF HubInv, HubTyped
<1>2. /\ marks = [topics |-> marks.topics, sensors |-> marks.sensors, jobs |-> marks.jobs,
                  notices |-> marks.notices]
      /\ marks.topics \cup topics \subseteq TopicNames /\ marks.sensors \cup ds \subseteq Sensors
      /\ marks.jobs \subseteq Sensors /\ marks.notices \in Nat
  BY <1>1 DEF Marking
<1>3. Marked(topics, ds) = [topics |-> marks.topics \cup topics, sensors |-> marks.sensors \cup ds,
                            jobs |-> marks.jobs, notices |-> marks.notices]
  <2>1. PICK k \in Marking : k = marks
    BY <1>1
  <2>2. Marked(topics, ds) = [k EXCEPT !.topics = k.topics \cup topics, !.sensors = k.sensors \cup ds]
    BY <2>1 DEF Marked
  <2>3. QED
    BY <2>1, <2>2 DEF Marking
<1>4. QED
  BY <1>1, <1>2, <1>3 DEF Marking, NoMarks

LEMMA HubRoutes ==
  ASSUME HubInv, NEW c, NEW m \in Marking, Route(c, m)
  PROVE  HubInv'
<1>1. /\ routes'.release \subseteq Sensors
      /\ routes' = [release |-> routes'.release, stop |-> routes'.stop, cancel |-> routes'.cancel]
  BY DEF Route, HubInv, HubTyped
<1>2. Published(c, m) /\ page' = page
  BY DEF Route
<1>3. QED
  BY <1>1, <1>2, HubPublishes

\* The actions that publish at once.
LEMMA HubPublishStep ==
  ASSUME HubInv,
         \/ Flush \/ CreateSite \/ GatherStart \/ ApplyStarts
         \/ \E d \in Sensors : \/ CreateSensor(d) \/ UpdateSensor(d) \/ DeleteSensor(d)
                               \/ \E new \in BOOLEAN : Import(d, new)
         \/ \E ds \in SUBSET Sensors : CreateBatch(ds)
  PROVE  HubInv'
<1>1. \A t \in SUBSET TopicNames : \A ds \in SUBSET Sensors : Marked(t, ds) \in Marking
  BY MarkingKept
<1>2. marks \in Marking
  BY DEF HubInv, HubTyped
<1>3. CASE Flush
  BY <1>2, <1>3, HubRoutes DEF Flush
<1>4. CASE CreateSite
  <2>1. Marked({"sites"}, {}) \in Marking
    BY <1>1 DEF TopicNames
  <2>2. QED
    BY <1>4, <2>1, HubRoutes DEF CreateSite
<1>5. CASE GatherStart
  <2>1. Marked({"gather"}, {}) \in Marking
    BY <1>1 DEF TopicNames
  <2>2. QED
    BY <1>5, <2>1, HubRoutes DEF GatherStart
<1>6. CASE ApplyStarts
  <2>1. Marked({"apply"}, {}) \in Marking
    BY <1>1 DEF TopicNames
  <2>2. QED
    BY <1>6, <2>1, HubRoutes DEF ApplyStarts
<1>7. ASSUME NEW d \in Sensors, CreateSensor(d) PROVE HubInv'
  <2>1. Marked({"pending"}, {d}) \in Marking /\ Marked({}, {d}) \in Marking
    BY <1>1 DEF TopicNames
  <2>2. \E c : Route(c, Marked({"pending"}, {d})) \/ Route(c, Marked({}, {d}))
    BY <1>7 DEF CreateSensor
  <2>3. QED
    BY <2>1, <2>2, HubRoutes
<1>8. ASSUME NEW d \in Sensors, UpdateSensor(d) \/ DeleteSensor(d) PROVE HubInv'
  <2>1. Marked({}, {d}) \in Marking
    BY <1>1
  <2>2. \E c : Route(c, Marked({}, {d}))
    BY <1>8 DEF UpdateSensor, DeleteSensor
  <2>3. QED
    BY <2>1, <2>2, HubRoutes
<1>9. ASSUME NEW d \in Sensors, NEW new \in BOOLEAN, Import(d, new) PROVE HubInv'
  <2>1. PICK t : t = {"pending"} \cup (IF new THEN {"sites"} ELSE {})
    OBVIOUS
  <2>2. Marked(t, {}) \in Marking
    BY <1>1, <2>1 DEF TopicNames
  <2>3. \E c : Route(c, Marked(t, {}))
    BY <1>9, <2>1 DEF Import
  <2>4. QED
    BY <2>2, <2>3, HubRoutes
<1>10. ASSUME NEW ds \in SUBSET Sensors, CreateBatch(ds) PROVE HubInv'
  <2>1. Marked({"batch"}, {}) \in Marking
    BY <1>1 DEF TopicNames
  <2>2. \E c : Route(c, Marked({"batch"}, {}))
    BY <1>10 DEF CreateBatch
  <2>3. QED
    BY <2>1, <2>2, HubRoutes
<1>11. QED
  BY <1>3, <1>4, <1>5, <1>6, <1>7, <1>8, <1>9, <1>10

LEMMA HubReleaseStep ==
  ASSUME HubInv, StopEnds \/ ReleaseEnds
  PROVE  HubInv'
<1>1. /\ routes.release \subseteq Sensors
      /\ routes = [release |-> routes.release, stop |-> routes.stop, cancel |-> routes.cancel]
  BY DEF HubInv, HubTyped
<1>2. Marked({"gather"}, {}) \in Marking /\ Marked({"gather"}, routes.release) \in Marking
  BY <1>1, MarkingKept DEF TopicNames
<1>3. CASE StopEnds
  <2>1. routes' = [release |-> routes.release, stop |-> FALSE, cancel |-> routes.cancel] /\ page' = page
    BY <1>1, <1>3 DEF StopEnds
  <2>2. \E c : Published(c, Marked({"gather"}, {}))
    BY <1>3 DEF StopEnds
  <2>3. QED
    BY <1>1, <1>2, <2>1, <2>2, HubPublishes
<1>4. CASE ReleaseEnds
  <2>1. routes' = [release |-> {}, stop |-> routes.stop, cancel |-> routes.cancel] /\ page' = page
    BY <1>1, <1>4 DEF ReleaseEnds
  <2>2. \E c : Published(c, Marked({"gather"}, routes.release))
    BY <1>4 DEF ReleaseEnds
  <2>3. QED
    BY <1>2, <2>1, <2>2, HubPublishes
<1>5. QED
  BY <1>3, <1>4

\* The events, and the routes before they wait: nothing is sent yet.
LEMMA HubScheduleStep ==
  ASSUME HubInv,
         \/ StopBegins \/ NoticeAgain \/ ApplyChanges
         \/ \E d \in Sensors : \/ Connecting(d) \/ ConnectCancelled(d) \/ GatherFails(d) \/ Gathered(d)
                               \/ LinkDown(d) \/ BusyChanges(d) \/ ConfigChanges(d) \/ JobChanges(d)
         \/ \E ds \in SUBSET Sensors : \E all \in BOOLEAN : ReleaseBegins(ds, all)
         \/ \E new \in {"running", "ended"} : BatchChanges(new)
  PROVE  HubInv'
<1>1. /\ routes.release \subseteq Sensors
      /\ routes = [release |-> routes.release, stop |-> routes.stop, cancel |-> routes.cancel]
      /\ marks \in Marking
  BY DEF HubInv, HubTyped
<1>2. \A t \in SUBSET TopicNames : \A ds \in SUBSET Sensors : Marked(t, ds) \in Marking
  BY MarkingKept
<1>3. \A d : Forgotten(d) \subseteq TopicNames /\ Topics(d) \subseteq TopicNames
  BY DEF Forgotten, Topics, TopicNames
<1>4. ASSUME NEW c, NEW m \in Marking, Event(c, m) PROVE HubInv'
  <2>1. routes' = routes /\ UNCHANGED <<seq, client, page>> /\ marks' \in Marking
    BY <1>4 DEF Event, Scheduled
  <2>2. QED
    BY <1>1, <2>1, HubSchedules
<1>5. ASSUME NEW c, NEW m \in Marking, Scheduled(c, m), page' = page,
             NEW d, Uncancelled(d)
      PROVE  HubInv'
  <2>1. routes' = [release |-> routes.release, stop |-> routes.stop, cancel |-> routes.cancel \ {d}]
    BY <1>1, <1>5 DEF Uncancelled
  <2>2. UNCHANGED <<seq, client, page>> /\ marks' \in Marking
    BY <1>5 DEF Scheduled
  <2>3. QED
    BY <1>1, <2>1, <2>2, HubSchedules
<1>6. CASE StopBegins
  <2>1. routes' = [release |-> routes.release, stop |-> TRUE, cancel |-> core.linking]
    BY <1>1, <1>6 DEF StopBegins
  <2>2. UNCHANGED <<seq, client, page, marks>>
    BY <1>6 DEF StopBegins
  <2>3. QED
    BY <1>1, <2>1, <2>2, HubSchedules
<1>7. CASE NoticeAgain
  <2>1. UNCHANGED <<seq, client, page, marks, routes>>
    BY <1>7 DEF NoticeAgain
  <2>2. QED
    BY <1>1, <2>1, HubSchedules
<1>8. CASE ApplyChanges
  <2>1. Marked({"apply"}, {}) \in Marking /\ \E c : Event(c, Marked({"apply"}, {}))
    BY <1>2, <1>8 DEF ApplyChanges, TopicNames
  <2>2. QED
    BY <1>4, <2>1
<1>9. ASSUME NEW d \in Sensors, Connecting(d) PROVE HubInv'
  <2>1. Marked({"gather"}, {}) \in Marking /\ \E c : Event(c, Marked({"gather"}, {}))
    BY <1>2, <1>9 DEF Connecting, TopicNames
  <2>2. QED
    BY <1>4, <2>1
<1>10. ASSUME NEW d \in Sensors, LinkDown(d) \/ BusyChanges(d) \/ ConfigChanges(d) PROVE HubInv'
  <2>1. Marked({}, {d}) \in Marking /\ \E c : Event(c, Marked({}, {d}))
    BY <1>2, <1>10 DEF LinkDown, BusyChanges, ConfigChanges
  <2>2. QED
    BY <1>4, <2>1
<1>11. ASSUME NEW d \in Sensors, JobChanges(d) PROVE HubInv'
  <2>1. PICK m : m = [marks EXCEPT !.jobs = @ \cup {d}]
    OBVIOUS
  <2>2. m = [topics |-> marks.topics, sensors |-> marks.sensors, jobs |-> marks.jobs \cup {d},
             notices |-> marks.notices]
    BY <1>1, <2>1 DEF Marking
  <2>3. m \in Marking
    BY <1>1, <2>2 DEF Marking
  <2>4. \E c : Event(c, m)
    BY <1>11, <2>1 DEF JobChanges
  <2>5. QED
    BY <1>4, <2>3, <2>4
<1>12. ASSUME NEW d \in Sensors, ConnectCancelled(d) PROVE HubInv'
  <2>1. Marked(Forgotten(d), {}) \in Marking
    BY <1>2, <1>3
  <2>2. Scheduled(Unlinked(d), Marked(Forgotten(d), {})) /\ page' = page /\ Uncancelled(d)
    BY <1>12 DEF ConnectCancelled
  <2>3. QED
    BY <1>5, <2>1, <2>2
<1>13. ASSUME NEW d \in Sensors, GatherFails(d) PROVE HubInv'
  <2>1. PICK k \in Marking : k = Marked(Forgotten(d), {})
    BY <1>2, <1>3
  <2>2. PICK m : m = [k EXCEPT !.notices = IF d \in muted THEN @ ELSE @ + 1]
    OBVIOUS
  <2>3. m \in Marking
    BY <2>1, <2>2 DEF Marking
  <2>4. Scheduled(Unlinked(d), m) /\ page' = page /\ Uncancelled(d)
    BY <1>13, <2>1, <2>2 DEF GatherFails
  <2>5. QED
    BY <1>5, <2>3, <2>4
<1>14. ASSUME NEW d \in Sensors, Gathered(d) PROVE HubInv'
  <2>1. Marked(Topics(d), {d}) \in Marking
    BY <1>2, <1>3
  <2>2. Scheduled(Found(d), Marked(Topics(d), {d})) /\ page' = page /\ Uncancelled(d)
    BY <1>14 DEF Gathered
  <2>3. QED
    BY <1>5, <2>1, <2>2
<1>15. ASSUME NEW ds \in SUBSET Sensors, NEW all \in BOOLEAN, ReleaseBegins(ds, all) PROVE HubInv'
  <2>1. \E x : routes' = [release |-> ds, stop |-> routes.stop, cancel |-> x]
    BY <1>1, <1>15 DEF ReleaseBegins
  <2>2. PICK t : t = IF all /\ core.connecting # {} THEN {"gather"} ELSE {}
    OBVIOUS
  <2>3. Marked(t, ds) \in Marking
    BY <1>2, <2>2 DEF TopicNames
  <2>4. marks' = Marked(t, ds) /\ UNCHANGED <<seq, client, page>>
    BY <1>15, <2>2 DEF ReleaseBegins, Scheduled
  <2>5. QED
    BY <2>1, <2>3, <2>4, HubSchedules
<1>16. ASSUME NEW new \in {"running", "ended"}, BatchChanges(new) PROVE HubInv'
  <2>1. Marked({"batch"}, {}) \in Marking /\ \E c : Event(c, Marked({"batch"}, {}))
    BY <1>2, <1>16 DEF BatchChanges, TopicNames
  <2>2. QED
    BY <1>4, <2>1
<1>17. QED
  BY <1>6, <1>7, <1>8, <1>9, <1>10, <1>11, <1>12, <1>13, <1>14, <1>15, <1>16

\* What leaves a connection off, or closing, says nothing of its queue.
LEMMA HubHangsUp ==
  ASSUME HubInv, NEW p \in Pages, Closed(p) \/ ConnectionLost(p)
  PROVE  HubInv'
<1>1. PICK S : client \in [Pages -> [conn : {"off", "open", "closing"}, queue : Seq([seq : Int, m : S])]]
  BY DEF HubInv, HubTyped
<1>2. /\ client' = [client EXCEPT ![p] = [conn |-> "off", queue |-> <<>>]]
      /\ UNCHANGED <<page, seq, marks, routes>>
  BY DEF Closed, ConnectionLost, HubIdle
<1>3. [conn |-> "off", queue |-> <<>>] \in [conn : {"off", "open", "closing"}, queue : Seq([seq : Int, m : S])]
  OBVIOUS
<1>4. client' \in [Pages -> [conn : {"off", "open", "closing"}, queue : Seq([seq : Int, m : S])]]
  BY <1>1, <1>2, <1>3
<1>5. HubTyped'
  BY <1>2, <1>4 DEF HubInv, HubTyped
<1>6. ASSUME NEW q \in Pages, client'[q].conn = "open" PROVE client'[q] = client[q]
  BY <1>1, <1>2, <1>6
<1>7. NoGap'
  BY <1>2, <1>6 DEF HubInv, NoGap
<1>8. QED
  BY <1>5, <1>7 DEF HubInv

LEMMA HubAnswers ==
  ASSUME HubInv, NEW p \in Pages, AddClient(p)
  PROVE  HubInv'
<1>1. PICK S : client \in [Pages -> [conn : {"off", "open", "closing"}, queue : Seq([seq : Int, m : S])]]
  BY DEF HubInv, HubTyped
<1>2. PICK first : first = Message("snapshot", 0, Snapshot(core))
  OBVIOUS
<1>3. first.kind = "snapshot"
  BY <1>2 DEF Message
<1>4. PICK item : item = [seq |-> seq, m |-> first]
  OBVIOUS
<1>5. /\ client' = [client EXCEPT ![p] = [conn |-> "open", queue |-> <<item>>]]
      /\ UNCHANGED <<page, seq, marks, routes>>
  BY <1>2, <1>4 DEF AddClient, HubIdle
<1>6. PICK R : R = S \cup {first}
  OBVIOUS
<1>7. PICK Numbered : Numbered = [seq : Int, m : R]
  OBVIOUS
<1>8. seq \in Int /\ item \in Numbered
  BY <1>4, <1>6, <1>7 DEF HubInv, HubTyped
<1>9. [seq : Int, m : S] \subseteq Numbered
  <2>1. S \subseteq R
    BY <1>6
  <2>2. QED
    BY <1>7, <2>1
<1>10. ASSUME NEW q \in Pages
       PROVE  client'[q] \in [conn : {"off", "open", "closing"}, queue : Seq(Numbered)]
  <2>1. CASE q = p
    BY <1>1, <1>5, <1>8, <2>1
  <2>2. CASE q # p
    <3>1. client'[q] = client[q]
      BY <1>1, <1>5, <2>2
    <3>2. client[q].queue \in Seq(Numbered)
      BY <1>1, <1>9, SeqMonotonic
    <3>3. QED
      BY <1>1, <3>1, <3>2
  <2>3. QED
    BY <2>1, <2>2
<1>11. client' \in [Pages -> [conn : {"off", "open", "closing"}, queue : Seq([seq : Int, m : R])]]
  <2>1. DOMAIN client' = Pages /\ client' = [q \in Pages |-> client'[q]]
    BY <1>1, <1>5
  <2>2. QED
    BY <1>7, <1>10, <2>1
<1>12. HubTyped'
  BY <1>5, <1>11 DEF HubInv, HubTyped
<1>13. ASSUME NEW q \in Pages, client'[q].conn = "open"
       PROVE  GoesOn(client'[q].queue, page'[q].last, seq')
  <2>1. CASE q = p
    <3>1. client'[q].queue = <<item>>
      BY <1>1, <1>5, <2>1
    <3>2. GoesOn(<<item>>, page'[q].last, seq')
      BY <1>3, <1>4, <1>5 DEF GoesOn
    <3>3. QED
      BY <3>1, <3>2
  <2>2. CASE q # p
    <3>1. client'[q] = client[q]
      BY <1>1, <1>5, <2>2
    <3>2. QED
      BY <1>5, <1>13, <3>1 DEF HubInv, NoGap, GoesOn
  <2>3. QED
    BY <2>1, <2>2
<1>14. NoGap'
  BY <1>13 DEF NoGap, GoesOn
<1>15. QED
  BY <1>12, <1>14 DEF HubInv

\* The rest of a queue goes on from what the page has just read; there is never a gap to ask about.
LEMMA HubDelivers ==
  ASSUME HubInv, NEW p \in Pages, Deliver(p)
  PROVE  HubInv'
<1>1. PICK S : client \in [Pages -> [conn : {"off", "open", "closing"}, queue : Seq([seq : Int, m : S])]]
  BY DEF HubInv, HubTyped
<1>2. PICK V : page \in [Pages -> [last : Int, view : V]]
  BY DEF HubInv, HubTyped
<1>3. PICK q \in Seq([seq : Int, m : S]) : q = client[p].queue
  BY <1>1
<1>4. client[p].conn = "open" /\ q # <<>> /\ GoesOn(q, page[p].last, seq)
  BY <1>3 DEF Deliver, HubInv, NoGap, GoesOn
<1>5. /\ Head(q) = q[1] /\ Tail(q) \in Seq([seq : Int, m : S]) /\ Len(q) \in Nat /\ Len(q) > 0
      /\ Len(Tail(q)) = Len(q) - 1 /\ \A n \in 1..Len(Tail(q)) : Tail(q)[n] = q[n + 1]
  BY <1>3, <1>4, HeadTailProperties
<1>6. PICK e : e = q[1]
  OBVIOUS
<1>7. e.seq \in Int /\ (e.m.kind = "snapshot" \/ e.seq = page[p].last + 1)
  <2>1. 1 \in 1..Len(q)
    BY <1>5
  <2>2. e \in [seq : Int, m : S]
    BY <1>6, <2>1, ElementOfSeq
  <2>3. QED
    BY <1>4, <1>6, <2>2 DEF GoesOn
<1>8. PICK v : v = Apply(page[p].view, e.m)
  OBVIOUS
<1>9. /\ page' = [page EXCEPT ![p] = [last |-> e.seq, view |-> v]]
      /\ client' = [client EXCEPT ![p].queue = Tail(q)]
      /\ UNCHANGED <<seq, marks, routes>>
  <2>1. Head(client[p].queue) = e /\ Tail(client[p].queue) = Tail(q)
    BY <1>3, <1>5, <1>6
  <2>2. /\ page' = [page EXCEPT ![p] = [last |-> e.seq, view |-> Apply(page[p].view, e.m)]]
        /\ client' = [client EXCEPT ![p].queue = Tail(client[p].queue)]
    BY <1>7, <2>1, Zenon DEF Deliver
  <2>3. UNCHANGED <<seq, marks, routes>>
    BY DEF Deliver, HubIdle
  <2>4. QED
    BY <1>8, <2>1, <2>2, <2>3
<1>10. page' \in [Pages -> [last : Int, view : V \cup {v}]]
  <2>1. \A r \in Pages : page[r] \in [last : Int, view : V \cup {v}]
    BY <1>2
  <2>2. [last |-> e.seq, view |-> v] \in [last : Int, view : V \cup {v}]
    BY <1>7
  <2>3. QED
    BY <1>2, <1>9, <2>1, <2>2
<1>11. client'[p] = [conn |-> "open", queue |-> Tail(q)]
  <2>1. PICK c : c = client[p]
    OBVIOUS
  <2>2. c = [conn |-> "open", queue |-> q]
    BY <1>1, <1>3, <1>4, <2>1
  <2>3. client'[p] = [c EXCEPT !.queue = Tail(q)]
    BY <1>1, <1>9, <2>1
  <2>4. QED
    BY <2>2, <2>3
<1>12. client' \in [Pages -> [conn : {"off", "open", "closing"}, queue : Seq([seq : Int, m : S])]]
  <2>1. \A r \in Pages \ {p} : client'[r] = client[r]
    BY <1>1, <1>9
  <2>2. [conn |-> "open", queue |-> Tail(q)] \in [conn : {"off", "open", "closing"}, queue : Seq([seq : Int, m : S])]
    BY <1>5
  <2>3. client' = [r \in Pages |-> client'[r]]
    BY <1>1, <1>9
  <2>4. QED
    BY <1>1, <1>11, <2>1, <2>2, <2>3
<1>13. HubTyped'
  BY <1>9, <1>10, <1>12 DEF HubInv, HubTyped
<1>14. GoesOn(Tail(q), e.seq, seq)
  <2>1. PICK t : t = Tail(q)
    OBVIOUS
  <2>2. t \in Seq([seq : Int, m : S]) /\ Len(t) = Len(q) - 1 /\ \A n \in 1..Len(t) : t[n] = q[n + 1]
    BY <1>5, <2>1
  <2>3. \A n \in 2..Len(q) : q[n].seq = q[n - 1].seq + 1
    BY <1>4 DEF GoesOn
  <2>4. ASSUME NEW n \in 2..Len(t) PROVE t[n].seq = t[n - 1].seq + 1
    <3>1. n \in 1..Len(t) /\ n - 1 \in 1..Len(t) /\ n + 1 \in 2..Len(q)
      BY <1>5, <2>2, <2>4
    <3>2. t[n] = q[n + 1] /\ t[n - 1] = q[n]
      <4>1. (n - 1) + 1 = n
        BY <2>4
      <4>2. QED
        BY <2>2, <3>1, <4>1
    <3>3. q[n + 1].seq = q[(n + 1) - 1].seq + 1 /\ (n + 1) - 1 = n
      BY <2>3, <2>4, <3>1
    <3>4. QED
      BY <3>2, <3>3
  <2>5. t # <<>> => t[1].seq = e.seq + 1
    <3> SUFFICES ASSUME t # <<>> PROVE t[1].seq = e.seq + 1
      OBVIOUS
    <3>1. 1 \in 1..Len(t) /\ 2 \in 2..Len(q)
      BY <1>5, <2>2
    <3>2. t[1] = q[2] /\ q[2].seq = q[1].seq + 1
      <4>1. t[1] = q[1 + 1]
        BY <2>2, <3>1
      <4>2. q[2].seq = q[2 - 1].seq + 1
        BY <2>3, <3>1
      <4>3. QED
        BY <4>1, <4>2
    <3>3. QED
      BY <1>6, <3>2
  <2>6. (IF t = <<>> THEN e.seq ELSE t[Len(t)].seq) = seq
    <3>1. q[Len(q)].seq = seq
      BY <1>4 DEF GoesOn
    <3>2. CASE t = <<>>
      <4>1. Len(t) = 0
        BY <3>2
      <4>2. Len(q) = 1
        <5>1. Len(q) \in Nat
          BY <1>5
        <5>2. Len(t) = Len(q) - 1
          BY <2>2
        <5>3. QED
          BY <4>1, <5>1, <5>2
      <4>3. QED
        BY <1>6, <3>1, <3>2, <4>2
    <3>3. CASE t # <<>>
      <4>1. Len(t) \in 1..Len(t) /\ Len(t) + 1 = Len(q)
        BY <1>5, <2>2, <3>3
      <4>2. t[Len(t)] = q[Len(q)]
        BY <2>2, <4>1
      <4>3. QED
        BY <3>1, <3>3, <4>2
    <3>4. QED
      BY <3>2, <3>3
  <2>7. QED
    BY <2>1, <2>4, <2>5, <2>6 DEF GoesOn
<1>15. ASSUME NEW r \in Pages, client'[r].conn = "open"
       PROVE  GoesOn(client'[r].queue, page'[r].last, seq')
  <2>1. CASE r = p
    <3>1. client'[r].queue = Tail(q) /\ page'[r].last = e.seq /\ seq' = seq
      BY <1>2, <1>9, <1>11, <2>1
    <3>2. QED
      BY <1>14, <3>1
  <2>2. CASE r # p
    <3>1. client'[r] = client[r] /\ page'[r] = page[r] /\ seq' = seq
      BY <1>1, <1>2, <1>9, <2>2
    <3>2. QED
      BY <1>15, <3>1 DEF HubInv, NoGap, GoesOn
  <2>3. QED
    BY <2>1, <2>2
<1>16. NoGap'
  BY <1>15 DEF NoGap, GoesOn
<1>17. QED
  BY <1>13, <1>16 DEF HubInv

LEMMA HubStep == HubInv /\ [HubNext]_hubVars => HubInv'
<1> SUFFICES ASSUME HubInv, [HubNext]_hubVars PROVE HubInv'
  OBVIOUS
<1>1. CASE UNCHANGED hubVars
  BY <1>1 DEF hubVars, HubInv, HubTyped, NoGap
<1>2. ASSUME NEW p \in Pages, AddClient(p) \/ Deliver(p) \/ Closed(p) \/ ConnectionLost(p)
      PROVE  HubInv'
  BY <1>2, HubAnswers, HubDelivers, HubHangsUp
<1>3. CASE ~UNCHANGED hubVars
  <2>1. HubNext
    BY <1>3
  <2>2. QED
    BY <1>2, <2>1, HubPublishStep, HubReleaseStep, HubScheduleStep DEF HubNext
<1>4. QED
  BY <1>1, <1>3

LEMMA HubInvariance == HubSpec => []HubInv
  BY HubStarts, HubStep, PTL DEF HubSpec

\* A page is closed rather than sent on with a message missing: what is queued for an open
\* connection goes on from what the page has to the last message there is (Client.put, ws.py).
THEOREM NoGapAlways == HubSpec => []NoGap
<1>1. HubInv => NoGap
  BY DEF HubInv
<1>2. QED
  BY <1>1, HubInvariance, PTL

-----------------------------------------------------------------------------
(* What the pages show *)

\* What a page makes of a queue, message by message.
Leads(v, ms, w) ==
  \E f : f[0] = v /\ f[Len(ms)] = w /\ \A n \in 1..Len(ms) : f[n] = Apply(f[n - 1], ms[n])

LEMMA LeadsOne ==
  ASSUME NEW v, NEW m
  PROVE  Leads(v, <<>>, v) /\ Leads(v, <<m>>, Apply(v, m))
<1>1. Leads(v, <<>>, v)
  <2>1. PICK f : f = [n \in {0} |-> v]
    OBVIOUS
  <2>2. f[0] = v /\ Len(<<>>) = 0
    BY <2>1
  <2>3. QED
    BY <2>2 DEF Leads
<1>2. Leads(v, <<m>>, Apply(v, m))
  <2>1. PICK x : x = Apply(v, m)
    OBVIOUS
  <2>2. PICK f : f = [n \in {0, 1} |-> IF n = 0 THEN v ELSE x]
    OBVIOUS
  <2>3. f[0] = v /\ f[1] = x /\ Len(<<m>>) = 1 /\ <<m>>[1] = m
    BY <2>2
  <2>4. \A n \in 1..1 : n = 1 /\ n - 1 = 0
    OBVIOUS
  <2>5. \A n \in 1..Len(<<m>>) : f[n] = Apply(f[n - 1], <<m>>[n])
    BY <2>1, <2>3, <2>4
  <2>6. QED
    BY <2>1, <2>3, <2>5 DEF Leads
<1>3. QED
  BY <1>1, <1>2

LEMMA LeadsOn ==
  ASSUME NEW s, NEW t, IsList(s), IsList(t), NEW u, NEW v, NEW w, Leads(u, s, v), Leads(v, t, w)
  PROVE  Leads(u, s \o t, w)
<1>1. PICK i \in Nat : i = Len(s)
  BY Joins
<1>2. PICK j \in Nat : j = Len(t)
  BY Joins
<1>3. PICK r : r = s \o t
  OBVIOUS
<1>4. Len(r) = i + j /\ \A n \in 1..(i + j) : r[n] = IF n <= i THEN s[n] ELSE t[n - i]
  BY <1>1, <1>2, <1>3, Joins
<1>5. PICK f : f[0] = u /\ f[i] = v /\ \A n \in 1..i : f[n] = Apply(f[n - 1], s[n])
  BY <1>1 DEF Leads
<1>6. PICK g : g[0] = v /\ g[j] = w /\ \A n \in 1..j : g[n] = Apply(g[n - 1], t[n])
  BY <1>2 DEF Leads
<1>7. PICK h : h = [n \in 0..(i + j) |-> IF n <= i THEN f[n] ELSE g[n - i]]
  OBVIOUS
<1>8. \A n \in 0..i : h[n] = f[n]
  BY <1>7
<1>9. \A n \in 0..j : h[i + n] = g[n]
  <2> SUFFICES ASSUME NEW n \in 0..j PROVE h[i + n] = g[n]
    OBVIOUS
  <2>1. CASE n = 0
    BY <1>5, <1>6, <1>8, <2>1
  <2>2. CASE n # 0
    <3>1. i + n \in 0..(i + j) /\ ~(i + n <= i) /\ (i + n) - i = n
      BY <2>2
    <3>2. QED
      BY <1>7, <3>1
  <2>3. QED
    BY <2>1, <2>2
<1>10. ASSUME NEW n \in 1..(i + j) PROVE h[n] = Apply(h[n - 1], r[n])
  <2>1. CASE n <= i
    <3>1. n \in 1..i /\ n \in 0..i /\ n - 1 \in 0..i
      BY <1>10, <2>1
    <3>2. h[n] = f[n] /\ h[n - 1] = f[n - 1] /\ r[n] = s[n]
      BY <1>4, <1>8, <2>1, <3>1
    <3>3. QED
      BY <1>5, <3>1, <3>2
  <2>2. CASE ~(n <= i)
    <3>1. PICK k \in 1..j : k = n - i
      BY <1>10, <2>2
    <3>2. k \in 0..j /\ k - 1 \in 0..j /\ i + k = n /\ i + (k - 1) = n - 1
      BY <3>1
    <3>3. h[n] = g[k]
      BY <1>9, <3>2
    <3>4. h[n - 1] = g[k - 1]
      <4>1. h[i + (k - 1)] = g[k - 1]
        BY <1>9, <3>2
      <4>2. QED
        BY <3>2, <4>1
    <3>5. r[n] = t[k]
      BY <1>4, <2>2, <3>1
    <3>6. QED
      BY <1>6, <3>3, <3>4, <3>5
  <2>3. QED
    BY <2>1, <2>2
<1>11. h[0] = u /\ h[i + j] = w
  BY <1>5, <1>6, <1>8, <1>9
<1>12. QED
  BY <1>3, <1>4, <1>10, <1>11 DEF Leads

\* Once the first message is read, the rest of the queue leads on.
LEMMA LeadsRest ==
  ASSUME NEW s, IsList(s), s # <<>>, NEW v, NEW w, Leads(v, s, w)
  PROVE  Leads(Apply(v, s[1]), Tail(s), w)
<1>1. PICK T : s \in Seq(T)
  BY DEF IsList
<1>2. PICK t : t = Tail(s)
  OBVIOUS
<1>3. PICK k \in Nat : k = Len(t)
  BY <1>1, <1>2
<1>4. Len(s) = k + 1 /\ \A n \in 1..k : t[n] = s[n + 1]
  BY <1>1, <1>2, <1>3, HeadTailProperties
<1>5. PICK f : f[0] = v /\ f[k + 1] = w /\ \A n \in 1..(k + 1) : f[n] = Apply(f[n - 1], s[n])
  BY <1>4 DEF Leads
<1>6. PICK g : g = [n \in 0..k |-> f[n + 1]]
  OBVIOUS
<1>7. g[0] = Apply(v, s[1]) /\ g[k] = w
  <2>1. g[0] = f[1] /\ g[k] = f[k + 1]
    BY <1>6
  <2>2. f[1] = Apply(f[1 - 1], s[1]) /\ 1 - 1 = 0
    BY <1>5
  <2>3. QED
    BY <1>5, <2>1, <2>2
<1>8. ASSUME NEW n \in 1..k PROVE g[n] = Apply(g[n - 1], t[n])
  <2>1. n \in 0..k /\ n - 1 \in 0..k /\ n + 1 \in 1..(k + 1) /\ (n - 1) + 1 = n /\ (n + 1) - 1 = n
    OBVIOUS
  <2>2. g[n] = f[n + 1] /\ g[n - 1] = f[n]
    BY <1>6, <2>1
  <2>3. f[n + 1] = Apply(f[(n + 1) - 1], s[n + 1])
    BY <1>5, <2>1
  <2>4. QED
    BY <1>4, <2>1, <2>2, <2>3
<1>9. QED
  BY <1>2, <1>3, <1>7, <1>8 DEF Leads

SensorStates == [reg : BOOLEAN, cached : BOOLEAN, ver : Nat, link : {"none", "lost", "up"}, busy : BOOLEAN]
Batches == [id : Nat, state : {"none", "waiting", "running", "ended"}, job : [Sensors -> Nat]]
Gathers == [on : BOOLEAN, connecting : SUBSET Sensors]
Cores == [sites : Nat, pending : [Sensors -> Nat], gathering : BOOLEAN, linking : SUBSET Sensors,
          connecting : SUBSET Sensors, batch : Batches, apply : Nat, sensor : [Sensors -> SensorStates]]
Views == [sites : Nat, pending : [Sensors -> Nat], gather : Gathers, sensor : [Sensors -> SensorStates],
          batch : Batches, apply : Nat]

\* What a page shows is the server's c: but for what is marked in m, for the gather that a route in r
\* is ending, and for the imports once some were dropped unmarked.
Shows(w, c, m, r, mo) ==
  /\ w \in Views
  /\ "sites" \notin m.topics => w.sites = c.sites
  /\ "pending" \notin m.topics /\ ~mo => w.pending = c.pending
  /\ "gather" \notin m.topics /\ ~r.stop /\ r.release = {} => w.gather = GatherStatus(c)
  /\ \A d \in Sensors \ m.sensors : w.sensor[d] = SensorView(c, d)
  /\ "batch" \notin m.topics => /\ w.batch.id = c.batch.id /\ w.batch.state = c.batch.state
                                /\ \A d \in Sensors \ m.jobs : w.batch.job[d] = c.batch.job[d]
  /\ "apply" \notin m.topics => w.apply = c.apply

\* The parts of a view, one by one.
With6(s, p, g, d, b, a) == [sites |-> s, pending |-> p, gather |-> g, sensor |-> d, batch |-> b, apply |-> a]

LEMMA ViewParts ==
  ASSUME NEW v \in Views
  PROVE  /\ v = With6(v.sites, v.pending, v.gather, v.sensor, v.batch, v.apply)
         /\ v.sites \in Nat /\ v.pending \in [Sensors -> Nat] /\ v.gather \in Gathers
         /\ v.sensor \in [Sensors -> SensorStates] /\ v.batch \in Batches /\ v.apply \in Nat
         /\ \A s \in Nat : With6(s, v.pending, v.gather, v.sensor, v.batch, v.apply) \in Views
         /\ \A p \in [Sensors -> Nat] : With6(v.sites, p, v.gather, v.sensor, v.batch, v.apply) \in Views
         /\ \A g \in Gathers : With6(v.sites, v.pending, g, v.sensor, v.batch, v.apply) \in Views
         /\ \A s \in [Sensors -> SensorStates] : With6(v.sites, v.pending, v.gather, s, v.batch, v.apply) \in Views
         /\ \A b \in Batches : With6(v.sites, v.pending, v.gather, v.sensor, b, v.apply) \in Views
         /\ \A a \in Nat : With6(v.sites, v.pending, v.gather, v.sensor, v.batch, a) \in Views
  BY DEF Views, With6

LEMMA CoreParts ==
  ASSUME NEW c \in Cores
  PROVE  /\ c.sites \in Nat /\ c.pending \in [Sensors -> Nat] /\ c.gathering \in BOOLEAN
         /\ c.linking \subseteq Sensors /\ c.connecting \subseteq Sensors /\ c.batch \in Batches /\ c.apply \in Nat
         /\ c.sensor \in [Sensors -> SensorStates]
         /\ GatherStatus(c) \in Gathers /\ \A d \in Sensors : SensorView(c, d) \in SensorStates
<1>1. c.gathering \in BOOLEAN /\ c.connecting \subseteq Sensors /\ c.sensor \in [Sensors -> SensorStates]
  BY DEF Cores
<1>2. GatherStatus(c) \in Gathers
  BY <1>1 DEF GatherStatus, Gathers
<1>3. ASSUME NEW d \in Sensors PROVE SensorView(c, d) \in SensorStates
  <2>1. PICK s \in SensorStates : s = c.sensor[d]
    BY <1>1
  <2>2. [s EXCEPT !.cached = FALSE] \in SensorStates /\ NoSensor \in SensorStates
    BY DEF SensorStates, NoSensor
  <2>3. QED
    BY <2>1, <2>2 DEF SensorView
<1>4. QED
  BY <1>1, <1>2, <1>3 DEF Cores

LEMMA ApplyParts ==
  ASSUME NEW v, NEW x
  PROVE  /\ Apply(v, Message("snapshot", 0, x)) = x
         /\ Apply(v, Message("sites", 0, x)) = [v EXCEPT !.sites = x]
         /\ Apply(v, Message("pending", 0, x)) = [v EXCEPT !.pending = x]
         /\ Apply(v, Message("batch", 0, x)) = [v EXCEPT !.batch = x]
         /\ Apply(v, Message("apply", 0, x)) = [v EXCEPT !.apply = x]
         /\ Apply(v, Message("gather", 0, x)) = [v EXCEPT !.gather = x]
         /\ Apply(v, Message("notice", 0, x)) = v
<1>1. Apply(v, Message("snapshot", 0, x)) = x
  BY DEF Apply, Message
<1>2. Apply(v, Message("sites", 0, x)) = [v EXCEPT !.sites = x]
  BY DEF Apply, Message
<1>3. Apply(v, Message("pending", 0, x)) = [v EXCEPT !.pending = x]
  BY DEF Apply, Message
<1>4. Apply(v, Message("batch", 0, x)) = [v EXCEPT !.batch = x]
  BY DEF Apply, Message
<1>5. Apply(v, Message("apply", 0, x)) = [v EXCEPT !.apply = x]
  BY DEF Apply, Message
<1>6. Apply(v, Message("gather", 0, x)) = [v EXCEPT !.gather = x]
  BY DEF Apply, Message
<1>7. Apply(v, Message("notice", 0, x)) = v
  BY DEF Apply, Message
<1>8. QED
  BY <1>1, <1>2, <1>3, <1>4, <1>5, <1>6, <1>7

LEMMA ApplySensor ==
  ASSUME NEW s, NEW p, NEW g, NEW t \in [Sensors -> SensorStates], NEW b, NEW a, NEW d \in Sensors, NEW x,
         NEW u \in [Sensors -> SensorStates], \A e \in Sensors : u[e] = IF e = d THEN x ELSE t[e]
  PROVE  Apply(With6(s, p, g, t, b, a), Message("sensor", d, x)) = With6(s, p, g, u, b, a)
<1>1. PICK v : v = With6(s, p, g, t, b, a)
  OBVIOUS
<1>2. PICK m : m = Message("sensor", d, x)
  OBVIOUS
<1>3. m.kind = "sensor" /\ m.id = d /\ m.value = x
  BY <1>2 DEF Message
<1>4. Apply(v, m) = [v EXCEPT !.sensor[m.id] = m.value]
  BY <1>3 DEF Apply
<1>5. Apply(v, m) = [v EXCEPT !.sensor[d] = x]
  BY <1>3, <1>4
<1>6. v.sensor = t
  BY <1>1 DEF With6
<1>7. [v EXCEPT !.sensor[d] = x] = [v EXCEPT !.sensor = [v.sensor EXCEPT ![d] = x]]
  OBVIOUS
<1>8. u = [t EXCEPT ![d] = x]
  OBVIOUS
<1>9. [v EXCEPT !.sensor = u] = With6(s, p, g, u, b, a)
  BY <1>1 DEF With6
<1>10. QED
  BY <1>1, <1>2, <1>5, <1>6, <1>7, <1>8, <1>9

LEMMA ApplyJob ==
  ASSUME NEW s, NEW p, NEW g, NEW t, NEW a, NEW i, NEW st, NEW j, NEW d, NEW x, x.id = i
  PROVE  Apply(With6(s, p, g, t, [id |-> i, state |-> st, job |-> j], a), Message("job", d, x))
           = With6(s, p, g, t, [id |-> i, state |-> st, job |-> [j EXCEPT ![d] = x.job]], a)
<1>1. PICK b : b = [id |-> i, state |-> st, job |-> j]
  OBVIOUS
<1>2. PICK v : v = With6(s, p, g, t, b, a)
  OBVIOUS
<1>3. PICK m : m = Message("job", d, x)
  OBVIOUS
<1>4. v.batch = b /\ b.job = j
  BY <1>1, <1>2 DEF With6
<1>5. m.kind = "job" /\ m.id = d /\ m.value = x /\ v.batch.id = m.value.id
  BY <1>1, <1>3, <1>4 DEF Message
<1>6. Apply(v, m) = [v EXCEPT !.batch.job[m.id] = m.value.job]
  BY <1>5 DEF Apply
<1>7. Apply(v, m) = [v EXCEPT !.batch.job[d] = x.job]
  BY <1>5, <1>6
<1>8. [v EXCEPT !.batch.job[d] = x.job]
        = [v EXCEPT !.batch = [v.batch EXCEPT !.job = [v.batch.job EXCEPT ![d] = x.job]]]
  OBVIOUS
<1>9. PICK k : k = [j EXCEPT ![d] = x.job]
  OBVIOUS
<1>10. PICK c : c = [b EXCEPT !.job = k]
  OBVIOUS
<1>11. c = [id |-> i, state |-> st, job |-> k]
  BY <1>1, <1>10
<1>12. [v EXCEPT !.batch = c] = With6(s, p, g, t, c, a)
  BY <1>2 DEF With6
<1>13. QED
  BY <1>1, <1>2, <1>3, <1>4, <1>7, <1>8, <1>9, <1>10, <1>11, <1>12

\* A topic's message brings that part of the view, if the topic is marked.
LEMMA TopicsLead ==
  ASSUME NEW v \in Views, NEW c, NEW m
  PROVE  /\ Leads(v, If("sites", m, Message("sites", 0, c.sites)),
                  With6(IF "sites" \in m.topics THEN c.sites ELSE v.sites,
                        v.pending, v.gather, v.sensor, v.batch, v.apply))
         /\ Leads(v, If("pending", m, Message("pending", 0, c.pending)),
                  With6(v.sites, IF "pending" \in m.topics THEN c.pending ELSE v.pending,
                        v.gather, v.sensor, v.batch, v.apply))
         /\ Leads(v, If("apply", m, Message("apply", 0, c.apply)),
                  With6(v.sites, v.pending, v.gather, v.sensor, v.batch,
                        IF "apply" \in m.topics THEN c.apply ELSE v.apply))
         /\ Leads(v, If("gather", m, Message("gather", 0, GatherStatus(c))),
                  With6(v.sites, v.pending, IF "gather" \in m.topics THEN GatherStatus(c) ELSE v.gather,
                        v.sensor, v.batch, v.apply))
         /\ Leads(v, <<Message("batch", 0, c.batch)>>,
                  With6(v.sites, v.pending, v.gather, v.sensor, c.batch, v.apply))
<1>1. v = With6(v.sites, v.pending, v.gather, v.sensor, v.batch, v.apply)
  BY ViewParts
<1>2. ASSUME NEW topic, NEW e
      PROVE  Leads(v, If(topic, m, e), IF topic \in m.topics THEN Apply(v, e) ELSE v)
  BY LeadsOne DEF If
<1>3. PICK g : g = GatherStatus(c)
  OBVIOUS
<1>4. ASSUME NEW x
      PROVE  /\ Apply(v, Message("sites", 0, x)) = With6(x, v.pending, v.gather, v.sensor, v.batch, v.apply)
             /\ Apply(v, Message("pending", 0, x)) = With6(v.sites, x, v.gather, v.sensor, v.batch, v.apply)
             /\ Apply(v, Message("apply", 0, x)) = With6(v.sites, v.pending, v.gather, v.sensor, v.batch, x)
             /\ Apply(v, Message("gather", 0, x)) = With6(v.sites, v.pending, x, v.sensor, v.batch, v.apply)
             /\ Apply(v, Message("batch", 0, x)) = With6(v.sites, v.pending, v.gather, v.sensor, x, v.apply)
  <2>1. /\ [v EXCEPT !.sites = x] = With6(x, v.pending, v.gather, v.sensor, v.batch, v.apply)
        /\ [v EXCEPT !.pending = x] = With6(v.sites, x, v.gather, v.sensor, v.batch, v.apply)
        /\ [v EXCEPT !.apply = x] = With6(v.sites, v.pending, v.gather, v.sensor, v.batch, x)
        /\ [v EXCEPT !.gather = x] = With6(v.sites, v.pending, x, v.sensor, v.batch, v.apply)
        /\ [v EXCEPT !.batch = x] = With6(v.sites, v.pending, v.gather, v.sensor, x, v.apply)
    BY <1>1 DEF With6, Views
  <2>2. QED
    BY <2>1, ApplyParts
<1>5. Leads(v, If("sites", m, Message("sites", 0, c.sites)),
            With6(IF "sites" \in m.topics THEN c.sites ELSE v.sites,
                  v.pending, v.gather, v.sensor, v.batch, v.apply))
  <2>1. CASE "sites" \in m.topics
    BY <1>2, <1>4, <2>1
  <2>2. CASE "sites" \notin m.topics
    BY <1>1, <1>2, <2>2
  <2>3. QED
    BY <2>1, <2>2
<1>6. Leads(v, If("pending", m, Message("pending", 0, c.pending)),
            With6(v.sites, IF "pending" \in m.topics THEN c.pending ELSE v.pending,
                  v.gather, v.sensor, v.batch, v.apply))
  <2>1. CASE "pending" \in m.topics
    BY <1>2, <1>4, <2>1
  <2>2. CASE "pending" \notin m.topics
    BY <1>1, <1>2, <2>2
  <2>3. QED
    BY <2>1, <2>2
<1>7. Leads(v, If("apply", m, Message("apply", 0, c.apply)),
            With6(v.sites, v.pending, v.gather, v.sensor, v.batch,
                  IF "apply" \in m.topics THEN c.apply ELSE v.apply))
  <2>1. CASE "apply" \in m.topics
    BY <1>2, <1>4, <2>1
  <2>2. CASE "apply" \notin m.topics
    BY <1>1, <1>2, <2>2
  <2>3. QED
    BY <2>1, <2>2
<1>8. Leads(v, If("gather", m, Message("gather", 0, GatherStatus(c))),
            With6(v.sites, v.pending, IF "gather" \in m.topics THEN GatherStatus(c) ELSE v.gather,
                  v.sensor, v.batch, v.apply))
  <2>1. CASE "gather" \in m.topics
    BY <1>2, <1>3, <1>4, <2>1
  <2>2. CASE "gather" \notin m.topics
    BY <1>1, <1>2, <2>2
  <2>3. QED
    BY <2>1, <2>2
<1>9. Leads(v, <<Message("batch", 0, c.batch)>>,
            With6(v.sites, v.pending, v.gather, v.sensor, c.batch, v.apply))
  BY <1>4, LeadsOne
<1>10. QED
  BY <1>5, <1>6, <1>7, <1>8, <1>9

\* The numbers of a finite set, in their order.
LEMMA InOrder ==
  ASSUME NEW ds \in SUBSET Sensors, NEW k, k = Cardinality(ds)
  PROVE  /\ k \in Nat
         /\ \E x \in [1..k -> ds] : \A i, j \in DOMAIN x : i < j => x[i] < x[j]
         /\ \A x \in [1..k -> ds] : (\A i, j \in DOMAIN x : i < j => x[i] < x[j])
              => \A d \in ds : \E n \in 1..k : x[n] = d
<1>1. IsFiniteSet(ds) /\ ds \subseteq Nat
  BY FS_Subset, HubAssumption
<1>2. k \in Nat
  BY <1>1, FS_CardinalityType
<1> DEFINE Below(d) == {e \in ds : e <= d}
<1>3. ASSUME NEW d \in ds
      PROVE  IsFiniteSet(Below(d)) /\ Cardinality(Below(d)) \in 1..k
  <2>1. Below(d) \in SUBSET ds /\ d \in Below(d)
    BY <1>1
  <2>2. IsFiniteSet(Below(d)) /\ Cardinality(Below(d)) <= k
    BY <1>1, <2>1, FS_Subset
  <2>3. Cardinality(Below(d)) \in Nat /\ Cardinality(Below(d)) # 0
    BY <2>1, <2>2, FS_CardinalityType, FS_EmptySet
  <2>4. QED
    BY <1>2, <2>2, <2>3
<1>4. ASSUME NEW d \in ds, NEW e \in ds, d < e
      PROVE  Cardinality(Below(d)) < Cardinality(Below(e))
  <2>1. d \in Nat /\ e \in Nat
    BY <1>1
  <2>2. e \in Below(e) /\ e \notin Below(d)
    BY <1>4, <2>1
  <2>3. ASSUME NEW x \in Below(d) PROVE x \in Below(e)
    <3>1. x \in Nat /\ x \in ds /\ x <= d
      BY <1>1
    <3>2. QED
      BY <1>4, <2>1, <3>1
  <2>4. PICK D : D = Below(d)
    OBVIOUS
  <2>5. PICK E : E = Below(e)
    OBVIOUS
  <2>6. D \in SUBSET E /\ D # E /\ IsFiniteSet(E)
    BY <1>3, <2>2, <2>3, <2>4, <2>5
  <2>7. Cardinality(D) <= Cardinality(E) /\ Cardinality(D) # Cardinality(E)
    BY <2>6, FS_Subset
  <2>8. Cardinality(D) \in Nat /\ Cardinality(E) \in Nat
    <3>1. Cardinality(Below(d)) \in 1..k /\ Cardinality(Below(e)) \in 1..k
      BY <1>3
    <3>2. QED
      BY <1>2, <2>4, <2>5, <3>1
  <2>9. Cardinality(D) < Cardinality(E)
    BY <2>7, <2>8
  <2>10. QED
    BY <2>4, <2>5, <2>9
<1>5. PICK rank : rank = [d \in ds |-> Cardinality(Below(d))]
  OBVIOUS
<1>6. rank \in Injection(ds, 1..k)
  <2>1. rank \in [ds -> 1..k]
    BY <1>3, <1>5
  <2>2. ASSUME NEW d \in ds, NEW e \in ds, rank[d] = rank[e] PROVE d = e
    <3>1. d \in Nat /\ e \in Nat /\ rank[d] \in 1..k
      BY <1>1, <2>1
    <3>2. ~(d < e) /\ ~(e < d)
      <4>1. d < e => rank[d] < rank[e]
        BY <1>4, <1>5
      <4>2. e < d => rank[e] < rank[d]
        BY <1>4, <1>5
      <4>3. QED
        BY <2>2, <3>1, <4>1, <4>2
    <3>3. QED
      BY <3>1, <3>2
  <2>3. QED
    BY <2>1, <2>2 DEF Injection, IsInjective
<1>7. rank \in Surjection(ds, 1..k)
  <2>1. IsFiniteSet(1..k) /\ Cardinality(1..k) = k
    BY <1>2, FS_Interval
  <2>2. QED
    BY <1>6, <2>1, FS_Injection
<1>8. PICK x : x = [n \in 1..k |-> CHOOSE d \in ds : rank[d] = n]
  OBVIOUS
<1>9. \A n \in 1..k : x[n] \in ds /\ rank[x[n]] = n
  <2> SUFFICES ASSUME NEW n \in 1..k PROVE x[n] \in ds /\ rank[x[n]] = n
    OBVIOUS
  <2>1. \E d \in ds : rank[d] = n
    BY <1>7 DEF Surjection
  <2>2. QED
    BY <1>8, <2>1
<1>10. x \in [1..k -> ds] /\ \A i, j \in DOMAIN x : i < j => x[i] < x[j]
  <2>1. x \in [1..k -> ds]
    BY <1>8, <1>9
  <2>2. ASSUME NEW i \in 1..k, NEW j \in 1..k, i < j PROVE x[i] < x[j]
    <3>1. PICK d \in ds : d = x[i] /\ rank[d] = i
      BY <1>9
    <3>2. PICK e \in ds : e = x[j] /\ rank[e] = j
      BY <1>9
    <3>3. d \in Nat /\ e \in Nat
      BY <1>1
    <3>4. ~(e < d) /\ e # d
      <4>1. e < d => j < i
        BY <1>4, <1>5, <3>1, <3>2
      <4>2. QED
        BY <2>2, <3>1, <3>2, <4>1
    <3>5. QED
      BY <3>1, <3>2, <3>3, <3>4
  <2>3. QED
    BY <2>1, <2>2
<1>11. ASSUME NEW o \in [1..k -> ds], \A i, j \in DOMAIN o : i < j => o[i] < o[j]
       PROVE  \A d \in ds : \E n \in 1..k : o[n] = d
  <2>1. o \in Injection(1..k, ds)
    <3>1. ASSUME NEW i \in 1..k, NEW j \in 1..k, o[i] = o[j] PROVE i = j
      <4>1. o[i] \in Nat /\ o[j] \in Nat
        BY <1>1
      <4>2. i < j => o[i] < o[j]
        BY <1>11
      <4>3. j < i => o[j] < o[i]
        BY <1>11
      <4>4. ~(i < j) /\ ~(j < i)
        BY <3>1, <4>1, <4>2, <4>3
      <4>5. QED
        BY <4>4
    <3>2. QED
      BY <1>11, <3>1 DEF Injection, IsInjective
  <2>2. IsFiniteSet(1..k) /\ Cardinality(1..k) = k
    BY <1>2, FS_Interval
  <2>3. o \in Surjection(1..k, ds)
    BY <1>1, <2>1, <2>2, FS_Injection
  <2>4. QED
    BY <2>3 DEF Surjection
<1>12. QED
  BY <1>2, <1>10, <1>11

\* One message after another, each with a sensor's view.
LEMMA SensorsLead ==
  ASSUME NEW v \in Views, NEW c \in Cores, NEW m \in Marking
  PROVE  \E s \in [Sensors -> SensorStates] :
           /\ \A d \in Sensors : s[d] = IF d \in m.sensors THEN SensorView(c, d) ELSE v.sensor[d]
           /\ Leads(v, SensorMessages(c, m),
                    With6(v.sites, v.pending, v.gather, s, v.batch, v.apply))
<1>1. PICK ds \in SUBSET Sensors : ds = m.sensors
  BY DEF Marking
<1>2. PICK k \in Nat : k = Cardinality(ds)
  BY InOrder
<1>3. PICK o \in [1..k -> ds] :
        /\ o = CHOOSE x \in [1..k -> ds] : \A i, j \in DOMAIN x : i < j => x[i] < x[j]
        /\ \A d \in ds : \E n \in 1..k : o[n] = d
  <2>1. \E x \in [1..k -> ds] : \A i, j \in DOMAIN x : i < j => x[i] < x[j]
    BY <1>2, InOrder
  <2>2. PICK o : o = CHOOSE x \in [1..k -> ds] : \A i, j \in DOMAIN x : i < j => x[i] < x[j]
    OBVIOUS
  <2>3. o \in [1..k -> ds] /\ \A i, j \in DOMAIN o : i < j => o[i] < o[j]
    BY <2>1, <2>2
  <2>4. \A d \in ds : \E n \in 1..k : o[n] = d
    BY <1>2, <2>3, InOrder
  <2>5. QED
    BY <2>2, <2>3, <2>4
<1>4. PICK ms : ms = [n \in 1..k |-> Message("sensor", o[n], SensorView(c, o[n]))]
  OBVIOUS
<1>5. SensorMessages(c, m) = ms
  BY <1>1, <1>2, <1>3, <1>4 DEF PerSensor, SensorMessages
<1>6. Len(ms) = k /\ \A n \in 1..k : ms[n] = Message("sensor", o[n], SensorView(c, o[n]))
  BY <1>4
<1>7. \A d \in Sensors : SensorView(c, d) \in SensorStates /\ v.sensor[d] \in SensorStates
  <2>1. v.sensor \in [Sensors -> SensorStates]
    BY ViewParts
  <2>2. \A d \in Sensors : SensorView(c, d) \in SensorStates
    BY CoreParts
  <2>3. QED
    BY <2>1, <2>2
<1>8. PICK s : s = [n \in 0..k |-> [d \in Sensors |-> IF \E i \in 1..n : o[i] = d THEN SensorView(c, d) ELSE v.sensor[d]]]
  OBVIOUS
<1>9. ASSUME NEW n \in 0..k
      PROVE  /\ s[n] \in [Sensors -> SensorStates]
             /\ \A d \in Sensors : s[n][d] = IF \E i \in 1..n : o[i] = d THEN SensorView(c, d) ELSE v.sensor[d]
  BY <1>7, <1>8
<1>10. PICK f : f = [n \in 0..k |-> With6(v.sites, v.pending, v.gather, s[n], v.batch, v.apply)]
  OBVIOUS
<1>11. f[0] = v
  <2>1. 0 \in 0..k /\ 1..0 = {}
    OBVIOUS
  <2>2. v.sensor \in [Sensors -> SensorStates]
    BY ViewParts
  <2>3. s[0] = v.sensor
    BY <1>9, <2>1, <2>2
  <2>4. f[0] = With6(v.sites, v.pending, v.gather, v.sensor, v.batch, v.apply)
    BY <1>10, <2>1, <2>3
  <2>5. QED
    BY <2>4, ViewParts
<1>12. ASSUME NEW n \in 1..k PROVE f[n] = Apply(f[n - 1], ms[n])
  <2>1. n - 1 \in 0..k /\ n \in 0..k /\ 1..n = 1..(n - 1) \cup {n}
    OBVIOUS
  <2>2. PICK d \in Sensors : d = o[n]
    OBVIOUS
  <2>3. PICK x \in SensorStates : x = SensorView(c, d)
    BY <1>7
  <2>4. ms[n] = Message("sensor", d, x)
    BY <1>6, <2>2, <2>3
  <2>5. PICK t \in [Sensors -> SensorStates] : t = s[n - 1]
    BY <1>9, <2>1
  <2>6. PICK y \in [Sensors -> SensorStates] : y = s[n]
    BY <1>9, <2>1
  <2>7. ASSUME NEW e \in Sensors PROVE y[e] = IF e = d THEN x ELSE t[e]
    <3>1. (\E i \in 1..n : o[i] = e) <=> (e = d \/ \E i \in 1..(n - 1) : o[i] = e)
      BY <2>1, <2>2
    <3>2. y[e] = IF \E i \in 1..n : o[i] = e THEN SensorView(c, e) ELSE v.sensor[e]
      BY <1>9, <2>1, <2>6
    <3>3. t[e] = IF \E i \in 1..(n - 1) : o[i] = e THEN SensorView(c, e) ELSE v.sensor[e]
      BY <1>9, <2>1, <2>5
    <3>4. CASE e = d
      BY <2>3, <3>1, <3>2, <3>4
    <3>5. CASE e # d
      BY <3>1, <3>2, <3>3, <3>5
    <3>6. QED
      BY <3>4, <3>5
  <2>8. PICK u : u = f[n - 1]
    OBVIOUS
  <2>9. u = With6(v.sites, v.pending, v.gather, t, v.batch, v.apply)
    BY <1>10, <2>1, <2>5, <2>8
  <2>10. Apply(u, Message("sensor", d, x)) = With6(v.sites, v.pending, v.gather, y, v.batch, v.apply)
    BY <2>7, <2>9, ApplySensor
  <2>11. f[n] = With6(v.sites, v.pending, v.gather, y, v.batch, v.apply)
    BY <1>10, <2>1, <2>6
  <2>12. QED
    BY <2>4, <2>8, <2>10, <2>11
<1>14. f[k] = With6(v.sites, v.pending, v.gather, s[k], v.batch, v.apply) /\ k \in 0..k
  BY <1>10
<1>15. Leads(v, ms, With6(v.sites, v.pending, v.gather, s[k], v.batch, v.apply))
  BY <1>6, <1>11, <1>12, <1>14 DEF Leads
<1>16. ASSUME NEW d \in Sensors PROVE s[k][d] = IF d \in ds THEN SensorView(c, d) ELSE v.sensor[d]
  <2>1. (\E i \in 1..k : o[i] = d) <=> d \in ds
    BY <1>3
  <2>2. QED
    BY <1>9, <1>14, <2>1
<1>17. QED
  BY <1>1, <1>5, <1>9, <1>14, <1>15, <1>16

\* The same for the jobs of the batch that the page knows of.
LEMMA JobsLead ==
  ASSUME NEW v \in Views, NEW c \in Cores, v.batch.id = c.batch.id, NEW m \in Marking
  PROVE  \E b \in Batches :
           /\ b.id = v.batch.id /\ b.state = v.batch.state
           /\ \A d \in Sensors : b.job[d] = IF d \in m.jobs THEN c.batch.job[d] ELSE v.batch.job[d]
           /\ Leads(v, JobMessages(c, m),
                    With6(v.sites, v.pending, v.gather, v.sensor, b, v.apply))
<1>1. PICK ds \in SUBSET Sensors : ds = m.jobs
  BY DEF Marking
<1>2. PICK k \in Nat : k = Cardinality(ds)
  BY InOrder
<1>3. PICK o \in [1..k -> ds] :
        /\ o = CHOOSE x \in [1..k -> ds] : \A i, j \in DOMAIN x : i < j => x[i] < x[j]
        /\ \A d \in ds : \E n \in 1..k : o[n] = d
  <2>1. \E x \in [1..k -> ds] : \A i, j \in DOMAIN x : i < j => x[i] < x[j]
    BY <1>2, InOrder
  <2>2. PICK o : o = CHOOSE x \in [1..k -> ds] : \A i, j \in DOMAIN x : i < j => x[i] < x[j]
    OBVIOUS
  <2>3. o \in [1..k -> ds] /\ \A i, j \in DOMAIN o : i < j => o[i] < o[j]
    BY <2>1, <2>2
  <2>4. \A d \in ds : \E n \in 1..k : o[n] = d
    BY <1>2, <2>3, InOrder
  <2>5. QED
    BY <2>2, <2>3, <2>4
<1>4. PICK ms : ms = [n \in 1..k |-> Message("job", o[n], [id |-> c.batch.id, job |-> c.batch.job[o[n]]])]
  OBVIOUS
<1>5. JobMessages(c, m) = ms
  BY <1>1, <1>2, <1>3, <1>4 DEF PerSensor, JobMessages
<1>6. Len(ms) = k /\ \A n \in 1..k : ms[n] = Message("job", o[n], [id |-> c.batch.id, job |-> c.batch.job[o[n]]])
  BY <1>4
<1>7. PICK B \in Batches : B = v.batch
  BY ViewParts
<1>8. PICK C \in Batches : C = c.batch
  BY CoreParts
<1>9. /\ B.job \in [Sensors -> Nat] /\ C.job \in [Sensors -> Nat] /\ B.id \in Nat /\ B.id = C.id
      /\ B.state \in {"none", "waiting", "running", "ended"}
      /\ B = [id |-> B.id, state |-> B.state, job |-> B.job]
  BY <1>7, <1>8 DEF Batches
<1>10. PICK s : s = [n \in 0..k |-> [d \in Sensors |-> IF \E i \in 1..n : o[i] = d THEN C.job[d] ELSE B.job[d]]]
  OBVIOUS
<1>11. ASSUME NEW n \in 0..k
      PROVE  /\ s[n] \in [Sensors -> Nat]
             /\ \A d \in Sensors : s[n][d] = IF \E i \in 1..n : o[i] = d THEN C.job[d] ELSE B.job[d]
  BY <1>9, <1>10
<1> DEFINE Batch(j) == [id |-> B.id, state |-> B.state, job |-> j]
<1>12. PICK f : f = [n \in 0..k |-> With6(v.sites, v.pending, v.gather, v.sensor, Batch(s[n]), v.apply)]
  OBVIOUS
<1>13. f[0] = v
  <2>1. 0 \in 0..k /\ 1..0 = {}
    OBVIOUS
  <2>2. s[0] = B.job
    <3>1. PICK r \in [Sensors -> Nat] : r = s[0]
      BY <1>11, <2>1
    <3>2. PICK q \in [Sensors -> Nat] : q = B.job
      BY <1>9
    <3>3. \A d \in Sensors : r[d] = q[d]
      BY <1>11, <2>1, <3>1, <3>2
    <3>4. QED
      BY <3>1, <3>2, <3>3
  <2>3. f[0] = With6(v.sites, v.pending, v.gather, v.sensor, Batch(B.job), v.apply)
    BY <1>12, <2>1, <2>2
  <2>4. QED
    BY <1>7, <1>9, <2>3, ViewParts
<1>14. ASSUME NEW n \in 1..k PROVE f[n] = Apply(f[n - 1], ms[n])
  <2>1. n - 1 \in 0..k /\ n \in 0..k /\ 1..n = 1..(n - 1) \cup {n}
    OBVIOUS
  <2>2. PICK d \in Sensors : d = o[n]
    OBVIOUS
  <2>3. PICK x : x = [id |-> B.id, job |-> C.job[d]]
    OBVIOUS
  <2>4. ms[n] = Message("job", d, x)
    BY <1>6, <1>8, <1>9, <2>2, <2>3
  <2>5. PICK t \in [Sensors -> Nat] : t = s[n - 1]
    BY <1>11, <2>1
  <2>6. s[n] = [t EXCEPT ![d] = x.job]
    <3>1. ASSUME NEW e \in Sensors PROVE s[n][e] = IF e = d THEN x.job ELSE t[e]
      <4>1. (\E i \in 1..n : o[i] = e) <=> (e = d \/ \E i \in 1..(n - 1) : o[i] = e)
        BY <2>1, <2>2
      <4>2. s[n][e] = IF \E i \in 1..n : o[i] = e THEN C.job[e] ELSE B.job[e]
        BY <1>11, <2>1
      <4>3. t[e] = IF \E i \in 1..(n - 1) : o[i] = e THEN C.job[e] ELSE B.job[e]
        BY <1>11, <2>1, <2>5
      <4>4. CASE e = d
        BY <2>3, <4>1, <4>2, <4>4
      <4>5. CASE e # d
        BY <4>1, <4>2, <4>3, <4>5
      <4>6. QED
        BY <4>4, <4>5
    <3>2. s[n] \in [Sensors -> Nat]
      BY <1>11, <2>1
    <3>3. PICK r : r = s[n]
      OBVIOUS
    <3>4. r = [e \in Sensors |-> r[e]] /\ \A e \in Sensors : r[e] = IF e = d THEN x.job ELSE t[e]
      BY <3>1, <3>2, <3>3
    <3>5. QED
      BY <2>5, <3>3, <3>4
  <2>7. PICK u : u = f[n - 1]
    OBVIOUS
  <2>8. u = With6(v.sites, v.pending, v.gather, v.sensor, Batch(t), v.apply)
    BY <1>12, <2>1, <2>5, <2>7
  <2>9. x.id = B.id
    BY <2>3
  <2>10. Apply(u, Message("job", d, x))
           = With6(v.sites, v.pending, v.gather, v.sensor, Batch([t EXCEPT ![d] = x.job]), v.apply)
    BY <2>8, <2>9, ApplyJob
  <2>11. f[n] = With6(v.sites, v.pending, v.gather, v.sensor, Batch(s[n]), v.apply)
    BY <1>12, <2>1
  <2>12. QED
    BY <2>4, <2>6, <2>7, <2>10, <2>11
<1>16. PICK b : b = Batch(s[k])
  OBVIOUS
<1>17. f[k] = With6(v.sites, v.pending, v.gather, v.sensor, b, v.apply) /\ k \in 0..k
  BY <1>12, <1>16
<1>18. Leads(v, ms, With6(v.sites, v.pending, v.gather, v.sensor, b, v.apply))
  BY <1>6, <1>13, <1>14, <1>17 DEF Leads
<1>19. ASSUME NEW d \in Sensors PROVE b.job[d] = IF d \in ds THEN C.job[d] ELSE B.job[d]
  <2>1. (\E i \in 1..k : o[i] = d) <=> d \in ds
    BY <1>3
  <2>2. QED
    BY <1>11, <1>16, <1>17, <2>1
<1>20. b \in Batches /\ b.id = B.id /\ b.state = B.state
  BY <1>9, <1>11, <1>16, <1>17 DEF Batches
<1>21. QED
  BY <1>1, <1>5, <1>7, <1>8, <1>18, <1>19, <1>20

LEMMA NoticesLead ==
  ASSUME NEW v, NEW k \in Nat
  PROVE  Leads(v, [n \in 1..k |-> Message("notice", 0, 0)], v)
<1>1. PICK f : f = [n \in 0..k |-> v]
  OBVIOUS
<1>2. PICK ms : ms = [n \in 1..k |-> Message("notice", 0, 0)]
  OBVIOUS
<1>3. Len(ms) = k /\ f[0] = v /\ f[k] = v
  BY <1>1, <1>2
<1>4. ASSUME NEW n \in 1..k PROVE f[n] = Apply(f[n - 1], ms[n])
  <2>1. n \in 0..k /\ n - 1 \in 0..k /\ ms[n] = Message("notice", 0, 0)
    BY <1>2
  <2>2. f[n] = v /\ f[n - 1] = v
    BY <1>1, <2>1
  <2>3. QED
    BY <2>1, <2>2, ApplyParts
<1>5. QED
  BY <1>2, <1>3, <1>4 DEF Leads

LEMMA PartFields ==
  ASSUME NEW s, NEW p, NEW g, NEW d, NEW b, NEW a
  PROVE  /\ With6(s, p, g, d, b, a).sites = s /\ With6(s, p, g, d, b, a).pending = p
         /\ With6(s, p, g, d, b, a).gather = g /\ With6(s, p, g, d, b, a).sensor = d
         /\ With6(s, p, g, d, b, a).batch = b /\ With6(s, p, g, d, b, a).apply = a
  BY DEF With6

\* Whoever reads all that a flush publishes has what was marked as well.
LEMMA MessagesLead ==
  ASSUME NEW m \in Marking, NEW c \in Cores, NEW r, NEW mo \in BOOLEAN, NEW w, Shows(w, c, m, r, mo)
  PROVE  \E x : /\ Leads(w, Messages(c, m), x)
                /\ Shows(x, c, NoMarks, r, mo /\ "pending" \notin m.topics)
<1> DEFINE sites == If("sites", m, Message("sites", 0, c.sites))
           imports == If("pending", m, Message("pending", 0, c.pending))
           sensors == SensorMessages(c, m)
           batch == BatchMessages(c, m)
           apply == If("apply", m, Message("apply", 0, c.apply))
           gather == If("gather", m, Message("gather", 0, GatherStatus(c)))
           notices == NoticeMessages(m)
<1>1. /\ IsList(sites) /\ IsList(imports) /\ IsList(sensors) /\ IsList(batch) /\ IsList(apply)
      /\ IsList(gather) /\ IsList(notices)
  BY MessageParts
<1>2. Messages(c, m) = sites \o imports \o sensors \o batch \o apply \o gather \o notices
  BY DEF Messages, SensorMessages, BatchMessages, JobMessages, NoticeMessages
<1>3. w \in Views
  BY DEF Shows
<1>4. PICK v1 \in Views :
        /\ Leads(w, sites, v1) /\ v1.sites = c.sites
        /\ v1.pending = w.pending /\ v1.gather = w.gather /\ v1.sensor = w.sensor /\ v1.batch = w.batch
        /\ v1.apply = w.apply
  <2>1. PICK s \in Nat : s = IF "sites" \in m.topics THEN c.sites ELSE w.sites
    BY <1>3, CoreParts, ViewParts
  <2>2. s = c.sites
    BY <2>1 DEF Shows
  <2>3. PICK v : v = With6(s, w.pending, w.gather, w.sensor, w.batch, w.apply)
    OBVIOUS
  <2>4. v \in Views /\ Leads(w, sites, v)
    BY <1>3, <2>1, <2>3, TopicsLead, ViewParts
  <2>5. QED
    BY <2>2, <2>3, <2>4, PartFields
<1>5. PICK v2 \in Views :
        /\ Leads(v1, imports, v2) /\ v2.pending = IF "pending" \in m.topics THEN c.pending ELSE w.pending
        /\ v2.sites = c.sites /\ v2.gather = w.gather /\ v2.sensor = w.sensor /\ v2.batch = w.batch
        /\ v2.apply = w.apply
  <2>1. PICK p \in [Sensors -> Nat] : p = IF "pending" \in m.topics THEN c.pending ELSE v1.pending
    BY CoreParts, ViewParts
  <2>2. PICK v : v = With6(v1.sites, p, v1.gather, v1.sensor, v1.batch, v1.apply)
    OBVIOUS
  <2>3. v \in Views /\ Leads(v1, imports, v)
    BY <2>1, <2>2, TopicsLead, ViewParts
  <2>4. QED
    BY <1>4, <2>1, <2>2, <2>3, PartFields
<1>6. PICK v3 \in Views :
        /\ Leads(v2, sensors, v3) /\ \A d \in Sensors : v3.sensor[d] = SensorView(c, d)
        /\ v3.sites = c.sites /\ v3.pending = v2.pending /\ v3.gather = w.gather /\ v3.batch = w.batch
        /\ v3.apply = w.apply
  <2>1. PICK s \in [Sensors -> SensorStates] :
          /\ \A d \in Sensors : s[d] = IF d \in m.sensors THEN SensorView(c, d) ELSE v2.sensor[d]
          /\ Leads(v2, sensors, With6(v2.sites, v2.pending, v2.gather, s, v2.batch, v2.apply))
    BY SensorsLead
  <2>2. \A d \in Sensors : s[d] = SensorView(c, d)
    BY <1>5, <2>1 DEF Shows
  <2>3. PICK v : v = With6(v2.sites, v2.pending, v2.gather, s, v2.batch, v2.apply)
    OBVIOUS
  <2>4. v \in Views /\ Leads(v2, sensors, v)
    BY <2>1, <2>3, ViewParts
  <2>5. QED
    BY <1>5, <2>2, <2>3, <2>4, PartFields
<1>7. PICK v4 \in Views :
        /\ Leads(v3, batch, v4) /\ v4.batch = c.batch
        /\ v4.sites = c.sites /\ v4.pending = v2.pending /\ v4.gather = w.gather /\ v4.sensor = v3.sensor
        /\ v4.apply = w.apply
  <2>1. CASE "batch" \in m.topics
    <3>1. PICK v : v = With6(v3.sites, v3.pending, v3.gather, v3.sensor, c.batch, v3.apply)
      OBVIOUS
    <3>2. v \in Views /\ Leads(v3, batch, v)
      BY <2>1, <3>1, TopicsLead, ViewParts, CoreParts DEF BatchMessages
    <3>3. QED
      BY <1>6, <3>1, <3>2, PartFields
  <2>2. CASE "batch" \notin m.topics
    <3>1. /\ w.batch.id = c.batch.id /\ w.batch.state = c.batch.state
          /\ \A d \in Sensors \ m.jobs : w.batch.job[d] = c.batch.job[d]
      BY <2>2 DEF Shows
    <3>2. PICK b \in Batches :
            /\ b.id = v3.batch.id /\ b.state = v3.batch.state
            /\ \A d \in Sensors : b.job[d] = IF d \in m.jobs THEN c.batch.job[d] ELSE v3.batch.job[d]
            /\ Leads(v3, JobMessages(c, m), With6(v3.sites, v3.pending, v3.gather, v3.sensor, b, v3.apply))
      BY <1>6, <3>1, JobsLead
    <3>3. b = c.batch
      <4>1. PICK e \in Batches : e = c.batch
        BY CoreParts
      <4>2. b.id = e.id /\ b.state = e.state /\ \A d \in Sensors : b.job[d] = e.job[d]
        BY <1>6, <3>1, <3>2, <4>1
      <4>3. b.job = e.job
        BY <4>2 DEF Batches
      <4>4. QED
        BY <4>1, <4>2, <4>3 DEF Batches
    <3>4. PICK v : v = With6(v3.sites, v3.pending, v3.gather, v3.sensor, b, v3.apply)
      OBVIOUS
    <3>5. v \in Views /\ Leads(v3, batch, v)
      BY <2>2, <3>2, <3>4, ViewParts DEF BatchMessages
    <3>6. QED
      BY <1>6, <3>3, <3>4, <3>5, PartFields
  <2>3. QED
    BY <2>1, <2>2
<1>8. PICK v5 \in Views :
        /\ Leads(v4, apply, v5) /\ v5.apply = c.apply
        /\ v5.sites = c.sites /\ v5.pending = v2.pending /\ v5.gather = w.gather /\ v5.sensor = v3.sensor
        /\ v5.batch = c.batch
  <2>1. PICK a \in Nat : a = IF "apply" \in m.topics THEN c.apply ELSE v4.apply
    BY CoreParts, ViewParts
  <2>2. a = c.apply
    BY <1>7, <2>1 DEF Shows
  <2>3. PICK v : v = With6(v4.sites, v4.pending, v4.gather, v4.sensor, v4.batch, a)
    OBVIOUS
  <2>4. v \in Views /\ Leads(v4, apply, v)
    BY <2>1, <2>3, TopicsLead, ViewParts
  <2>5. QED
    BY <1>7, <2>2, <2>3, <2>4, PartFields
<1>9. PICK v6 \in Views :
        /\ Leads(v5, gather, v6) /\ v6.gather = IF "gather" \in m.topics THEN GatherStatus(c) ELSE w.gather
        /\ v6.sites = c.sites /\ v6.pending = v2.pending /\ v6.sensor = v3.sensor
        /\ v6.batch = c.batch /\ v6.apply = c.apply
  <2>1. PICK g \in Gathers : g = IF "gather" \in m.topics THEN GatherStatus(c) ELSE v5.gather
    BY CoreParts, ViewParts
  <2>2. PICK v : v = With6(v5.sites, v5.pending, g, v5.sensor, v5.batch, v5.apply)
    OBVIOUS
  <2>3. v \in Views /\ Leads(v5, gather, v)
    BY <2>1, <2>2, TopicsLead, ViewParts
  <2>4. QED
    BY <1>8, <2>1, <2>2, <2>3, PartFields
<1>10. Leads(v6, notices, v6)
  BY NoticesLead DEF Marking, NoticeMessages
<1> HIDE DEF sites, imports, sensors, batch, apply, gather, notices
<1>11. Leads(w, Messages(c, m), v6)
  <2>1. IsList(sites \o imports) /\ Leads(w, sites \o imports, v2)
    BY <1>1, <1>4, <1>5, Joins, LeadsOn
  <2>2. IsList(sites \o imports \o sensors) /\ Leads(w, sites \o imports \o sensors, v3)
    BY <1>1, <1>6, <2>1, Joins, LeadsOn
  <2>3. /\ IsList(sites \o imports \o sensors \o batch)
        /\ Leads(w, sites \o imports \o sensors \o batch, v4)
    BY <1>1, <1>7, <2>2, Joins, LeadsOn
  <2>4. /\ IsList(sites \o imports \o sensors \o batch \o apply)
        /\ Leads(w, sites \o imports \o sensors \o batch \o apply, v5)
    BY <1>1, <1>8, <2>3, Joins, LeadsOn
  <2>5. /\ IsList(sites \o imports \o sensors \o batch \o apply \o gather)
        /\ Leads(w, sites \o imports \o sensors \o batch \o apply \o gather, v6)
    BY <1>1, <1>9, <2>4, Joins, LeadsOn
  <2>6. Leads(w, sites \o imports \o sensors \o batch \o apply \o gather \o notices, v6)
    BY <1>1, <1>10, <2>5, LeadsOn
  <2>7. QED
    BY <1>2, <2>6
<1>12. Shows(v6, c, NoMarks, r, mo /\ "pending" \notin m.topics)
  <2>1. ~(mo /\ "pending" \notin m.topics) => v6.pending = c.pending
    BY <1>5, <1>9 DEF Shows
  <2>2. ~r.stop /\ r.release = {} => v6.gather = GatherStatus(c)
    BY <1>9 DEF Shows
  <2>3. \A d \in Sensors : v6.sensor[d] = SensorView(c, d)
    BY <1>6, <1>9
  <2>4. QED
    BY <1>9, <2>1, <2>2, <2>3 DEF Shows, NoMarks
<1>13. QED
  BY <1>11, <1>12

\* Nothing is marked unless a flush is on its way.
MarkInv == ~scheduled => marks.topics = {} /\ marks.sensors = {} /\ marks.jobs = {}

Bodies(q) == [n \in 1..Len(q) |-> q[n].m]

\* Whoever reads all that is queued for it shows what the server has.
QueueInv ==
  \A p \in Pages : client[p].conn = "open" =>
    \E w : Leads(page[p].view, Bodies(client[p].queue), w) /\ Shows(w, core, marks, routes, moot)

ViewInv == HubInv /\ core \in Cores /\ moot \in BOOLEAN /\ MarkInv /\ QueueInv

\* A step to c marks what it changes, or a route that is at work will.
Follows(c, m, r, mo) ==
  /\ c \in Cores
  /\ marks.topics \subseteq m.topics /\ marks.sensors \subseteq m.sensors /\ marks.jobs \subseteq m.jobs
  /\ moot => mo
  /\ "sites" \in m.topics \/ c.sites = core.sites
  /\ "pending" \in m.topics \/ mo \/ c.pending = core.pending
  /\ \/ "gather" \in m.topics \/ r.stop \/ r.release # {}
     \/ GatherStatus(c) = GatherStatus(core) /\ ~routes.stop /\ routes.release = {}
  /\ \A d \in Sensors \ m.sensors : c.sensor[d] = core.sensor[d]
  /\ \/ "batch" \in m.topics
     \/ /\ c.batch.id = core.batch.id /\ c.batch.state = core.batch.state
        /\ \A d \in Sensors \ m.jobs : c.batch.job[d] = core.batch.job[d]
  /\ "apply" \in m.topics \/ c.apply = core.apply

LEMMA ShowsOn ==
  ASSUME NEW c, NEW m, NEW r, NEW mo, Follows(c, m, r, mo), NEW w, Shows(w, core, marks, routes, moot)
  PROVE  Shows(w, c, m, r, mo)
<1>1. w \in Views /\ ("sites" \notin m.topics => w.sites = c.sites) /\ ("apply" \notin m.topics => w.apply = c.apply)
  BY DEF Follows, Shows
<1>2. "pending" \notin m.topics /\ ~mo => w.pending = c.pending
  BY DEF Follows, Shows
<1>3. "gather" \notin m.topics /\ ~r.stop /\ r.release = {} => w.gather = GatherStatus(c)
  BY DEF Follows, Shows
<1>4. ASSUME NEW d \in Sensors \ m.sensors PROVE w.sensor[d] = SensorView(c, d)
  <2>1. c.sensor[d] = core.sensor[d] /\ w.sensor[d] = SensorView(core, d)
    BY DEF Follows, Shows
  <2>2. SensorView(c, d) = SensorView(core, d)
    BY <2>1 DEF SensorView
  <2>3. QED
    BY <2>1, <2>2
<1>5. "batch" \notin m.topics => /\ w.batch.id = c.batch.id /\ w.batch.state = c.batch.state
                                 /\ \A d \in Sensors \ m.jobs : w.batch.job[d] = c.batch.job[d]
  BY DEF Follows, Shows
<1>6. QED
  BY <1>1, <1>2, <1>3, <1>4, <1>5 DEF Shows

\* The state that is shown may change as long as that is marked.
LEMMA ViewKept ==
  ASSUME ViewInv, HubInv', UNCHANGED <<client, page>>, Follows(core', marks', routes', moot'), moot' \in BOOLEAN,
         MarkInv'
  PROVE  ViewInv'
<1>1. ASSUME NEW p \in Pages, client'[p].conn = "open"
      PROVE  \E w : Leads(page'[p].view, Bodies(client'[p].queue), w) /\ Shows(w, core', marks', routes', moot')
  <2>1. PICK w : Leads(page[p].view, Bodies(client[p].queue), w) /\ Shows(w, core, marks, routes, moot)
    BY <1>1 DEF ViewInv, QueueInv
  <2>2. Shows(w, core', marks', routes', moot')
    BY <2>1, ShowsOn
  <2>3. QED
    BY <2>1, <2>2
<1>2. QueueInv'
  BY <1>1 DEF QueueInv
<1>3. core' \in Cores
  BY DEF Follows
<1>4. QED
  BY <1>2, <1>3 DEF ViewInv

LEMMA BodiesOf ==
  ASSUME NEW q, IsList(q), NEW k \in Nat, NEW ms, IsList(ms), Len(ms) = k,
         NEW new, IsList(new), Len(new) = k, \A n \in 1..k : new[n].m = ms[n]
  PROVE  Bodies(q \o new) = Bodies(q) \o ms /\ IsList(Bodies(q))
<1>1. PICK b : b = Bodies(q)
  OBVIOUS
<1>2. PICK i \in Nat : i = Len(q)
  BY Joins
<1>3. b = [n \in 1..i |-> b[n]] /\ \A n \in 1..i : b[n] = q[n].m
  BY <1>1, <1>2 DEF Bodies
<1>4. IsList(b) /\ Len(b) = i
  <2>1. IsList(b)
    BY <1>3, SmallLists
  <2>2. Len(b) = i
    BY <1>3
  <2>3. QED
    BY <2>1, <2>2
<1>5. PICK r : r = q \o new
  OBVIOUS
<1>6. Len(r) = i + k /\ \A n \in 1..(i + k) : r[n] = IF n <= i THEN q[n] ELSE new[n - i]
  <2>1. Len(r) = Len(q) + Len(new) /\ \A n \in 1..Len(r) : r[n] = IF n <= Len(q) THEN q[n] ELSE new[n - Len(q)]
    BY <1>5, Joins
  <2>2. QED
    BY <1>2, <2>1
<1>7. PICK c : c = b \o ms
  OBVIOUS
<1>8. IsList(c) /\ Len(c) = i + k /\ \A n \in 1..(i + k) : c[n] = IF n <= i THEN b[n] ELSE ms[n - i]
  <2>1. /\ IsList(c) /\ Len(c) = Len(b) + Len(ms)
        /\ \A n \in 1..Len(c) : c[n] = IF n <= Len(b) THEN b[n] ELSE ms[n - Len(b)]
    BY <1>4, <1>7, Joins
  <2>2. QED
    BY <1>4, <2>1
<1>9. \A n \in 1..(i + k) : r[n].m = c[n]
  <2> SUFFICES ASSUME NEW n \in 1..(i + k) PROVE r[n].m = c[n]
    OBVIOUS
  <2>1. CASE n <= i
    <3>1. n \in 1..i
      BY <2>1
    <3>2. QED
      BY <1>3, <1>6, <1>8, <2>1, <3>1
  <2>2. CASE ~(n <= i)
    <3>1. n - i \in 1..k
      BY <2>2
    <3>2. r[n] = new[n - i] /\ c[n] = ms[n - i]
      BY <1>6, <1>8, <2>2
    <3>3. QED
      BY <3>1, <3>2
  <2>3. QED
    BY <2>1, <2>2
<1>10. c = [n \in 1..(i + k) |-> c[n]]
  <2>1. PICK T : c \in Seq(T)
    BY <1>8 DEF IsList
  <2>2. QED
    BY <1>8, <2>1
<1>11. Bodies(r) = [n \in 1..(i + k) |-> r[n].m]
  BY <1>6 DEF Bodies
<1>12. Bodies(r) = c
  BY <1>9, <1>10, <1>11
<1>13. QED
  BY <1>1, <1>4, <1>5, <1>7, <1>12

\* Publishing brings what is marked to every open connection.
LEMMA ViewPublished ==
  ASSUME ViewInv, HubInv', NEW c, NEW m \in Marking, Published(c, m), page' = page,
         Follows(c, m, routes', moot)
  PROVE  ViewInv'
<1>1. PICK ms : ms = Messages(c, m)
  OBVIOUS
<1>2. IsList(ms)
  BY <1>1, MessagesList
<1>3. PICK k \in Nat : k = Len(ms)
  BY <1>2, Joins
<1>4. PICK new : new = [n \in 1..k |-> [seq |-> seq + n, m |-> ms[n]]]
  OBVIOUS
<1>5. /\ core' = c /\ marks' = NoMarks /\ moot' = (moot /\ "pending" \notin m.topics)
      /\ client' = [p \in Pages |-> Put(client[p], new)]
  BY <1>1, <1>3, <1>4 DEF Published
<1>6. IsList(new) /\ Len(new) = k /\ \A n \in 1..k : new[n].m = ms[n]
  <2>1. new = [n \in 1..k |-> new[n]] /\ \A n \in 1..k : new[n].m = ms[n]
    BY <1>4
  <2>2. IsList(new)
    BY <2>1, SmallLists
  <2>3. Len(new) = k
    BY <2>1
  <2>4. QED
    BY <2>1, <2>2, <2>3
<1>7. moot \in BOOLEAN /\ c \in Cores
  BY DEF ViewInv, Follows
<1>8. ASSUME NEW p \in Pages, client'[p].conn = "open"
      PROVE  \E x : Leads(page'[p].view, Bodies(client'[p].queue), x) /\ Shows(x, core', marks', routes', moot')
  <2>1. PICK S : client \in [Pages -> [conn : {"off", "open", "closing"}, queue : Seq([seq : Int, m : S])]]
    BY DEF ViewInv, HubInv, HubTyped
  <2>2. PICK cl : cl = client[p]
    OBVIOUS
  <2>3. client'[p] = Put(cl, new) /\ cl \in [conn : {"off", "open", "closing"}, queue : Seq([seq : Int, m : S])]
    BY <1>5, <2>1, <2>2
  <2>4. cl.conn = "open" /\ client'[p].queue = cl.queue \o new
    <3>1. CASE cl.conn # "open"
      BY <1>8, <2>3, <3>1 DEF Put
    <3>2. CASE cl.conn = "open" /\ Len(cl.queue) + Len(new) > MaxQueue
      BY <1>8, <2>3, <3>2 DEF Put
    <3>3. CASE cl.conn = "open" /\ ~(Len(cl.queue) + Len(new) > MaxQueue)
      BY <2>3, <3>3 DEF Put
    <3>4. QED
      BY <3>1, <3>2, <3>3
  <2>5. PICK q : q = cl.queue
    OBVIOUS
  <2>6. IsList(q)
    BY <2>3, <2>5 DEF IsList
  <2>7. Bodies(q \o new) = Bodies(q) \o ms /\ IsList(Bodies(q))
    BY <1>2, <1>3, <1>6, <2>6, BodiesOf
  <2>8. PICK w : Leads(page[p].view, Bodies(q), w) /\ Shows(w, core, marks, routes, moot)
    BY <2>2, <2>4, <2>5 DEF ViewInv, QueueInv
  <2>9. Shows(w, c, m, routes', moot)
    BY <2>8, ShowsOn
  <2>10. PICK x : Leads(w, ms, x) /\ Shows(x, c, NoMarks, routes', moot /\ "pending" \notin m.topics)
    BY <1>1, <1>7, <2>9, MessagesLead
  <2>11. Leads(page[p].view, Bodies(q) \o ms, x)
    BY <1>2, <2>7, <2>8, <2>10, LeadsOn
  <2>12. QED
    BY <1>5, <2>4, <2>5, <2>7, <2>10, <2>11
<1>9. QueueInv'
  BY <1>8 DEF QueueInv
<1>10. MarkInv'
  BY <1>5 DEF MarkInv, NoMarks
<1>11. QED
  BY <1>5, <1>7, <1>9, <1>10 DEF ViewInv

\* The marks with some more.
LEMMA MarkedWith ==
  ASSUME HubInv, NEW t \in SUBSET TopicNames, NEW ds \in SUBSET Sensors
  PROVE  \E m \in Marking : /\ m = Marked(t, ds) /\ m.topics = marks.topics \cup t
                            /\ m.sensors = marks.sensors \cup ds /\ m.jobs = marks.jobs
<1>1. PICK k \in Marking : k = marks
  BY DEF HubInv, HubTyped
<1>2. PICK m : m = [k EXCEPT !.topics = k.topics \cup t, !.sensors = k.sensors \cup ds]
  OBVIOUS
<1>3. m = Marked(t, ds)
  BY <1>1, <1>2 DEF Marked
<1>4. m \in Marking
  BY <1>3, MarkingKept
<1>5. m.topics = k.topics \cup t /\ m.sensors = k.sensors \cup ds /\ m.jobs = k.jobs
  BY <1>2 DEF Marking
<1>6. QED
  BY <1>1, <1>3, <1>4, <1>5

\* The sets of marks that the steps add.
LEMMA MarkedOne ==
  ASSUME HubInv
  PROVE  /\ \A topic \in TopicNames : \E m \in Marking :
              /\ m = Marked({topic}, {}) /\ m.topics = marks.topics \cup {topic}
              /\ m.sensors = marks.sensors /\ m.jobs = marks.jobs
         /\ \A d \in Sensors : \E m \in Marking :
              /\ m = Marked({}, {d}) /\ m.topics = marks.topics
              /\ m.sensors = marks.sensors \cup {d} /\ m.jobs = marks.jobs
         /\ \A topic \in TopicNames : \A d \in Sensors : \E m \in Marking :
              /\ m = Marked({topic}, {d}) /\ m.topics = marks.topics \cup {topic}
              /\ m.sensors = marks.sensors \cup {d} /\ m.jobs = marks.jobs
         /\ \A t \in SUBSET TopicNames : \A ds \in SUBSET Sensors : \E m \in Marking :
              /\ m = Marked(t, ds) /\ m.topics = marks.topics \cup t
              /\ m.sensors = marks.sensors \cup ds /\ m.jobs = marks.jobs
<1>1. \A t \in SUBSET TopicNames : \A ds \in SUBSET Sensors : \E m \in Marking :
              /\ m = Marked(t, ds) /\ m.topics = marks.topics \cup t
              /\ m.sensors = marks.sensors \cup ds /\ m.jobs = marks.jobs
  BY MarkedWith
<1>2. PICK none \in SUBSET Sensors : none = {}
  OBVIOUS
<1>3. PICK nothing \in SUBSET TopicNames : nothing = {}
  OBVIOUS
<1>4. ASSUME NEW topic \in TopicNames
      PROVE  \E m \in Marking : /\ m = Marked({topic}, {}) /\ m.topics = marks.topics \cup {topic}
                                /\ m.sensors = marks.sensors /\ m.jobs = marks.jobs
  <2>1. PICK t \in SUBSET TopicNames : t = {topic}
    OBVIOUS
  <2>2. PICK m \in Marking : /\ m = Marked(t, none) /\ m.topics = marks.topics \cup t
                             /\ m.sensors = marks.sensors \cup none /\ m.jobs = marks.jobs
    BY <1>1
  <2>3. m.sensors = marks.sensors
    BY <1>2, <2>2
  <2>4. QED
    BY <1>2, <2>1, <2>2, <2>3
<1>5. ASSUME NEW d \in Sensors
      PROVE  \E m \in Marking : /\ m = Marked({}, {d}) /\ m.topics = marks.topics
                                /\ m.sensors = marks.sensors \cup {d} /\ m.jobs = marks.jobs
  <2>1. PICK ds \in SUBSET Sensors : ds = {d}
    OBVIOUS
  <2>2. PICK m \in Marking : /\ m = Marked(nothing, ds) /\ m.topics = marks.topics \cup nothing
                             /\ m.sensors = marks.sensors \cup ds /\ m.jobs = marks.jobs
    BY <1>1
  <2>3. m.topics = marks.topics
    BY <1>3, <2>2
  <2>4. QED
    BY <1>3, <2>1, <2>2, <2>3
<1>6. ASSUME NEW topic \in TopicNames, NEW d \in Sensors
      PROVE  \E m \in Marking : /\ m = Marked({topic}, {d}) /\ m.topics = marks.topics \cup {topic}
                                /\ m.sensors = marks.sensors \cup {d} /\ m.jobs = marks.jobs
  <2>1. PICK t \in SUBSET TopicNames : t = {topic}
    OBVIOUS
  <2>2. PICK ds \in SUBSET Sensors : ds = {d}
    OBVIOUS
  <2>3. PICK m \in Marking : /\ m = Marked(t, ds) /\ m.topics = marks.topics \cup t
                             /\ m.sensors = marks.sensors \cup ds /\ m.jobs = marks.jobs
    BY <1>1
  <2>4. QED
    BY <2>1, <2>2, <2>3
<1>7. QED
  BY <1>1, <1>4, <1>5, <1>6

\* A state with another sensor d.
LEMMA WithSensor ==
  ASSUME core \in Cores, NEW d \in Sensors, NEW s \in SensorStates
  PROVE  \E c \in Cores :
           /\ c = With(d, s) /\ c.sites = core.sites /\ c.pending = core.pending /\ c.gathering = core.gathering
           /\ c.linking = core.linking /\ c.connecting = core.connecting /\ c.batch = core.batch
           /\ c.apply = core.apply
           /\ \A e \in Sensors : c.sensor[e] = IF e = d THEN s ELSE core.sensor[e]
<1>1. PICK u \in [Sensors -> SensorStates] : u = [core.sensor EXCEPT ![d] = s]
  BY CoreParts
<1>2. \A e \in Sensors : u[e] = IF e = d THEN s ELSE core.sensor[e]
  BY <1>1, CoreParts
<1>3. PICK c : c = [core EXCEPT !.sensor = u]
  OBVIOUS
<1>4. c \in Cores /\ c.sensor = u
  BY <1>3 DEF Cores
<1>5. /\ c.sites = core.sites /\ c.pending = core.pending /\ c.gathering = core.gathering
      /\ c.linking = core.linking /\ c.connecting = core.connecting /\ c.batch = core.batch
      /\ c.apply = core.apply
  BY <1>3 DEF Cores
<1>6. c = With(d, s)
  <2>1. With(d, s) = [core EXCEPT !.sensor = [core.sensor EXCEPT ![d] = s]]
    BY DEF With
  <2>2. QED
    BY <1>1, <1>3, <2>1
<1>7. QED
  BY <1>2, <1>4, <1>5, <1>6

\* A state of which one part differs.
LEMMA WithPart ==
  ASSUME core \in Cores
  PROVE  /\ \A x \in Nat : \E c \in Cores : c = [core EXCEPT !.sites = x] /\ c.sites = x /\ c.pending = core.pending
              /\ GatherStatus(c) = GatherStatus(core) /\ c.sensor = core.sensor /\ c.batch = core.batch /\ c.apply = core.apply
         /\ \A x \in Nat : \E c \in Cores : c = [core EXCEPT !.apply = x] /\ c.sites = core.sites /\ c.pending = core.pending
              /\ GatherStatus(c) = GatherStatus(core) /\ c.sensor = core.sensor /\ c.batch = core.batch
         /\ \A x \in BOOLEAN : \E c \in Cores : c = [core EXCEPT !.gathering = x] /\ c.sites = core.sites
              /\ c.pending = core.pending /\ c.sensor = core.sensor /\ c.batch = core.batch /\ c.apply = core.apply
         /\ \A x \in SUBSET Sensors : \E c \in Cores : c = [core EXCEPT !.connecting = x] /\ c.sites = core.sites
              /\ c.pending = core.pending /\ c.sensor = core.sensor /\ c.batch = core.batch /\ c.apply = core.apply
         /\ \A x \in Batches : \E c \in Cores : c = [core EXCEPT !.batch = x] /\ c.sites = core.sites /\ c.pending = core.pending
              /\ GatherStatus(c) = GatherStatus(core) /\ c.sensor = core.sensor /\ c.batch = x /\ c.apply = core.apply
         /\ \A x, y \in SUBSET Sensors : \E c \in Cores : c = [core EXCEPT !.connecting = x, !.linking = y]
              /\ c.sites = core.sites /\ c.pending = core.pending /\ c.sensor = core.sensor /\ c.batch = core.batch
              /\ c.apply = core.apply /\ c.connecting = x /\ c.gathering = core.gathering
         /\ \A x \in [Sensors -> SensorStates] : \E c \in Cores : c = [core EXCEPT !.sensor = x]
              /\ c.sites = core.sites /\ c.pending = core.pending /\ GatherStatus(c) = GatherStatus(core)
              /\ c.sensor = x /\ c.batch = core.batch /\ c.apply = core.apply
<1>1. ASSUME NEW x \in Nat
      PROVE  \E c \in Cores : c = [core EXCEPT !.sites = x] /\ c.sites = x /\ c.pending = core.pending
              /\ GatherStatus(c) = GatherStatus(core) /\ c.sensor = core.sensor /\ c.batch = core.batch /\ c.apply = core.apply
  <2>1. PICK c : c = [core EXCEPT !.sites = x]
    OBVIOUS
  <2>2. QED
    BY <2>1 DEF Cores, GatherStatus
<1>2. ASSUME NEW x \in Nat
      PROVE  \E c \in Cores : c = [core EXCEPT !.apply = x] /\ c.sites = core.sites /\ c.pending = core.pending
              /\ GatherStatus(c) = GatherStatus(core) /\ c.sensor = core.sensor /\ c.batch = core.batch
  <2>1. PICK c : c = [core EXCEPT !.apply = x]
    OBVIOUS
  <2>2. QED
    BY <2>1 DEF Cores, GatherStatus
<1>3. ASSUME NEW x \in BOOLEAN
      PROVE  \E c \in Cores : c = [core EXCEPT !.gathering = x] /\ c.sites = core.sites
              /\ c.pending = core.pending /\ c.sensor = core.sensor /\ c.batch = core.batch /\ c.apply = core.apply
  <2>1. PICK c : c = [core EXCEPT !.gathering = x]
    OBVIOUS
  <2>2. QED
    BY <2>1 DEF Cores
<1>4. ASSUME NEW x \in SUBSET Sensors
      PROVE  \E c \in Cores : c = [core EXCEPT !.connecting = x] /\ c.sites = core.sites
              /\ c.pending = core.pending /\ c.sensor = core.sensor /\ c.batch = core.batch /\ c.apply = core.apply
  <2>1. PICK c : c = [core EXCEPT !.connecting = x]
    OBVIOUS
  <2>2. QED
    BY <2>1 DEF Cores
<1>5. ASSUME NEW x \in Batches
      PROVE  \E c \in Cores : c = [core EXCEPT !.batch = x] /\ c.sites = core.sites /\ c.pending = core.pending
              /\ GatherStatus(c) = GatherStatus(core) /\ c.sensor = core.sensor /\ c.batch = x /\ c.apply = core.apply
  <2>1. PICK c : c = [core EXCEPT !.batch = x]
    OBVIOUS
  <2>2. QED
    BY <2>1 DEF Cores, GatherStatus
<1>6. ASSUME NEW x \in SUBSET Sensors, NEW y \in SUBSET Sensors
      PROVE  \E c \in Cores : c = [core EXCEPT !.connecting = x, !.linking = y]
              /\ c.sites = core.sites /\ c.pending = core.pending /\ c.sensor = core.sensor /\ c.batch = core.batch
              /\ c.apply = core.apply /\ c.connecting = x /\ c.gathering = core.gathering
  <2>1. PICK b : b = [core EXCEPT !.connecting = x]
    OBVIOUS
  <2>2. PICK c : c = [b EXCEPT !.linking = y]
    OBVIOUS
  <2>3. c = [core EXCEPT !.connecting = x, !.linking = y]
    BY <2>1, <2>2
  <2>4. b \in Cores
    BY <2>1 DEF Cores
  <2>5. QED
    BY <2>1, <2>2, <2>3, <2>4 DEF Cores
<1>7. ASSUME NEW x \in [Sensors -> SensorStates]
      PROVE  \E c \in Cores : c = [core EXCEPT !.sensor = x]
              /\ c.sites = core.sites /\ c.pending = core.pending /\ GatherStatus(c) = GatherStatus(core)
              /\ c.sensor = x /\ c.batch = core.batch /\ c.apply = core.apply
  <2>1. PICK c : c = [core EXCEPT !.sensor = x]
    OBVIOUS
  <2>2. QED
    BY <2>1 DEF Cores, GatherStatus
<1>8. QED
  BY <1>1, <1>2, <1>3, <1>4, <1>5, <1>6, <1>7

LEMMA ViewRouted ==
  ASSUME ViewInv, HubInv', NEW c, NEW m \in Marking, Route(c, m), Follows(c, m, routes, moot)
  PROVE  ViewInv'
<1>1. Published(c, m) /\ page' = page /\ routes' = routes
  BY DEF Route
<1>2. Follows(c, m, routes', moot)
  BY <1>1
<1>3. QED
  BY <1>1, <1>2, ViewPublished

LEMMA ViewScheduled ==
  ASSUME ViewInv, HubInv', NEW c, NEW m, Scheduled(c, m), page' = page, moot' \in BOOLEAN,
         Follows(c, m, routes', moot')
  PROVE  ViewInv'
<1>1. core' = c /\ marks' = m /\ scheduled' = TRUE /\ client' = client
  BY DEF Scheduled
<1>2. Follows(core', marks', routes', moot') /\ MarkInv'
  BY <1>1 DEF MarkInv
<1>3. QED
  BY <1>1, <1>2, ViewKept

\* The actions that publish at once mark what they change.
LEMMA PublishStepShows ==
  ASSUME ViewInv, HubInv',
         \/ Flush \/ CreateSite \/ GatherStart \/ ApplyStarts
         \/ \E d \in Sensors : \/ CreateSensor(d) \/ UpdateSensor(d) \/ DeleteSensor(d)
                               \/ \E new \in BOOLEAN : Import(d, new)
         \/ \E ds \in SUBSET Sensors : CreateBatch(ds)
  PROVE  ViewInv'
<1>1. HubInv /\ core \in Cores /\ marks \in Marking
  BY DEF ViewInv, HubInv, HubTyped
<1>2. CASE Flush
  <2>1. Follows(core, marks, routes, moot)
    BY <1>1 DEF Follows
  <2>2. QED
    BY <1>1, <1>2, <2>1, ViewRouted DEF Flush
<1>3. CASE CreateSite
  <2>1. PICK m \in Marking : /\ m = Marked({"sites"}, {}) /\ m.topics = marks.topics \cup {"sites"}
                             /\ m.sensors = marks.sensors /\ m.jobs = marks.jobs
    BY <1>1, MarkedOne DEF TopicNames
  <2>2. PICK x \in Nat : x = core.sites + 1
    BY <1>1, CoreParts
  <2>3. PICK c \in Cores : c = [core EXCEPT !.sites = x] /\ c.sites = x /\ c.pending = core.pending
              /\ GatherStatus(c) = GatherStatus(core) /\ c.sensor = core.sensor /\ c.batch = core.batch /\ c.apply = core.apply
    BY <1>1, WithPart
  <2>4. Route(c, m)
    BY <1>3, <2>1, <2>2, <2>3 DEF CreateSite
  <2>5. Follows(c, m, routes, moot)
    BY <2>1, <2>3 DEF Follows
  <2>6. QED
    BY <2>4, <2>5, ViewRouted
<1>4. CASE GatherStart
  <2>1. PICK m \in Marking : /\ m = Marked({"gather"}, {}) /\ m.topics = marks.topics \cup {"gather"}
                             /\ m.sensors = marks.sensors /\ m.jobs = marks.jobs
    BY <1>1, MarkedOne DEF TopicNames
  <2>2. PICK c \in Cores : c = [core EXCEPT !.gathering = TRUE] /\ c.sites = core.sites
              /\ c.pending = core.pending /\ c.sensor = core.sensor /\ c.batch = core.batch /\ c.apply = core.apply
    BY <1>1, WithPart
  <2>3. Route(c, m)
    BY <1>4, <2>1, <2>2 DEF GatherStart
  <2>4. Follows(c, m, routes, moot)
    BY <2>1, <2>2 DEF Follows
  <2>5. QED
    BY <2>3, <2>4, ViewRouted
<1>5. CASE ApplyStarts
  <2>1. PICK m \in Marking : /\ m = Marked({"apply"}, {}) /\ m.topics = marks.topics \cup {"apply"}
                             /\ m.sensors = marks.sensors /\ m.jobs = marks.jobs
    BY <1>1, MarkedOne DEF TopicNames
  <2>2. PICK x \in Nat : x = core.apply + 1
    BY <1>1, CoreParts
  <2>3. PICK c \in Cores : c = [core EXCEPT !.apply = x] /\ c.sites = core.sites /\ c.pending = core.pending
              /\ GatherStatus(c) = GatherStatus(core) /\ c.sensor = core.sensor /\ c.batch = core.batch
    BY <1>1, WithPart
  <2>4. Route(c, m)
    BY <1>5, <2>1, <2>2, <2>3 DEF ApplyStarts
  <2>5. Follows(c, m, routes, moot)
    BY <2>1, <2>3 DEF Follows
  <2>6. QED
    BY <2>4, <2>5, ViewRouted
<1>6. ASSUME NEW d \in Sensors, UpdateSensor(d) \/ DeleteSensor(d) PROVE ViewInv'
  <2>1. PICK m \in Marking : /\ m = Marked({}, {d}) /\ m.topics = marks.topics
                             /\ m.sensors = marks.sensors \cup {d} /\ m.jobs = marks.jobs
    BY <1>1, MarkedOne
  <2>2. PICK s : s \in SensorStates /\ Route(With(d, s), m)
    <3>1. PICK t \in SensorStates : t = core.sensor[d]
      BY <1>1, CoreParts
    <3>2. Renewed(t) \in SensorStates
      BY DEF Renewed, SensorStates
    <3>3. [t EXCEPT !.reg = FALSE, !.cached = FALSE] \in SensorStates
      BY DEF SensorStates
    <3>4. QED
      BY <1>6, <2>1, <3>1, <3>2, <3>3 DEF UpdateSensor, DeleteSensor
  <2>3. PICK c \in Cores :
           /\ c = With(d, s) /\ c.sites = core.sites /\ c.pending = core.pending /\ c.gathering = core.gathering
           /\ c.linking = core.linking /\ c.connecting = core.connecting /\ c.batch = core.batch
           /\ c.apply = core.apply
           /\ \A e \in Sensors : c.sensor[e] = IF e = d THEN s ELSE core.sensor[e]
    BY <1>1, <2>2, WithSensor
  <2>4. Follows(c, m, routes, moot)
    BY <2>1, <2>3 DEF Follows, GatherStatus
  <2>5. QED
    BY <2>2, <2>3, <2>4, ViewRouted
<1>7. ASSUME NEW d \in Sensors, CreateSensor(d) PROVE ViewInv'
  <2>1. PICK t \in SensorStates : t = core.sensor[d]
    BY <1>1, CoreParts
  <2>2. PICK s \in SensorStates : s = [t EXCEPT !.reg = TRUE, !.cached = Linked(d)]
    BY DEF SensorStates, Linked
  <2>3. PICK c \in Cores :
           /\ c = With(d, s) /\ c.sites = core.sites /\ c.pending = core.pending /\ c.gathering = core.gathering
           /\ c.linking = core.linking /\ c.connecting = core.connecting /\ c.batch = core.batch
           /\ c.apply = core.apply
           /\ \A e \in Sensors : c.sensor[e] = IF e = d THEN s ELSE core.sensor[e]
    BY <1>1, WithSensor
  <2>4. CASE Linked(d)
    <3>1. PICK m \in Marking : /\ m = Marked({"pending"}, {d}) /\ m.topics = marks.topics \cup {"pending"}
                               /\ m.sensors = marks.sensors \cup {d} /\ m.jobs = marks.jobs
      BY <1>1, MarkedOne DEF TopicNames
    <3>2. PICK p \in [Sensors -> Nat] : p = [c.pending EXCEPT ![d] = 0]
      BY CoreParts
    <3>3. PICK b : b = [c EXCEPT !.pending = p]
      OBVIOUS
    <3>4. b \in Cores /\ b.sites = c.sites /\ b.gathering = c.gathering /\ b.linking = c.linking
          /\ b.connecting = c.connecting /\ b.batch = c.batch /\ b.apply = c.apply /\ b.sensor = c.sensor
      BY <3>3 DEF Cores
    <3>5. b = [c EXCEPT !.pending[d] = 0]
      BY <3>2, <3>3
    <3>6. Route(b, m)
      BY <1>7, <2>1, <2>2, <2>3, <2>4, <3>1, <3>5 DEF CreateSensor
    <3>7. Follows(b, m, routes, moot)
      BY <2>3, <3>1, <3>4 DEF Follows, GatherStatus
    <3>8. QED
      BY <3>6, <3>7, ViewRouted
  <2>5. CASE ~Linked(d)
    <3>1. PICK m \in Marking : /\ m = Marked({}, {d}) /\ m.topics = marks.topics
                               /\ m.sensors = marks.sensors \cup {d} /\ m.jobs = marks.jobs
      BY <1>1, MarkedOne
    <3>2. Route(c, m)
      BY <1>7, <2>1, <2>2, <2>3, <2>5, <3>1 DEF CreateSensor
    <3>3. Follows(c, m, routes, moot)
      BY <2>3, <3>1 DEF Follows, GatherStatus
    <3>4. QED
      BY <3>2, <3>3, ViewRouted
  <2>6. QED
    BY <2>4, <2>5
<1>8. ASSUME NEW d \in Sensors, NEW new \in BOOLEAN, Import(d, new) PROVE ViewInv'
  <2>1. PICK t \in SUBSET TopicNames : t = {"pending"} \cup (IF new THEN {"sites"} ELSE {})
    BY DEF TopicNames
  <2>2. PICK m \in Marking : /\ m = Marked(t, {}) /\ m.topics = marks.topics \cup t
                             /\ m.sensors = marks.sensors /\ m.jobs = marks.jobs
    <3>1. PICK none \in SUBSET Sensors : none = {}
      OBVIOUS
    <3>2. PICK m \in Marking : /\ m = Marked(t, none) /\ m.topics = marks.topics \cup t
                               /\ m.sensors = marks.sensors \cup none /\ m.jobs = marks.jobs
      BY <1>1, MarkedOne
    <3>3. m.sensors = marks.sensors
      BY <3>1, <3>2
    <3>4. QED
      BY <3>1, <3>2, <3>3
  <2>3. PICK p \in [Sensors -> Nat] : p = [core.pending EXCEPT ![d] = core.pending[d] + 1]
    <3>1. PICK q \in [Sensors -> Nat] : q = core.pending
      BY <1>1, CoreParts
    <3>2. PICK n \in Nat : n = q[d] + 1
      OBVIOUS
    <3>3. [q EXCEPT ![d] = n] \in [Sensors -> Nat]
      OBVIOUS
    <3>4. QED
      BY <3>1, <3>2, <3>3
  <2>4. PICK k \in Nat : k = IF new THEN core.sites + 1 ELSE core.sites
    BY <1>1, CoreParts
  <2>5. PICK b : b = [core EXCEPT !.pending = p]
    OBVIOUS
  <2>6. b \in Cores /\ b.sites = core.sites /\ b.gathering = core.gathering
        /\ b.connecting = core.connecting /\ b.batch = core.batch /\ b.apply = core.apply /\ b.sensor = core.sensor
    BY <1>1, <2>5 DEF Cores
  <2>7. PICK c : c = [b EXCEPT !.sites = k]
    OBVIOUS
  <2>8. c \in Cores /\ c.sites = k /\ c.gathering = b.gathering
        /\ c.connecting = b.connecting /\ c.batch = b.batch /\ c.apply = b.apply /\ c.sensor = b.sensor
    BY <2>6, <2>7 DEF Cores
  <2>9. c = [core EXCEPT !.pending[d] = core.pending[d] + 1, !.sites = IF new THEN core.sites + 1 ELSE core.sites]
    BY <2>3, <2>4, <2>5, <2>7
  <2>10. Route(c, m)
    BY <1>8, <2>1, <2>2, <2>9 DEF Import
  <2>11. Follows(c, m, routes, moot)
    BY <2>1, <2>2, <2>4, <2>6, <2>8 DEF Follows, GatherStatus
  <2>12. QED
    BY <2>10, <2>11, ViewRouted
<1>9. ASSUME NEW ds \in SUBSET Sensors, CreateBatch(ds) PROVE ViewInv'
  <2>1. PICK m \in Marking : /\ m = Marked({"batch"}, {}) /\ m.topics = marks.topics \cup {"batch"}
                             /\ m.sensors = marks.sensors /\ m.jobs = marks.jobs
    BY <1>1, MarkedOne DEF TopicNames
  <2>2. PICK b : b = [id |-> core.batch.id + 1, state |-> "waiting", job |-> [d \in Sensors |-> IF d \in ds THEN 1 ELSE 0]]
    OBVIOUS
  <2>3. b \in Batches
    <3>1. core.batch.id + 1 \in Nat
      BY <1>1, CoreParts DEF Batches
    <3>2. QED
      BY <2>2, <3>1 DEF Batches
  <2>4. PICK c \in Cores : c = [core EXCEPT !.batch = b] /\ c.sites = core.sites /\ c.pending = core.pending
              /\ GatherStatus(c) = GatherStatus(core) /\ c.sensor = core.sensor /\ c.batch = b /\ c.apply = core.apply
    BY <1>1, <2>3, WithPart
  <2>5. Route(c, m)
    BY <1>9, <2>1, <2>2, <2>4 DEF CreateBatch
  <2>6. Follows(c, m, routes, moot)
    BY <2>1, <2>4 DEF Follows
  <2>7. QED
    BY <2>5, <2>6, ViewRouted
<1>10. QED
  BY <1>2, <1>3, <1>4, <1>5, <1>6, <1>7, <1>8, <1>9

LEMMA EventShows ==
  ASSUME ViewInv, HubInv', NEW c, NEW m, Event(c, m), Follows(c, m, routes, moot)
  PROVE  ViewInv'
<1>1. Scheduled(c, m) /\ page' = page /\ routes' = routes /\ moot' = moot
  BY DEF Event
<1>2. moot' \in BOOLEAN
  BY <1>1 DEF ViewInv
<1>3. Follows(c, m, routes', moot')
  BY <1>1
<1>4. QED
  BY <1>1, <1>2, <1>3, ViewScheduled

\* A connect that ends changes nothing else that a route waits for.
LEMMA UncancelledShows ==
  ASSUME ViewInv, HubInv', NEW c, NEW m, Scheduled(c, m), page' = page, moot' \in BOOLEAN,
         NEW d, Uncancelled(d), Follows(c, m, routes, moot')
  PROVE  ViewInv'
<1>1. routes = [release |-> routes.release, stop |-> routes.stop, cancel |-> routes.cancel]
  BY DEF ViewInv, HubInv, HubTyped
<1>2. routes'.release = routes.release /\ routes'.stop = routes.stop
  BY <1>1 DEF Uncancelled
<1>3. Follows(c, m, routes', moot')
  BY <1>2 DEF Follows
<1>4. QED
  BY <1>3, ViewScheduled

\* The events of a sensor, of a job, of the batch and of the apply job.
LEMMA ChangesShow ==
  ASSUME ViewInv, HubInv',
         \/ ApplyChanges
         \/ \E d \in Sensors : LinkDown(d) \/ BusyChanges(d) \/ ConfigChanges(d) \/ JobChanges(d)
         \/ \E new \in {"running", "ended"} : BatchChanges(new)
  PROVE  ViewInv'
<1>1. HubInv /\ core \in Cores /\ marks \in Marking
  BY DEF ViewInv, HubInv, HubTyped
<1>2. CASE ApplyChanges
  <2>1. PICK m \in Marking : /\ m = Marked({"apply"}, {}) /\ m.topics = marks.topics \cup {"apply"}
                             /\ m.sensors = marks.sensors /\ m.jobs = marks.jobs
    BY <1>1, MarkedOne DEF TopicNames
  <2>2. PICK x \in Nat : x = core.apply + 1
    BY <1>1, CoreParts
  <2>3. PICK c \in Cores : c = [core EXCEPT !.apply = x] /\ c.sites = core.sites /\ c.pending = core.pending
              /\ GatherStatus(c) = GatherStatus(core) /\ c.sensor = core.sensor /\ c.batch = core.batch
    BY <1>1, WithPart
  <2>4. Event(c, m)
    BY <1>2, <2>1, <2>2, <2>3 DEF ApplyChanges
  <2>5. Follows(c, m, routes, moot)
    BY <2>1, <2>3 DEF Follows
  <2>6. QED
    BY <2>4, <2>5, EventShows
<1>3. ASSUME NEW d \in Sensors, LinkDown(d) \/ BusyChanges(d) \/ ConfigChanges(d) PROVE ViewInv'
  <2>1. PICK m \in Marking : /\ m = Marked({}, {d}) /\ m.topics = marks.topics
                             /\ m.sensors = marks.sensors \cup {d} /\ m.jobs = marks.jobs
    BY <1>1, MarkedOne
  <2>2. PICK s \in SensorStates : Event(With(d, s), m)
    <3>1. PICK t \in SensorStates : t = core.sensor[d]
      BY <1>1, CoreParts
    <3>2. Renewed(t) \in SensorStates
      BY DEF Renewed, SensorStates
    <3>3. [t EXCEPT !.link = "lost"] \in SensorStates /\ [t EXCEPT !.busy = ~t.busy] \in SensorStates
      BY DEF SensorStates
    <3>4. QED
      BY <1>3, <2>1, <3>1, <3>2, <3>3 DEF LinkDown, BusyChanges, ConfigChanges
  <2>3. PICK c \in Cores :
           /\ c = With(d, s) /\ c.sites = core.sites /\ c.pending = core.pending /\ c.gathering = core.gathering
           /\ c.linking = core.linking /\ c.connecting = core.connecting /\ c.batch = core.batch
           /\ c.apply = core.apply
           /\ \A e \in Sensors : c.sensor[e] = IF e = d THEN s ELSE core.sensor[e]
    BY <1>1, WithSensor
  <2>4. Follows(c, m, routes, moot)
    BY <2>1, <2>3 DEF Follows, GatherStatus
  <2>5. QED
    BY <2>2, <2>3, <2>4, EventShows
<1>4. ASSUME NEW d \in Sensors, JobChanges(d) PROVE ViewInv'
  <2>1. PICK m : m = [marks EXCEPT !.jobs = marks.jobs \cup {d}]
    OBVIOUS
  <2>2. m.topics = marks.topics /\ m.sensors = marks.sensors /\ m.jobs = marks.jobs \cup {d}
    BY <1>1, <2>1 DEF Marking
  <2>3. PICK b \in Batches : b = core.batch
    BY <1>1, CoreParts
  <2>4. PICK j \in [Sensors -> Nat] : j = b.job
    BY DEF Batches
  <2>5. PICK n \in Nat : n = j[d] + 1
    OBVIOUS
  <2>6. PICK k \in [Sensors -> Nat] : k = [j EXCEPT ![d] = n]
    OBVIOUS
  <2>7. PICK a \in Batches : a = [b EXCEPT !.job = k] /\ a.id = b.id /\ a.state = b.state /\ a.job = k
    <3>1. PICK a : a = [b EXCEPT !.job = k]
      OBVIOUS
    <3>2. a \in Batches /\ a.id = b.id /\ a.state = b.state /\ a.job = k
      BY <3>1 DEF Batches
    <3>3. QED
      BY <3>1, <3>2
  <2>8. PICK c \in Cores : c = [core EXCEPT !.batch = a] /\ c.sites = core.sites /\ c.pending = core.pending
              /\ GatherStatus(c) = GatherStatus(core) /\ c.sensor = core.sensor /\ c.batch = a /\ c.apply = core.apply
    BY <1>1, WithPart
  <2>9. [core EXCEPT !.batch.job[d] = @ + 1]
          = [core EXCEPT !.batch = [core.batch EXCEPT !.job = [core.batch.job EXCEPT ![d] = core.batch.job[d] + 1]]]
    OBVIOUS
  <2>10. c = [core EXCEPT !.batch.job[d] = @ + 1]
    BY <2>3, <2>4, <2>5, <2>6, <2>7, <2>8, <2>9
  <2>11. Event(c, m)
    BY <1>4, <2>1, <2>10 DEF JobChanges
  <2>12. \A e \in Sensors \ m.jobs : k[e] = j[e]
    BY <2>2, <2>6
  <2>13. Follows(c, m, routes, moot)
    <3>1. c.batch.id = core.batch.id /\ c.batch.state = core.batch.state
      BY <2>3, <2>7, <2>8
    <3>2. \A e \in Sensors \ m.jobs : c.batch.job[e] = core.batch.job[e]
      <4>1. c.batch.job = k
        BY <2>7, <2>8
      <4>2. core.batch.job = j
        BY <2>3, <2>4
      <4>3. QED
        BY <2>12, <4>1, <4>2
    <3>3. marks.jobs \subseteq m.jobs
      BY <2>2
    <3>4. QED
      BY <2>2, <2>8, <3>1, <3>2, <3>3 DEF Follows
  <2>14. QED
    BY <2>11, <2>13, EventShows
<1>5. ASSUME NEW new \in {"running", "ended"}, BatchChanges(new) PROVE ViewInv'
  <2>1. PICK m \in Marking : /\ m = Marked({"batch"}, {}) /\ m.topics = marks.topics \cup {"batch"}
                             /\ m.sensors = marks.sensors /\ m.jobs = marks.jobs
    BY <1>1, MarkedOne DEF TopicNames
  <2>2. PICK b \in Batches : b = core.batch
    BY <1>1, CoreParts
  <2>3. PICK a \in Batches : a = [b EXCEPT !.state = new]
    BY DEF Batches
  <2>4. PICK c \in Cores : c = [core EXCEPT !.batch = a] /\ c.sites = core.sites /\ c.pending = core.pending
              /\ GatherStatus(c) = GatherStatus(core) /\ c.sensor = core.sensor /\ c.batch = a /\ c.apply = core.apply
    BY <1>1, WithPart
  <2>5. [core EXCEPT !.batch.state = new] = [core EXCEPT !.batch = [core.batch EXCEPT !.state = new]]
    OBVIOUS
  <2>6. Event(c, m)
    BY <1>5, <2>1, <2>2, <2>3, <2>4, <2>5 DEF BatchChanges
  <2>7. Follows(c, m, routes, moot)
    BY <2>1, <2>4 DEF Follows
  <2>8. QED
    BY <2>6, <2>7, EventShows
<1>6. QED
  BY <1>2, <1>3, <1>4, <1>5

\* The gather: what it connects is marked, or was not shown.
LEMMA GatherShows ==
  ASSUME ViewInv, HubInv',
         \/ StopBegins \/ NoticeAgain
         \/ \E d \in Sensors : Connecting(d) \/ ConnectCancelled(d) \/ GatherFails(d)
  PROVE  ViewInv'
<1>1. HubInv /\ core \in Cores /\ marks \in Marking /\ moot \in BOOLEAN /\ MarkInv
  BY DEF ViewInv, HubInv, HubTyped
<1>2. routes = [release |-> routes.release, stop |-> routes.stop, cancel |-> routes.cancel]
  BY DEF ViewInv, HubInv, HubTyped
<1>3. CASE StopBegins
  <2>1. PICK off \in BOOLEAN : off = FALSE
    OBVIOUS
  <2>2. PICK c \in Cores : c = [core EXCEPT !.gathering = off] /\ c.sites = core.sites
              /\ c.pending = core.pending /\ c.sensor = core.sensor /\ c.batch = core.batch /\ c.apply = core.apply
    BY <1>1, WithPart
  <2>3. core' = c /\ UNCHANGED <<marks, scheduled, client, page, moot>>
    BY <1>3, <2>1, <2>2 DEF StopBegins
  <2>4. routes'.stop = TRUE
    BY <1>2, <1>3 DEF StopBegins
  <2>5. Follows(core', marks', routes', moot')
    BY <2>2, <2>3, <2>4 DEF Follows
  <2>6. MarkInv' /\ moot' \in BOOLEAN
    BY <1>1, <2>3 DEF MarkInv
  <2>7. QED
    BY <2>3, <2>5, <2>6, ViewKept
<1>4. CASE NoticeAgain
  <2>1. UNCHANGED <<core, routes, marks, scheduled, client, page, moot>>
    BY <1>4 DEF NoticeAgain
  <2>2. Follows(core, marks, routes, moot)
    BY <1>1 DEF Follows
  <2>3. MarkInv' /\ moot' \in BOOLEAN
    BY <1>1, <2>1 DEF MarkInv
  <2>4. QED
    BY <2>1, <2>2, <2>3, ViewKept
<1>5. ASSUME NEW d \in Sensors, Connecting(d) PROVE ViewInv'
  <2>1. PICK m \in Marking : /\ m = Marked({"gather"}, {}) /\ m.topics = marks.topics \cup {"gather"}
                             /\ m.sensors = marks.sensors /\ m.jobs = marks.jobs
    BY <1>1, MarkedOne DEF TopicNames
  <2>2. PICK x \in SUBSET Sensors : x = core.connecting \cup {d}
    BY <1>1, CoreParts
  <2>3. PICK y \in SUBSET Sensors : y = core.linking \cup {d}
    BY <1>1, CoreParts
  <2>4. PICK c \in Cores : c = [core EXCEPT !.connecting = x, !.linking = y]
              /\ c.sites = core.sites /\ c.pending = core.pending /\ c.sensor = core.sensor /\ c.batch = core.batch
              /\ c.apply = core.apply /\ c.connecting = x /\ c.gathering = core.gathering
    BY <1>1, WithPart
  <2>5. Event(c, m)
    BY <1>5, <2>1, <2>2, <2>3, <2>4 DEF Connecting
  <2>6. Follows(c, m, routes, moot)
    BY <2>1, <2>4 DEF Follows
  <2>7. QED
    BY <2>5, <2>6, EventShows
<1>6. ASSUME NEW d \in Sensors, ConnectCancelled(d) \/ GatherFails(d) PROVE ViewInv'
  <2>1. PICK t \in SUBSET TopicNames : t = Forgotten(d)
    BY DEF Forgotten, TopicNames
  <2>2. PICK k \in Marking : /\ k = Marked(t, {}) /\ k.topics = marks.topics \cup t
                             /\ k.sensors = marks.sensors /\ k.jobs = marks.jobs
    <3>1. PICK none \in SUBSET Sensors : none = {}
      OBVIOUS
    <3>2. PICK k \in Marking : /\ k = Marked(t, none) /\ k.topics = marks.topics \cup t
                               /\ k.sensors = marks.sensors \cup none /\ k.jobs = marks.jobs
      BY <1>1, MarkedOne
    <3>3. k.sensors = marks.sensors
      BY <3>1, <3>2
    <3>4. QED
      BY <3>1, <3>2, <3>3
  <2>3. PICK x \in SUBSET Sensors : x = core.connecting \ {d}
    BY <1>1, CoreParts
  <2>4. PICK y \in SUBSET Sensors : y = core.linking \ {d}
    BY <1>1, CoreParts
  <2>5. PICK c \in Cores : c = [core EXCEPT !.connecting = x, !.linking = y]
              /\ c.sites = core.sites /\ c.pending = core.pending /\ c.sensor = core.sensor /\ c.batch = core.batch
              /\ c.apply = core.apply /\ c.connecting = x /\ c.gathering = core.gathering
    BY <1>1, WithPart
  <2>6. c = Unlinked(d)
    BY <2>3, <2>4, <2>5 DEF Unlinked
  <2>7. "gather" \in t \/ GatherStatus(c) = GatherStatus(core)
    BY <2>1, <2>3, <2>5 DEF Forgotten, GatherStatus
  <2>8. PICK m : /\ Scheduled(c, m) /\ m.topics = k.topics /\ m.sensors = k.sensors /\ m.jobs = k.jobs
                 /\ page' = page /\ moot' = moot /\ Uncancelled(d)
    <3>1. CASE ConnectCancelled(d)
      BY <2>1, <2>2, <2>6, <3>1 DEF ConnectCancelled
    <3>2. CASE GatherFails(d)
      <4>1. PICK n : n = IF d \in muted THEN k.notices ELSE k.notices + 1
        OBVIOUS
      <4>2. PICK m : m = [k EXCEPT !.notices = n]
        OBVIOUS
      <4>3. m.topics = k.topics /\ m.sensors = k.sensors /\ m.jobs = k.jobs
        BY <4>2 DEF Marking
      <4>4. Scheduled(c, m) /\ page' = page /\ moot' = moot /\ Uncancelled(d)
        BY <2>1, <2>2, <2>6, <3>2, <4>1, <4>2 DEF GatherFails
      <4>5. QED
        BY <4>3, <4>4
    <3>3. QED
      BY <1>6, <3>1, <3>2
  <2>9. Follows(c, m, routes, moot')
    BY <2>2, <2>5, <2>7, <2>8 DEF Follows
  <2>10. QED
    BY <1>1, <2>8, <2>9, UncancelledShows
<1>7. QED
  BY <1>3, <1>4, <1>5, <1>6

\* A sensor that is identified is marked; so is the import that it becomes, and an import of a sensor
\* that was registered is not.
LEMMA GatheredShows ==
  ASSUME ViewInv, HubInv', NEW d \in Sensors, Gathered(d)
  PROVE  ViewInv'
<1>1. HubInv /\ core \in Cores /\ marks \in Marking /\ moot \in BOOLEAN
  BY DEF ViewInv, HubInv, HubTyped
<1>2. PICK t \in SUBSET TopicNames : t = Topics(d)
  BY DEF Topics, Forgotten, TopicNames
<1>3. PICK m \in Marking : /\ m = Marked(t, {d}) /\ m.topics = marks.topics \cup t
                           /\ m.sensors = marks.sensors \cup {d} /\ m.jobs = marks.jobs
  <2>1. PICK ds \in SUBSET Sensors : ds = {d}
    OBVIOUS
  <2>2. QED
    BY <1>1, <2>1, MarkedOne
<1>4. PICK s \in SensorStates : s = core.sensor[d]
  BY <1>1, CoreParts
<1>5. PICK q \in [Sensors -> Nat] : q = core.pending
  BY <1>1, CoreParts
<1>6. PICK n \in Nat : n = IF s.reg THEN 0 ELSE IF q[d] > 0 THEN q[d] - 1 ELSE 0
  <2>1. q[d] \in Nat
    OBVIOUS
  <2>2. (IF q[d] > 0 THEN q[d] - 1 ELSE 0) \in Nat
    BY <2>1
  <2>3. QED
    BY <2>2
<1>7. PICK p \in [Sensors -> Nat] : p = [q EXCEPT ![d] = n]
  OBVIOUS
<1>8. PICK a : a = [core EXCEPT !.pending = p]
  OBVIOUS
<1>9. a = Matched(d)
  <2>1. CASE s.reg
    BY <1>4, <1>5, <1>6, <1>7, <1>8, <2>1 DEF Matched
  <2>2. CASE ~s.reg
    BY <1>4, <1>5, <1>6, <1>7, <1>8, <2>2 DEF Matched
  <2>3. QED
    BY <2>1, <2>2
<1>10. a \in Cores /\ a.pending = p /\ a.sites = core.sites /\ a.gathering = core.gathering /\ a.linking = core.linking
       /\ a.connecting = core.connecting /\ a.batch = core.batch /\ a.apply = core.apply /\ a.sensor = core.sensor
  BY <1>1, <1>8 DEF Cores
<1>11. PICK known \in BOOLEAN : known = (s.reg \/ q[d] > 0)
  OBVIOUS
<1>12. PICK z \in SensorStates : z = [Renewed(s) EXCEPT !.link = "up", !.reg = known, !.cached = known]
  <2>1. PICK y \in SensorStates : y = Renewed(s)
    <3>1. Renewed(s) \in SensorStates
      BY DEF Renewed, SensorStates
    <3>2. QED
      BY <3>1
  <2>2. PICK y1 : y1 = [y EXCEPT !.link = "up"]
    OBVIOUS
  <2>3. y1 \in SensorStates
    BY <2>2 DEF SensorStates
  <2>4. PICK y2 : y2 = [y1 EXCEPT !.reg = known]
    OBVIOUS
  <2>5. y2 \in SensorStates
    BY <2>3, <2>4 DEF SensorStates
  <2>6. PICK y3 : y3 = [y2 EXCEPT !.cached = known]
    OBVIOUS
  <2>7. y3 \in SensorStates
    BY <2>5, <2>6 DEF SensorStates
  <2>8. y3 = [y EXCEPT !.link = "up", !.reg = known, !.cached = known]
    BY <2>2, <2>4, <2>6
  <2>9. QED
    BY <2>1, <2>7, <2>8
<1>13. PICK u \in [Sensors -> SensorStates] : u = [a.sensor EXCEPT ![d] = z]
  BY <1>10, <1>1, CoreParts
<1>14. \A e \in Sensors \ {d} : u[e] = core.sensor[e]
  BY <1>1, <1>10, <1>13, CoreParts
<1>15. PICK x \in SUBSET Sensors : x = a.connecting \ {d}
  BY <1>1, <1>10, CoreParts
<1>16. PICK y \in SUBSET Sensors : y = a.linking \ {d}
  BY <1>1, <1>10, CoreParts
<1>17. PICK c1 : c1 = [a EXCEPT !.sensor = u]
  OBVIOUS
<1>18. c1 \in Cores /\ c1.sensor = u /\ c1.pending = p /\ c1.sites = core.sites /\ c1.gathering = core.gathering
       /\ c1.batch = core.batch /\ c1.apply = core.apply
  BY <1>10, <1>17 DEF Cores
<1>19. PICK c2 : c2 = [c1 EXCEPT !.connecting = x]
  OBVIOUS
<1>20. c2 \in Cores /\ c2.connecting = x /\ c2.sensor = u /\ c2.pending = p /\ c2.sites = core.sites
       /\ c2.gathering = core.gathering /\ c2.batch = core.batch /\ c2.apply = core.apply
  BY <1>18, <1>19 DEF Cores
<1>21. PICK c : c = [c2 EXCEPT !.linking = y]
  OBVIOUS
<1>22. c \in Cores /\ c.connecting = x /\ c.sensor = u /\ c.pending = p /\ c.sites = core.sites
       /\ c.gathering = core.gathering /\ c.batch = core.batch /\ c.apply = core.apply
  BY <1>20, <1>21 DEF Cores
<1>23. c = Found(d)
  <2>1. c = [a EXCEPT !.sensor = u, !.connecting = x, !.linking = y]
    BY <1>17, <1>19, <1>21
  <2>2. [a EXCEPT !.sensor = [a.sensor EXCEPT ![d] = z], !.connecting = a.connecting \ {d},
                  !.linking = a.linking \ {d}]
          = [a EXCEPT !.sensor[d] = z, !.connecting = @ \ {d}, !.linking = @ \ {d}]
    OBVIOUS
  <2>3. Found(d) = [a EXCEPT !.sensor[d] = z, !.connecting = @ \ {d}, !.linking = @ \ {d}]
    BY <1>4, <1>5, <1>9, <1>11, <1>12 DEF Found
  <2>4. QED
    BY <1>13, <1>15, <1>16, <2>1, <2>2, <2>3
<1>24. /\ Scheduled(c, m) /\ page' = page /\ Uncancelled(d)
       /\ moot' = (moot \/ (s.reg /\ q[d] > 0))
  BY <1>2, <1>3, <1>4, <1>5, <1>23 DEF Gathered
<1>25. moot' \in BOOLEAN /\ (moot => moot')
  BY <1>1, <1>24
<1>26. "pending" \in m.topics \/ moot' \/ c.pending = core.pending
  <2>1. CASE q[d] > 0 /\ s.reg
    BY <1>24, <2>1
  <2>2. CASE q[d] > 0 /\ ~s.reg
    BY <1>2, <1>3, <1>4, <1>5, <2>2 DEF Topics
  <2>3. CASE ~(q[d] > 0)
    <3>1. q[d] \in Nat
      OBVIOUS
    <3>2. q[d] = 0
      BY <2>3, <3>1
    <3>3. n = 0
      BY <1>6, <2>3
    <3>4. p = q
      BY <1>7, <3>2, <3>3
    <3>5. QED
      BY <1>5, <1>22, <3>4
  <2>4. QED
    BY <2>1, <2>2, <2>3
<1>27. "gather" \in m.topics \/ GatherStatus(c) = GatherStatus(core)
  <2>1. CASE d \in core.connecting
    BY <1>2, <1>3, <2>1 DEF Topics, Forgotten
  <2>2. CASE d \notin core.connecting
    BY <1>10, <1>15, <1>22, <2>2 DEF GatherStatus
  <2>3. QED
    BY <2>1, <2>2
<1>28. \A e \in Sensors \ m.sensors : c.sensor[e] = core.sensor[e]
  BY <1>3, <1>14, <1>22
<1>29. Follows(c, m, routes, moot')
  BY <1>3, <1>22, <1>25, <1>26, <1>27, <1>28 DEF Follows
<1>30. QED
  BY <1>24, <1>25, <1>29, UncancelledShows

\* The sensors whose links close are marked; what a release of everything does to the gather is
\* published when it ends.
LEMMA ReleaseShows ==
  ASSUME ViewInv, HubInv', NEW ds \in SUBSET Sensors, NEW all \in BOOLEAN, ReleaseBegins(ds, all)
  PROVE  ViewInv'
<1>1. HubInv /\ core \in Cores /\ marks \in Marking /\ moot \in BOOLEAN
  BY DEF ViewInv, HubInv, HubTyped
<1>2. routes = [release |-> routes.release, stop |-> routes.stop, cancel |-> routes.cancel]
  BY DEF ViewInv, HubInv, HubTyped
<1>3. PICK t \in SUBSET TopicNames : t = IF all /\ core.connecting # {} THEN {"gather"} ELSE {}
  BY DEF TopicNames
<1>4. PICK m \in Marking : /\ m = Marked(t, ds) /\ m.topics = marks.topics \cup t
                           /\ m.sensors = marks.sensors \cup ds /\ m.jobs = marks.jobs
  BY <1>1, MarkedOne
<1>5. PICK k \in Cores :
        /\ k = IF all THEN [core EXCEPT !.gathering = FALSE, !.connecting = {}, !.linking = {}] ELSE core
        /\ k.pending = core.pending /\ k.sites = core.sites /\ k.sensor = core.sensor /\ k.batch = core.batch
        /\ k.apply = core.apply
  <2>1. CASE ~all
    BY <1>1, <2>1
  <2>2. CASE all
    <3>1. PICK k1 : k1 = [core EXCEPT !.gathering = FALSE]
      OBVIOUS
    <3>2. k1 \in Cores /\ k1.pending = core.pending /\ k1.sites = core.sites /\ k1.sensor = core.sensor
          /\ k1.batch = core.batch /\ k1.apply = core.apply
      BY <1>1, <3>1 DEF Cores
    <3>3. PICK k2 : k2 = [k1 EXCEPT !.connecting = {}]
      OBVIOUS
    <3>4. k2 \in Cores /\ k2.pending = core.pending /\ k2.sites = core.sites /\ k2.sensor = core.sensor
          /\ k2.batch = core.batch /\ k2.apply = core.apply
      BY <3>2, <3>3 DEF Cores
    <3>5. PICK k3 : k3 = [k2 EXCEPT !.linking = {}]
      OBVIOUS
    <3>6. k3 \in Cores /\ k3.pending = core.pending /\ k3.sites = core.sites /\ k3.sensor = core.sensor
          /\ k3.batch = core.batch /\ k3.apply = core.apply
      BY <3>4, <3>5 DEF Cores
    <3>7. k3 = [core EXCEPT !.gathering = FALSE, !.connecting = {}, !.linking = {}]
      BY <3>1, <3>3, <3>5
    <3>8. QED
      BY <2>2, <3>6, <3>7
  <2>3. QED
    BY <2>1, <2>2
<1>6. PICK u : u = [d \in Sensors |-> IF d \in ds THEN [k.sensor[d] EXCEPT !.link = "lost"] ELSE k.sensor[d]]
  OBVIOUS
<1>7. \A d \in Sensors : u[d] \in SensorStates
  <2> SUFFICES ASSUME NEW d \in Sensors PROVE u[d] \in SensorStates
    OBVIOUS
  <2>1. PICK s \in SensorStates : s = k.sensor[d]
    BY CoreParts
  <2>2. [s EXCEPT !.link = "lost"] \in SensorStates
    BY DEF SensorStates
  <2>3. QED
    BY <1>6, <2>1, <2>2
<1>8. u \in [Sensors -> SensorStates] /\ \A d \in Sensors \ ds : u[d] = core.sensor[d]
  BY <1>5, <1>6, <1>7
<1>9. PICK c : c = [k EXCEPT !.sensor = u]
  OBVIOUS
<1>10. c \in Cores /\ c.sensor = u /\ c.pending = core.pending /\ c.sites = core.sites /\ c.batch = core.batch
       /\ c.apply = core.apply
  BY <1>5, <1>8, <1>9 DEF Cores
<1>11. Scheduled(c, m) /\ page' = page /\ moot' = moot
  BY <1>3, <1>4, <1>5, <1>6, <1>9 DEF ReleaseBegins
<1>12. routes'.release = ds /\ ds # {}
  BY <1>2 DEF ReleaseBegins
<1>13. Follows(c, m, routes', moot')
  BY <1>4, <1>8, <1>10, <1>11, <1>12 DEF Follows
<1>14. QED
  BY <1>1, <1>11, <1>13, ViewScheduled

\* What the awaiting routes were at work on is published when they end.
LEMMA RoutesEndShow ==
  ASSUME ViewInv, HubInv', StopEnds \/ ReleaseEnds
  PROVE  ViewInv'
<1>1. HubInv /\ core \in Cores /\ marks \in Marking /\ routes.release \subseteq Sensors
  BY DEF ViewInv, HubInv, HubTyped
<1>2. CASE StopEnds
  <2>1. PICK m \in Marking : /\ m = Marked({"gather"}, {}) /\ m.topics = marks.topics \cup {"gather"}
                             /\ m.sensors = marks.sensors /\ m.jobs = marks.jobs
    BY <1>1, MarkedOne DEF TopicNames
  <2>2. PICK x \in SUBSET Sensors : x = {}
    OBVIOUS
  <2>3. PICK c \in Cores : c = [core EXCEPT !.connecting = x] /\ c.sites = core.sites
              /\ c.pending = core.pending /\ c.sensor = core.sensor /\ c.batch = core.batch /\ c.apply = core.apply
    BY <1>1, WithPart
  <2>4. Published(c, m) /\ page' = page
    BY <1>2, <2>1, <2>2, <2>3 DEF StopEnds
  <2>5. Follows(c, m, routes', moot)
    BY <2>1, <2>3 DEF Follows
  <2>6. QED
    BY <2>4, <2>5, ViewPublished
<1>3. CASE ReleaseEnds
  <2>1. PICK m \in Marking : /\ m = Marked({"gather"}, routes.release) /\ m.topics = marks.topics \cup {"gather"}
                             /\ m.sensors = marks.sensors \cup routes.release /\ m.jobs = marks.jobs
    <3>1. PICK ds \in SUBSET Sensors : ds = routes.release
      BY <1>1
    <3>2. PICK t \in SUBSET TopicNames : t = {"gather"}
      BY DEF TopicNames
    <3>3. PICK m \in Marking : /\ m = Marked(t, ds) /\ m.topics = marks.topics \cup t
                               /\ m.sensors = marks.sensors \cup ds /\ m.jobs = marks.jobs
      BY <1>1, MarkedOne
    <3>4. QED
      BY <3>1, <3>2, <3>3
  <2>2. PICK u : u = [d \in Sensors |-> IF d \in routes.release
                                        THEN [core.sensor[d] EXCEPT !.link = "none", !.busy = FALSE]
                                        ELSE core.sensor[d]]
    OBVIOUS
  <2>3. \A d \in Sensors : u[d] \in SensorStates
    <3> SUFFICES ASSUME NEW d \in Sensors PROVE u[d] \in SensorStates
      OBVIOUS
    <3>1. PICK s \in SensorStates : s = core.sensor[d]
      BY <1>1, CoreParts
    <3>2. [s EXCEPT !.link = "none", !.busy = FALSE] \in SensorStates
      BY DEF SensorStates
    <3>3. QED
      BY <2>2, <3>1, <3>2
  <2>4. u \in [Sensors -> SensorStates] /\ \A d \in Sensors \ routes.release : u[d] = core.sensor[d]
    BY <2>2, <2>3
  <2>5. PICK c \in Cores : c = [core EXCEPT !.sensor = u]
              /\ c.sites = core.sites /\ c.pending = core.pending /\ GatherStatus(c) = GatherStatus(core)
              /\ c.sensor = u /\ c.batch = core.batch /\ c.apply = core.apply
    BY <1>1, <2>4, WithPart
  <2>6. c = Gone(routes.release)
    BY <2>2, <2>5 DEF Gone
  <2>7. Published(c, m) /\ page' = page
    BY <1>3, <2>1, <2>6 DEF ReleaseEnds
  <2>8. Follows(c, m, routes', moot)
    BY <2>1, <2>4, <2>5 DEF Follows
  <2>9. QED
    BY <2>7, <2>8, ViewPublished
<1>4. QED
  BY <1>2, <1>3

\* A new connection is sent all there is.
LEMMA ViewAnswers ==
  ASSUME ViewInv, HubInv', NEW p \in Pages, AddClient(p)
  PROVE  ViewInv'
<1>1. PICK S : client \in [Pages -> [conn : {"off", "open", "closing"}, queue : Seq([seq : Int, m : S])]]
  BY DEF ViewInv, HubInv, HubTyped
<1>2. core \in Cores
  BY DEF ViewInv
<1>3. PICK v : v = Snapshot(core)
  OBVIOUS
<1>4. PICK first : first = Message("snapshot", 0, v)
  OBVIOUS
<1>5. PICK q : q = <<[seq |-> seq, m |-> first]>>
  OBVIOUS
<1>6. /\ client' = [client EXCEPT ![p] = [conn |-> "open", queue |-> q]]
      /\ UNCHANGED <<core, page, marks, routes, scheduled, moot>>
  BY <1>3, <1>4, <1>5 DEF AddClient, HubIdle
<1>7. Bodies(q) = <<first>>
  <2>1. Len(q) = 1 /\ q[1].m = first
    BY <1>5
  <2>2. Bodies(q) = [n \in 1..1 |-> first]
    BY <2>1 DEF Bodies
  <2>3. QED
    BY <2>2
<1>8. Leads(page[p].view, Bodies(q), v)
  <2>1. PICK u : u = page[p].view
    OBVIOUS
  <2>2. Apply(u, first) = v
    BY <1>4, ApplyParts
  <2>3. Leads(u, <<first>>, Apply(u, first))
    BY LeadsOne
  <2>4. QED
    BY <1>7, <2>1, <2>2, <2>3
<1>9. Shows(v, core, marks, routes, moot)
  <2>1. /\ v.sites = core.sites /\ v.pending = core.pending /\ v.gather = GatherStatus(core)
        /\ v.batch = core.batch /\ v.apply = core.apply
        /\ \A d \in Sensors : v.sensor[d] = SensorView(core, d)
    BY <1>3 DEF Snapshot
  <2>2. v \in Views
    <3>1. PICK g \in Gathers : g = GatherStatus(core)
      BY <1>2, CoreParts
    <3>2. PICK u : u = [d \in Sensors |-> SensorView(core, d)]
      OBVIOUS
    <3>3. u \in [Sensors -> SensorStates]
      BY <1>2, <3>2, CoreParts
    <3>4. v = [sites |-> core.sites, pending |-> core.pending, gather |-> g, sensor |-> u,
               batch |-> core.batch, apply |-> core.apply]
      BY <1>3, <3>1, <3>2 DEF Snapshot
    <3>5. core.sites \in Nat /\ core.pending \in [Sensors -> Nat] /\ core.batch \in Batches /\ core.apply \in Nat
      BY <1>2, CoreParts
    <3>6. QED
      BY <3>3, <3>4, <3>5 DEF Views
  <2>3. QED
    BY <2>1, <2>2 DEF Shows
<1>10. ASSUME NEW r \in Pages, client'[r].conn = "open"
       PROVE  \E w : Leads(page'[r].view, Bodies(client'[r].queue), w) /\ Shows(w, core', marks', routes', moot')
  <2>1. CASE r = p
    <3>1. client'[r].queue = q
      BY <1>1, <1>6, <2>1
    <3>2. QED
      BY <1>6, <1>8, <1>9, <2>1, <3>1
  <2>2. CASE r # p
    <3>1. client'[r] = client[r]
      BY <1>1, <1>6, <2>2
    <3>2. QED
      BY <1>6, <1>10, <3>1 DEF ViewInv, QueueInv
  <2>3. QED
    BY <2>1, <2>2
<1>11. QueueInv'
  BY <1>10 DEF QueueInv
<1>12. MarkInv'
  BY <1>6 DEF ViewInv, MarkInv
<1>13. QED
  BY <1>6, <1>11, <1>12 DEF ViewInv

\* The page that reads a message is where the queue led to after it.
LEMMA ViewDelivers ==
  ASSUME ViewInv, HubInv', NEW p \in Pages, Deliver(p)
  PROVE  ViewInv'
<1>1. PICK S : client \in [Pages -> [conn : {"off", "open", "closing"}, queue : Seq([seq : Int, m : S])]]
  BY DEF ViewInv, HubInv, HubTyped
<1>2. PICK V : page \in [Pages -> [last : Int, view : V]]
  BY DEF ViewInv, HubInv, HubTyped
<1>3. PICK q \in Seq([seq : Int, m : S]) : q = client[p].queue
  BY <1>1
<1>4. client[p].conn = "open" /\ q # <<>> /\ GoesOn(q, page[p].last, seq)
  BY <1>3 DEF Deliver, ViewInv, HubInv, NoGap, GoesOn
<1>5. /\ Head(q) = q[1] /\ Tail(q) \in Seq([seq : Int, m : S]) /\ Len(q) \in Nat /\ Len(q) > 0
      /\ Len(Tail(q)) = Len(q) - 1 /\ \A n \in 1..Len(Tail(q)) : Tail(q)[n] = q[n + 1]
  BY <1>3, <1>4, HeadTailProperties
<1>6. PICK e : e = q[1]
  OBVIOUS
<1>7. e.m.kind = "snapshot" \/ e.seq = page[p].last + 1
  BY <1>4, <1>6 DEF GoesOn
<1>8. PICK v : v = Apply(page[p].view, e.m)
  OBVIOUS
<1>9. PICK t : t = Tail(q)
  OBVIOUS
<1>10. /\ page' = [page EXCEPT ![p] = [last |-> e.seq, view |-> v]]
       /\ client' = [client EXCEPT ![p].queue = t]
       /\ UNCHANGED <<core, marks, routes, scheduled, moot>>
  <2>1. Head(client[p].queue) = e /\ Tail(client[p].queue) = Tail(q)
    BY <1>3, <1>5, <1>6
  <2>2. /\ page' = [page EXCEPT ![p] = [last |-> e.seq, view |-> Apply(page[p].view, e.m)]]
        /\ client' = [client EXCEPT ![p].queue = Tail(client[p].queue)]
    BY <1>7, <2>1, Zenon DEF Deliver
  <2>3. UNCHANGED <<core, marks, routes, scheduled, moot>>
    BY DEF Deliver, HubIdle
  <2>4. QED
    BY <1>8, <1>9, <2>1, <2>2, <2>3
<1>11. client'[p].queue = t /\ page'[p].view = v
  BY <1>1, <1>2, <1>10
<1>12. PICK w : Leads(page[p].view, Bodies(q), w) /\ Shows(w, core, marks, routes, moot)
  BY <1>3, <1>4 DEF ViewInv, QueueInv
<1>13. Leads(v, Bodies(t), w)
  <2>1. PICK k \in Nat : k = Len(t)
    BY <1>5, <1>9
  <2>2. Len(q) = k + 1 /\ \A n \in 1..k : t[n] = q[n + 1]
    BY <1>5, <1>9, <2>1
  <2>3. PICK b : b = Bodies(q)
    OBVIOUS
  <2>4. b = [n \in 1..(k + 1) |-> q[n].m]
    BY <2>2, <2>3 DEF Bodies
  <2>5. IsList(b) /\ Len(b) = k + 1 /\ \A n \in 1..(k + 1) : b[n] = q[n].m
    <3>1. b = [n \in 1..(k + 1) |-> b[n]] /\ k + 1 \in Nat
      BY <2>4
    <3>2. IsList(b)
      BY <3>1, SmallLists
    <3>3. QED
      BY <2>4, <3>2
  <2>6. PICK T : b \in Seq(T)
    BY <2>5 DEF IsList
  <2>7. b # <<>> /\ b[1] = e.m
    <3>1. 1 \in 1..(k + 1)
      OBVIOUS
    <3>2. QED
      BY <1>6, <2>5, <3>1
  <2>8. PICK x : x = Tail(b)
    OBVIOUS
  <2>9. x \in Seq(T) /\ Len(x) = k /\ \A n \in 1..k : x[n] = b[n + 1]
    BY <2>5, <2>6, <2>7, <2>8, HeadTailProperties
  <2>10. \A n \in 1..k : x[n] = t[n].m
    <3> SUFFICES ASSUME NEW n \in 1..k PROVE x[n] = t[n].m
      OBVIOUS
    <3>1. n + 1 \in 1..(k + 1)
      OBVIOUS
    <3>2. QED
      BY <2>2, <2>5, <2>9, <3>1
  <2>11. x = [n \in 1..k |-> x[n]]
    BY <2>9
  <2>12. Bodies(t) = [n \in 1..k |-> t[n].m]
    BY <2>1 DEF Bodies
  <2>13. x = Bodies(t)
    BY <2>10, <2>11, <2>12
  <2>14. Leads(Apply(page[p].view, b[1]), Tail(b), w)
    BY <1>12, <2>3, <2>5, <2>7, LeadsRest
  <2>15. QED
    BY <1>8, <2>7, <2>8, <2>13, <2>14
<1>14. ASSUME NEW r \in Pages, client'[r].conn = "open"
       PROVE  \E x : Leads(page'[r].view, Bodies(client'[r].queue), x) /\ Shows(x, core', marks', routes', moot')
  <2>1. CASE r = p
    BY <1>10, <1>11, <1>12, <1>13, <2>1
  <2>2. CASE r # p
    <3>1. client'[r] = client[r] /\ page'[r] = page[r]
      BY <1>1, <1>2, <1>10, <2>2
    <3>2. QED
      BY <1>10, <1>14, <3>1 DEF ViewInv, QueueInv
  <2>3. QED
    BY <2>1, <2>2
<1>15. QueueInv'
  BY <1>14 DEF QueueInv
<1>16. MarkInv'
  BY <1>10 DEF ViewInv, MarkInv
<1>17. QED
  BY <1>10, <1>15, <1>16 DEF ViewInv

LEMMA ViewHangsUp ==
  ASSUME ViewInv, HubInv', NEW p \in Pages, Closed(p) \/ ConnectionLost(p)
  PROVE  ViewInv'
<1>1. PICK S : client \in [Pages -> [conn : {"off", "open", "closing"}, queue : Seq([seq : Int, m : S])]]
  BY DEF ViewInv, HubInv, HubTyped
<1>2. /\ client' = [client EXCEPT ![p] = [conn |-> "off", queue |-> <<>>]]
      /\ UNCHANGED <<core, page, marks, routes, scheduled, moot>>
  BY DEF Closed, ConnectionLost, HubIdle
<1>3. ASSUME NEW r \in Pages, client'[r].conn = "open" PROVE client'[r] = client[r]
  BY <1>1, <1>2, <1>3
<1>4. QueueInv'
  BY <1>2, <1>3 DEF ViewInv, QueueInv
<1>5. MarkInv'
  BY <1>2 DEF ViewInv, MarkInv
<1>6. QED
  BY <1>2, <1>4, <1>5 DEF ViewInv

LEMMA ViewStarts == HubInit => ViewInv
<1> SUFFICES ASSUME HubInit PROVE ViewInv
  OBVIOUS
<1>1. HubInv
  BY HubStarts
<1>2. core \in Cores
  <2>1. PICK none : none = [d \in Sensors |-> 0]
    OBVIOUS
  <2>2. none \in [Sensors -> Nat]
    BY <2>1
  <2>3. PICK b : b = NoBatch
    OBVIOUS
  <2>4. b \in Batches
    BY <2>1, <2>2, <2>3 DEF NoBatch, Batches
  <2>5. AtFirst \subseteq SensorStates
    <3>1. PICK s \in SensorStates : s = NoSensor
      BY DEF SensorStates, NoSensor
    <3>2. PICK s1 : s1 = [s EXCEPT !.reg = TRUE]
      OBVIOUS
    <3>3. s1 \in SensorStates
      BY <3>2 DEF SensorStates
    <3>4. PICK s2 : s2 = [s EXCEPT !.reg = TRUE, !.cached = TRUE, !.link = "up"]
      OBVIOUS
    <3>5. s2 \in SensorStates
      BY <3>4 DEF SensorStates
    <3>6. QED
      BY <3>1, <3>2, <3>3, <3>4, <3>5 DEF AtFirst
  <2>6. core \in [sites : {0}, pending : {none}, gathering : BOOLEAN, linking : {{}}, connecting : {{}},
                  batch : {b}, apply : {0}, sensor : [Sensors -> AtFirst]]
    BY <2>1, <2>3 DEF HubInit
  <2>7. core.sensor \in [Sensors -> SensorStates]
    BY <2>5, <2>6
  <2>8. QED
    BY <2>2, <2>4, <2>6, <2>7 DEF Cores
<1>3. moot \in BOOLEAN /\ MarkInv
  BY DEF HubInit, MarkInv, NoMarks
<1>4. QueueInv
  BY DEF HubInit, QueueInv
<1>5. QED
  BY <1>1, <1>2, <1>3, <1>4 DEF ViewInv

LEMMA ViewInvariance == HubSpec => []ViewInv
<1>1. ViewInv /\ [HubNext]_hubVars => ViewInv'
  <2> SUFFICES ASSUME ViewInv, [HubNext]_hubVars PROVE ViewInv'
    OBVIOUS
  <2>1. HubInv'
    BY HubStep DEF ViewInv
  <2>2. CASE UNCHANGED hubVars
    <3>1. UNCHANGED <<core, client, page, marks, routes, scheduled, moot>>
      BY <2>2 DEF hubVars
    <3>2. QueueInv' /\ MarkInv'
      BY <3>1 DEF ViewInv, QueueInv, MarkInv
    <3>3. QED
      BY <2>1, <3>1, <3>2 DEF ViewInv
  <2>3. ASSUME NEW p \in Pages, AddClient(p) \/ Deliver(p) \/ Closed(p) \/ ConnectionLost(p)
        PROVE  ViewInv'
    BY <2>1, <2>3, ViewAnswers, ViewDelivers, ViewHangsUp
  <2>4. ASSUME NEW d \in Sensors, \/ Connecting(d) \/ ConnectCancelled(d) \/ GatherFails(d) \/ Gathered(d) \/ LinkDown(d)
                                  \/ BusyChanges(d) \/ ConfigChanges(d) \/ JobChanges(d)
        PROVE  ViewInv'
    BY <2>1, <2>4, GatherShows, GatheredShows, ChangesShow
  <2>5. ASSUME NEW ds \in SUBSET Sensors, NEW all \in BOOLEAN, ReleaseBegins(ds, all) PROVE ViewInv'
    BY <2>1, <2>5, ReleaseShows
  <2>6. CASE StopBegins \/ NoticeAgain \/ ApplyChanges \/ \E new \in {"running", "ended"} : BatchChanges(new)
    BY <2>1, <2>6, GatherShows, ChangesShow
  <2>7. CASE StopEnds \/ ReleaseEnds
    BY <2>1, <2>7, RoutesEndShow
  <2>8. CASE ~UNCHANGED hubVars
    <3>1. HubNext
      BY <2>8
    <3>2. QED
      BY <2>1, <2>3, <2>4, <2>5, <2>6, <2>7, <3>1, PublishStepShows DEF HubNext
  <2>9. QED
    BY <2>2, <2>8
<1>2. QED
  BY <1>1, ViewStarts, PTL DEF HubSpec

\* A page with nothing more to come shows the server's state, however slow it was and however often
\* it began anew; but for pending imports, once some of a registered sensor's were dropped (the
\* marks and flush() of ws.py, apply() of reducer.ts).
THEOREM PageShowsServerAlways == HubSpec => []PageShowsServer
<1>1. ViewInv => PageShowsServer
  <2> SUFFICES ASSUME ViewInv, NEW p \in Pages, UpToDate(p)
               PROVE  LET now == Snapshot(core) IN
                      page[p].view = IF moot THEN [now EXCEPT !.pending = page[p].view.pending] ELSE now
    BY DEF PageShowsServer
  <2>1. client[p].conn = "open" /\ client[p].queue = <<>> /\ ~scheduled /\ routes = NoRoutes
    BY DEF UpToDate
  <2>2. routes.release = {} /\ ~routes.stop
    BY <2>1 DEF NoRoutes
  <2>3. marks.topics = {} /\ marks.sensors = {} /\ marks.jobs = {}
    BY <2>1 DEF ViewInv, MarkInv
  <2>4. PICK v : v = page[p].view
    OBVIOUS
  <2>5. PICK w : Leads(v, Bodies(<<>>), w) /\ Shows(w, core, marks, routes, moot)
    BY <2>1, <2>4 DEF ViewInv, QueueInv
  <2>6. w = v
    <3>1. Len(Bodies(<<>>)) = 0
      BY DEF Bodies
    <3>2. QED
      BY <2>5, <3>1 DEF Leads
  <2>7. PICK now : now = Snapshot(core)
    OBVIOUS
  <2>8. v \in Views /\ core \in Cores
    BY <2>5, <2>6 DEF Shows, ViewInv
  <2>9. v.sites = now.sites /\ v.gather = now.gather /\ v.apply = now.apply
    BY <2>2, <2>3, <2>5, <2>6, <2>7 DEF Shows, Snapshot
  <2>10. ~moot => v.pending = now.pending
    BY <2>3, <2>5, <2>6, <2>7 DEF Shows, Snapshot
  <2>11. v.sensor = now.sensor
    <3>1. \A d \in Sensors : v.sensor[d] = SensorView(core, d)
      BY <2>3, <2>5, <2>6 DEF Shows
    <3>2. PICK u \in [Sensors -> SensorStates] : u = v.sensor
      BY <2>8, ViewParts
    <3>3. u = [d \in Sensors |-> SensorView(core, d)]
      BY <3>1, <3>2
    <3>4. QED
      BY <2>7, <3>2, <3>3 DEF Snapshot
  <2>12. v.batch = now.batch
    <3>1. v.batch.id = core.batch.id /\ v.batch.state = core.batch.state
          /\ \A d \in Sensors : v.batch.job[d] = core.batch.job[d]
      BY <2>3, <2>5, <2>6 DEF Shows
    <3>2. PICK a \in Batches : a = v.batch
      BY <2>8, ViewParts
    <3>3. PICK b \in Batches : b = core.batch
      BY <2>8, CoreParts
    <3>4. a.job = b.job
      BY <3>1, <3>2, <3>3 DEF Batches
    <3>5. a = b
      BY <3>1, <3>2, <3>3, <3>4 DEF Batches
    <3>6. QED
      BY <2>7, <3>2, <3>3, <3>5 DEF Snapshot
  <2>13. now = With6(now.sites, now.pending, now.gather, now.sensor, now.batch, now.apply)
    BY <2>7 DEF Snapshot, With6
  <2>14. v = With6(now.sites, v.pending, now.gather, now.sensor, now.batch, now.apply)
    BY <2>8, <2>9, <2>11, <2>12, ViewParts
  <2>15. [now EXCEPT !.pending = v.pending]
           = With6(now.sites, v.pending, now.gather, now.sensor, now.batch, now.apply)
    BY <2>13 DEF With6
  <2>16. CASE moot
    BY <2>4, <2>7, <2>14, <2>15, <2>16
  <2>17. CASE ~moot
    BY <2>4, <2>7, <2>10, <2>13, <2>14, <2>17
  <2>18. QED
    BY <2>16, <2>17
<1>2. QED
  BY <1>1, ViewInvariance, PTL

-----------------------------------------------------------------------------
(* The live feed *)

FeedTypeOK ==
  /\ watchers \subseteq Watching /\ owed \subseteq watchers
  /\ held \in 0..MaxSessions /\ sess \in 0..MaxSessions
  /\ task \in [pc : {"none", "begin", "releasing", "acquiring"}, want : 0..MaxSessions]
  /\ again \in BOOLEAN /\ handle \in BOOLEAN /\ recent \in BOOLEAN
  /\ refs \in [Sessions -> Nat]
  /\ due \subseteq {"event", "refresh"} /\ radar \in Nat
  /\ slot \in [Watching -> Nat] /\ seen \in [Watching -> Nat]
  /\ made \in [sessions : 0..MaxSessions, frames : Nat]

\* What the task knows of the reference that is wanted: while nobody told it to go round again
\* and no call is to come, what it makes for is still wanted.
TaskKnows ==
  /\ task.pc = "none" /\ due = {} => held = WantedRef
  /\ task.pc = "releasing" => held = 0
  /\ task.pc = "acquiring" => held = task.want
  /\ task.pc \in {"releasing", "acquiring"} /\ ~again =>
       /\ due = {} => task.want = WantedRef
       /\ watchers = {} => task.want = 0

\* A slot holds the sensor's last frame, unless an emit is still to come.
SlotIsLast ==
  \A c \in Watching : slot[c] # 0 => /\ c \in watchers
                                     /\ ~handle /\ radar # 0 => slot[c] = radar

RefsCount == \A s \in Sessions : refs[s] = IF s = held THEN 1 ELSE 0

FeedInv == FeedTypeOK /\ TaskKnows /\ RefsCount /\ SlotIsLast /\ LastFrameShown

LEMMA FeedStarts == FeedInit => FeedInv
<1> SUFFICES ASSUME FeedInit PROVE FeedInv
  OBVIOUS
<1> USE FeedAssumption DEF FeedInit
<1>1. FeedTypeOK
  <2>1. /\ 0 \in 0..MaxSessions
        /\ NoTask \in [pc : {"none", "begin", "releasing", "acquiring"}, want : 0..MaxSessions]
        /\ [sessions |-> 0, frames |-> 0] \in [sessions : 0..MaxSessions, frames : Nat]
    BY DEF NoTask
  <2>2. held \in 0..MaxSessions /\ sess \in 0..MaxSessions /\ task = NoTask
        /\ made = [sessions |-> 0, frames |-> 0]
    BY <2>1
  <2>3. QED
    BY <2>1, <2>2 DEF FeedTypeOK
<1>2. TaskKnows
  BY DEF TaskKnows, NoTask, WantedRef
<1>3. RefsCount /\ SlotIsLast /\ LastFrameShown
  BY DEF RefsCount, SlotIsLast, LastFrameShown, Sessions
<1>4. QED
  BY <1>1, <1>2, <1>3 DEF FeedInv

\* Asking for a reconcile makes every claim of the task void.
LEMMA ReconcileAsks ==
  ASSUME FeedTypeOK, TaskKnows, Reconcile
  PROVE  /\ task' \in [pc : {"none", "begin", "releasing", "acquiring"}, want : 0..MaxSessions]
         /\ again' \in BOOLEAN /\ held' = held /\ refs' = refs
         /\ task'.pc # "none" /\ (task'.pc \in {"releasing", "acquiring"} => again')
         /\ task'.pc = "releasing" => held' = 0
         /\ task'.pc = "acquiring" => held' = task'.want
<1>1. task \in [pc : {"none", "begin", "releasing", "acquiring"}, want : 0..MaxSessions] /\ again \in BOOLEAN
  BY DEF FeedTypeOK
<1>2. CASE task.pc = "none"
  <2>1. task' = [pc |-> "begin", want |-> 0] /\ again' = again /\ held' = held /\ refs' = refs
    BY <1>1, <1>2 DEF Reconcile
  <2>2. QED
    BY <1>1, <2>1, FeedAssumption
<1>3. CASE task.pc # "none"
  <2>1. task' = task /\ again' = TRUE /\ held' = held /\ refs' = refs
    BY <1>1, <1>3 DEF Reconcile
  <2>2. QED
    BY <1>1, <1>3, <2>1 DEF TaskKnows
<1>4. QED
  BY <1>2, <1>3

\* What is true of a reconcile only where it matters.
LEMMA Concerned ==
  ASSUME FeedTypeOK, TaskKnows, ReconcileIfConcerned, watchers' = watchers, sess' = sess
  PROVE  /\ task' \in [pc : {"none", "begin", "releasing", "acquiring"}, want : 0..MaxSessions]
         /\ again' \in BOOLEAN /\ held' = held /\ refs' = refs
         /\ TaskKnows'
<1>1. CASE watchers # {} \/ held # 0
  <2>1. Reconcile
    BY <1>1 DEF ReconcileIfConcerned
  <2>2. QED
    BY <2>1, ReconcileAsks DEF TaskKnows
<1>2. CASE watchers = {} /\ held = 0
  <2>1. task' = task /\ again' = again /\ held' = held /\ refs' = refs
    BY <1>1, <1>2 DEF ReconcileIfConcerned, reference
  <2>2. WantedRef = 0 /\ WantedRef' = 0
    BY <1>2 DEF WantedRef
  <2>3. TaskKnows'
    BY <1>2, <2>1, <2>2 DEF TaskKnows
  <2>4. QED
    BY <2>1, <2>3 DEF FeedTypeOK
<1>3. QED
  BY <1>1, <1>2

\* Who watches, and the session, change.
LEMMA FeedAsked ==
  ASSUME FeedInv,
         \/ \E c \in Watching : Subscribe(c) \/ Unsubscribe(c)
         \/ NewSession \/ Relinked \/ Closing \/ Removed
         \/ \E call \in {"event", "refresh"} : Told(call)
  PROVE  FeedInv'
<1> USE DEF FeedInv
<1>1. ASSUME NEW c \in Watching, Subscribe(c) PROVE FeedInv'
  <2>1. /\ watchers' = watchers \cup {c} /\ c \notin watchers
        /\ UNCHANGED <<sess, due, radar, handle, recent, slot, seen, owed, made>>
    BY <1>1 DEF Subscribe, session, frames
  <2>2. /\ task' \in [pc : {"none", "begin", "releasing", "acquiring"}, want : 0..MaxSessions]
        /\ again' \in BOOLEAN /\ held' = held /\ refs' = refs
        /\ TaskKnows'
    BY <1>1, ReconcileAsks DEF Subscribe, TaskKnows
  <2>3. FeedTypeOK'
    BY <2>1, <2>2 DEF FeedTypeOK
  <2>4. RefsCount' /\ SlotIsLast' /\ LastFrameShown'
    BY <2>1, <2>2 DEF RefsCount, SlotIsLast, LastFrameShown
  <2>5. QED
    BY <2>2, <2>3, <2>4
<1>2. ASSUME NEW c \in Watching, Unsubscribe(c) PROVE FeedInv'
  <2>1. /\ watchers' = watchers \ {c} /\ owed' = owed \ {c} /\ slot' = [slot EXCEPT ![c] = 0]
        /\ UNCHANGED <<sess, due, radar, handle, recent, seen, made>>
    BY <1>2 DEF Unsubscribe, session
  <2>2. /\ task' \in [pc : {"none", "begin", "releasing", "acquiring"}, want : 0..MaxSessions]
        /\ again' \in BOOLEAN /\ held' = held /\ refs' = refs
        /\ TaskKnows'
    BY <1>2, ReconcileAsks DEF Unsubscribe, TaskKnows
  <2>3. FeedTypeOK'
    BY <2>1, <2>2 DEF FeedTypeOK
  <2>4. slot'[c] = 0 /\ \A d \in Watching \ {c} : slot'[d] = slot[d]
    BY <2>1 DEF FeedTypeOK
  <2>5. RefsCount' /\ SlotIsLast' /\ LastFrameShown'
    BY <2>1, <2>2, <2>4 DEF FeedTypeOK, RefsCount, SlotIsLast, LastFrameShown
  <2>6. QED
    BY <2>2, <2>3, <2>5
<1>3. CASE NewSession
  <2>1. /\ sess' = made.sessions + 1 /\ radar' = 0 /\ due' = due \cup {"event"}
        /\ made' = [made EXCEPT !.sessions = made.sessions + 1] /\ made.sessions < MaxSessions
        /\ UNCHANGED <<watchers, held, task, again, refs, handle, recent, slot, seen, owed>>
    BY <1>3 DEF NewSession, reference, frames
  <2>2. made' \in [sessions : 0..MaxSessions, frames : Nat] /\ sess' \in 0..MaxSessions
    BY <2>1, FeedAssumption DEF FeedTypeOK
  <2>3. FeedTypeOK'
    BY <2>1, <2>2 DEF FeedTypeOK
  <2>4. TaskKnows'
    BY <2>1 DEF TaskKnows
  <2>5. RefsCount' /\ SlotIsLast' /\ LastFrameShown'
    BY <2>1 DEF RefsCount, SlotIsLast, LastFrameShown
  <2>6. QED
    BY <2>3, <2>4, <2>5
<1>4. CASE Relinked \/ Closing
  <2>1. /\ ReconcileIfConcerned /\ watchers' = watchers /\ sess' = sess /\ radar' \in {0, radar}
        /\ UNCHANGED <<due, handle, recent, slot, seen, owed, made>>
    BY <1>4 DEF Relinked, Closing, frames, session
  <2>2. /\ task' \in [pc : {"none", "begin", "releasing", "acquiring"}, want : 0..MaxSessions]
        /\ again' \in BOOLEAN /\ held' = held /\ refs' = refs /\ TaskKnows'
    BY <2>1, Concerned
  <2>3. FeedTypeOK'
    BY <2>1, <2>2 DEF FeedTypeOK
  <2>4. RefsCount' /\ SlotIsLast' /\ LastFrameShown'
    BY <2>1, <2>2 DEF RefsCount, SlotIsLast, LastFrameShown
  <2>5. QED
    BY <2>2, <2>3, <2>4
<1>5. CASE Removed
  <2>1. /\ sess' = 0 /\ radar' = 0 /\ due' = due \cup {"refresh"}
        /\ UNCHANGED <<watchers, held, task, again, refs, handle, recent, slot, seen, owed, made>>
    BY <1>5 DEF Removed, reference, frames
  <2>2. FeedTypeOK'
    BY <2>1, FeedAssumption DEF FeedTypeOK
  <2>3. TaskKnows' /\ RefsCount' /\ SlotIsLast' /\ LastFrameShown'
    BY <2>1 DEF TaskKnows, RefsCount, SlotIsLast, LastFrameShown
  <2>4. QED
    BY <2>2, <2>3
<1>6. ASSUME NEW call \in {"event", "refresh"}, Told(call) PROVE FeedInv'
  <2>1. /\ ReconcileIfConcerned /\ watchers' = watchers /\ sess' = sess /\ due' = due \ {call}
        /\ UNCHANGED <<radar, handle, recent, slot, seen, owed, made>>
    BY <1>6 DEF Told, frames
  <2>2. /\ task' \in [pc : {"none", "begin", "releasing", "acquiring"}, want : 0..MaxSessions]
        /\ again' \in BOOLEAN /\ held' = held /\ refs' = refs /\ TaskKnows'
    BY <2>1, Concerned
  <2>3. FeedTypeOK'
    BY <2>1, <2>2 DEF FeedTypeOK
  <2>4. RefsCount' /\ SlotIsLast' /\ LastFrameShown'
    BY <2>1, <2>2 DEF RefsCount, SlotIsLast, LastFrameShown
  <2>5. QED
    BY <2>2, <2>3, <2>4
<1>7. QED
  BY <1>1, <1>2, <1>3, <1>4, <1>5, <1>6

\* The reconcile task.
LEMMA FeedTask ==
  ASSUME FeedInv, Task
  PROVE  FeedInv'
<1> USE DEF FeedInv
<1>1. UNCHANGED <<watchers, sess, due, radar, handle, recent, slot, seen, owed, made>>
  BY DEF Task, TaskBegins, LetGo, Acquired, session, frames
<1>2. SlotIsLast' /\ LastFrameShown' /\ WantedRef' = WantedRef
  BY <1>1 DEF SlotIsLast, LastFrameShown, WantedRef
<1>3. WantedRef \in 0..MaxSessions
  BY FeedAssumption DEF WantedRef, FeedTypeOK
<1>4. ASSUME NEW s \in 0..MaxSessions, Take(s) PROVE held' = s /\ refs' \in [Sessions -> Nat] /\ RefsCount'
  <2>1. held' = s /\ DOMAIN refs' = Sessions /\ refs' = [r \in Sessions |-> refs'[r]]
    BY <1>4 DEF Take
  <2>2. ASSUME NEW r \in Sessions PROVE refs'[r] = IF r = s THEN 1 ELSE 0
    <3>1. refs'[r] = refs[r] + (IF r = s THEN 1 ELSE 0) - (IF r = held THEN 1 ELSE 0)
      BY <1>4 DEF Take
    <3>2. refs[r] = IF r = held THEN 1 ELSE 0
      BY DEF RefsCount
    <3>3. QED
      BY <3>1, <3>2
  <2>3. QED
    BY <2>1, <2>2 DEF RefsCount
<1>5. ASSUME GoRound PROVE /\ task' \in [pc : {"none", "begin", "releasing", "acquiring"}, want : 0..MaxSessions]
                           /\ task'.pc = IF again THEN "begin" ELSE "none"
  BY <1>5, FeedAssumption DEF GoRound, NoTask
<1>6. CASE TaskBegins /\ held = WantedRef
  <2>1. task' = NoTask /\ again' = FALSE /\ held' = held /\ refs' = refs
    BY <1>6 DEF TaskBegins
  <2>2. task' \in [pc : {"none", "begin", "releasing", "acquiring"}, want : 0..MaxSessions] /\ task'.pc = "none"
    BY <2>1, FeedAssumption DEF NoTask
  <2>3. FeedTypeOK' /\ RefsCount'
    BY <1>1, <2>1, <2>2 DEF FeedTypeOK, RefsCount
  <2>4. TaskKnows'
    BY <1>2, <1>6, <2>1, <2>2 DEF TaskKnows
  <2>5. QED
    BY <1>2, <2>3, <2>4
<1>7. CASE TaskBegins /\ held # WantedRef
  <2>1. PICK next \in {"releasing", "acquiring"} : next = IF held # 0 THEN "releasing" ELSE "acquiring"
    OBVIOUS
  <2>2. task' = [pc |-> next, want |-> WantedRef] /\ again' = FALSE /\ Take(IF held # 0 THEN 0 ELSE WantedRef)
    BY <1>7, <2>1 DEF TaskBegins
  <2>3. /\ task' \in [pc : {"none", "begin", "releasing", "acquiring"}, want : 0..MaxSessions]
        /\ task'.pc = next /\ task'.want = WantedRef
    BY <1>3, <2>2
  <2>4. held' = (IF held # 0 THEN 0 ELSE WantedRef) /\ refs' \in [Sessions -> Nat] /\ RefsCount'
    <3>1. (IF held # 0 THEN 0 ELSE WantedRef) \in 0..MaxSessions
      BY <1>3, FeedAssumption
    <3>2. QED
      BY <1>4, <2>2, <3>1
  <2>5. FeedTypeOK'
    <3>1. held' \in 0..MaxSessions
      BY <1>3, <2>4, FeedAssumption
    <3>2. again' \in BOOLEAN
      BY <2>2
    <3>3. QED
      BY <1>1, <2>3, <2>4, <3>1, <3>2 DEF FeedTypeOK
  <2>6. watchers = {} => WantedRef = 0
    BY DEF WantedRef
  <2>7. TaskKnows'
    BY <1>1, <1>2, <2>1, <2>2, <2>3, <2>4, <2>6 DEF TaskKnows
  <2>8. QED
    BY <1>2, <2>4, <2>5, <2>7
<1>8. CASE LetGo /\ task.want # 0
  <2>1. task' = [task EXCEPT !.pc = "acquiring"] /\ Take(task.want) /\ again' = again /\ task.pc = "releasing"
    BY <1>8 DEF LetGo
  <2>2. /\ task' \in [pc : {"none", "begin", "releasing", "acquiring"}, want : 0..MaxSessions]
        /\ task'.pc = "acquiring" /\ task'.want = task.want /\ task.want \in 0..MaxSessions
    BY <2>1 DEF FeedTypeOK
  <2>3. held' = task.want /\ refs' \in [Sessions -> Nat] /\ RefsCount'
    BY <1>4, <2>1, <2>2
  <2>4. FeedTypeOK'
    BY <1>1, <2>1, <2>2, <2>3 DEF FeedTypeOK
  <2>5. TaskKnows'
    BY <1>1, <1>2, <2>1, <2>2, <2>3 DEF TaskKnows
  <2>6. QED
    BY <1>2, <2>3, <2>4, <2>5
<1>9. CASE (LetGo /\ task.want = 0) \/ Acquired
  <2>1. GoRound /\ held' = held /\ refs' = refs /\ again' = again /\ task.pc \in {"releasing", "acquiring"}
    BY <1>9 DEF LetGo, Acquired
  <2>2. held = task.want
    BY <1>9, <2>1 DEF LetGo, Acquired, TaskKnows
  <2>3. FeedTypeOK' /\ RefsCount'
    BY <1>1, <1>5, <2>1 DEF FeedTypeOK, RefsCount
  <2>4. TaskKnows'
    BY <1>1, <1>2, <1>5, <2>1, <2>2 DEF TaskKnows
  <2>5. QED
    BY <1>2, <2>3, <2>4
<1>10. QED
  BY <1>6, <1>7, <1>8, <1>9 DEF Task

\* The frames.
LEMMA FeedFrames ==
  ASSUME FeedInv, RadarPush \/ Emit \/ IntervalPasses \/ \E c \in Watching : Send(c)
  PROVE  FeedInv'
<1> USE DEF FeedInv
<1>1. /\ UNCHANGED <<watchers, sess, due, held, task, again, refs>>
      /\ radar' # radar => RadarPush
  BY DEF RadarPush, Emit, IntervalPasses, Send, session, reference
<1>2. TaskKnows' /\ RefsCount'
  BY <1>1 DEF TaskKnows, RefsCount, WantedRef
<1>3. CASE RadarPush
  <2>1. /\ made' = [made EXCEPT !.frames = made.frames + 1] /\ radar' = made.frames + 1
        /\ handle' = (handle \/ watchers # {}) /\ owed' = owed \cup watchers
        /\ UNCHANGED <<recent, slot, seen>>
    BY <1>3 DEF RadarPush
  <2>2. made' \in [sessions : 0..MaxSessions, frames : Nat] /\ radar' \in Nat
    BY <2>1 DEF FeedTypeOK
  <2>3. FeedTypeOK'
    BY <1>1, <2>1, <2>2 DEF FeedTypeOK
  <2>4. SlotIsLast' /\ LastFrameShown'
    BY <1>1, <2>1 DEF FeedTypeOK, SlotIsLast, LastFrameShown
  <2>5. QED
    BY <1>2, <2>3, <2>4
<1>4. CASE Emit
  <2>1. /\ handle' = FALSE /\ recent' = TRUE
        /\ slot' = [c \in Watching |-> IF c \in watchers /\ radar # 0 THEN radar ELSE slot[c]]
        /\ UNCHANGED <<radar, seen, owed, made>>
    BY <1>4 DEF Emit, session
  <2>2. \A c \in Watching : slot'[c] = IF c \in watchers /\ radar # 0 THEN radar ELSE slot[c]
    BY <2>1
  <2>3. slot' \in [Watching -> Nat]
    BY <2>1 DEF FeedTypeOK
  <2>4. FeedTypeOK'
    BY <1>1, <2>1, <2>3 DEF FeedTypeOK
  <2>5. SlotIsLast' /\ LastFrameShown'
    BY <1>1, <2>1, <2>2 DEF FeedTypeOK, SlotIsLast, LastFrameShown
  <2>6. QED
    BY <1>2, <2>4, <2>5
<1>5. CASE IntervalPasses
  <2>1. recent' = FALSE /\ UNCHANGED <<radar, handle, slot, seen, owed, made>>
    BY <1>5 DEF IntervalPasses, session
  <2>2. QED
    BY <1>1, <1>2, <2>1 DEF FeedTypeOK, SlotIsLast, LastFrameShown
<1>6. ASSUME NEW c \in Watching, Send(c) PROVE FeedInv'
  <2>1. /\ slot[c] # 0 /\ seen' = [seen EXCEPT ![c] = slot[c]] /\ slot' = [slot EXCEPT ![c] = 0]
        /\ UNCHANGED <<radar, handle, recent, owed, made>>
    BY <1>6 DEF Send, session
  <2>2. FeedTypeOK'
    BY <1>1, <2>1 DEF FeedTypeOK
  <2>3. /\ seen'[c] = slot[c] /\ slot'[c] = 0
        /\ \A d \in Watching \ {c} : seen'[d] = seen[d] /\ slot'[d] = slot[d]
    BY <2>1 DEF FeedTypeOK
  <2>4. SlotIsLast' /\ LastFrameShown'
    BY <1>1, <2>1, <2>3 DEF FeedTypeOK, SlotIsLast, LastFrameShown
  <2>5. QED
    BY <1>2, <2>2, <2>4
<1>7. QED
  BY <1>3, <1>4, <1>5, <1>6

LEMMA FeedInvariance == FeedSpec => []FeedInv
<1>1. FeedInv /\ [FeedNext]_feedVars => FeedInv'
  <2> SUFFICES ASSUME FeedInv, [FeedNext]_feedVars PROVE FeedInv'
    OBVIOUS
  <2>1. CASE UNCHANGED feedVars
    <3>1. UNCHANGED <<watchers, sess, due, radar, held, task, again, refs, handle, recent, slot, seen, owed, made>>
      BY <2>1 DEF feedVars, session, reference, frames
    <3>2. FeedTypeOK' /\ TaskKnows'
      BY <3>1 DEF FeedInv, FeedTypeOK, TaskKnows, WantedRef
    <3>3. RefsCount' /\ SlotIsLast' /\ LastFrameShown'
      BY <3>1 DEF FeedInv, RefsCount, SlotIsLast, LastFrameShown
    <3>4. QED
      BY <3>2, <3>3 DEF FeedInv
  <2>2. QED
    BY <2>1, FeedAsked, FeedTask, FeedFrames DEF FeedNext
<1>2. QED
  BY <1>1, FeedStarts, PTL DEF FeedSpec

\* One reference on the session of a watched sensor, whoever comes and goes and however often
\* the sensor is gathered again while the reconcile task waits.
THEOREM OneReferenceAlways == FeedSpec => []OneReference
<1>1. FeedInv => OneReference
  BY DEF FeedInv, RefsCount, TaskKnows, OneReference
<1>2. QED
  BY <1>1, FeedInvariance, PTL

\* The frame a burst ends with reaches every watcher, for any number of clients and frames.
THEOREM LastFrameShownAlways == FeedSpec => []LastFrameShown
<1>1. FeedInv => LastFrameShown
  BY DEF FeedInv
<1>2. QED
  BY <1>1, FeedInvariance, PTL

-----------------------------------------------------------------------------
(* The browser peer *)

LEMMA TailAt ==
  ASSUME NEW S, NEW s \in Seq(S), s # <<>>
  PROVE  /\ Tail(s) \in Seq(S) /\ Head(s) = s[1] /\ 1 \in 1..Len(s) /\ Len(Tail(s)) = Len(s) - 1
         /\ \A a \in 1..Len(Tail(s)) : a + 1 \in 1..Len(s) /\ a + 1 # 1 /\ Tail(s)[a] = s[a + 1]
  OBVIOUS

LEMMA AppendAt ==
  ASSUME NEW S, NEW s \in Seq(S), NEW e \in S
  PROVE  /\ Append(s, e) \in Seq(S) /\ Len(Append(s, e)) = Len(s) + 1
         /\ \A a \in 1..Len(Append(s, e)) : /\ a # Len(s) + 1 => a \in 1..Len(s) /\ Append(s, e)[a] = s[a]
                                            /\ a = Len(s) + 1 => Append(s, e)[a] = e
  OBVIOUS

Places == {"sending", "waiting", "failing", "ended"}

\* The ids that an answer of the browser may have.
Expected == pending \cup retired

\* The answers that the server has yet to read.
Answers == {a \in 1..Len(toServer) : toServer[a].type = "result"}

PeerTyped ==
  /\ Len(op) \in Nat /\ pc \in Seq(Places) /\ Len(pc) = Len(op)
  /\ toBrowser \in Seq(Nat) /\ \E M : toServer \in Seq(M)

\* A request is in one place at one time: not sent yet, on its way to the browser, or answered.
OnePlace ==
  /\ \A a \in 1..Len(toBrowser) : toBrowser[a] \in Ids /\ pc[toBrowser[a]] # "sending"
  /\ \A a, b \in 1..Len(toBrowser) : toBrowser[a] = toBrowser[b] => a = b
  /\ \A a \in Answers :
       /\ toServer[a].id \in Ids /\ pc[toServer[a].id] # "sending"
       /\ \A b \in 1..Len(toBrowser) : toBrowser[b] # toServer[a].id
  /\ \A a, b \in Answers : toServer[a].id = toServer[b].id => a = b

\* And wherever it is, its answer is expected.
AllExpected ==
  /\ \A i \in Ids : pc[i] = "sending" => i \in Expected
  /\ \A a \in 1..Len(toBrowser) : toBrowser[a] \in Expected
  /\ \A a \in Answers : toServer[a].id \in Expected

PeerInv == peer # "refused" /\ (Open => PeerTyped /\ OnePlace /\ AllExpected)

LEMMA PeerStarts == PeerInit => PeerInv
<1> SUFFICES ASSUME PeerInit PROVE PeerInv
  OBVIOUS
<1>1. op = <<>> /\ pc = <<>> /\ toBrowser = <<>> /\ toServer = <<>> /\ peer = "open"
  BY DEF PeerInit
<1>2. PeerTyped
  BY <1>1 DEF PeerTyped
<1>3. OnePlace /\ AllExpected
  BY <1>1 DEF OnePlace, AllExpected, Ids, Answers
<1>4. QED
  BY <1>1, <1>2, <1>3 DEF PeerInv

\* A new request: its id is no other's.
LEMMA PeerAsks ==
  ASSUME PeerInv, NEW k, NEW o, Rpc(k, o)
  PROVE  PeerInv'
<1>1. Open /\ PeerTyped /\ OnePlace /\ AllExpected /\ peer' = peer
  BY DEF PeerInv, Rpc
<1>2. /\ Len(op') = Len(op) + 1 /\ pc' = Append(pc, "sending")
      /\ pending' = pending \cup {Len(op) + 1}
      /\ UNCHANGED <<retired, toBrowser, toServer>>
  BY <1>1 DEF Rpc, PeerTyped
<1>3. /\ pc' \in Seq(Places) /\ Len(pc') = Len(op')
      /\ pc'[Len(op) + 1] = "sending"
      /\ \A i \in Ids : i \in Ids' /\ pc'[i] = pc[i]
      /\ \A i \in Ids' : i \in Ids \/ i = Len(op) + 1
  BY <1>1, <1>2, AppendAt DEF PeerTyped, Places, Ids
<1>4. Expected' = Expected \cup {Len(op) + 1}
  BY <1>2 DEF Expected
<1>5. PeerTyped'
  BY <1>1, <1>2, <1>3 DEF PeerTyped
<1>6. OnePlace'
  <2>1. toBrowser' = toBrowser /\ toServer' = toServer /\ Answers' = Answers
    BY <1>2 DEF Answers
  <2>2. \A i \in Ids : pc[i] # "sending" => i \in Ids' /\ pc'[i] # "sending"
    BY <1>3
  <2>3. QED
    BY <1>1, <2>1, <2>2 DEF OnePlace
<1>7. AllExpected'
  BY <1>1, <1>2, <1>3, <1>4 DEF AllExpected, Answers
<1>8. QED
  BY <1>1, <1>5, <1>6, <1>7 DEF PeerInv, Open

\* A call's task goes on: what was given up is still expected.
LEMMA PeerCalls ==
  ASSUME PeerInv, NEW i \in Ids, GivesUp(i) \/ Succeeds(i) \/ Fails(i)
  PROVE  PeerInv'
<1>1. UNCHANGED <<peer, op, toBrowser, toServer>> /\ Expected' = Expected
  BY DEF GivesUp, Succeeds, Fails, LinkLost, Expected
<1>2. CASE ~Open
  BY <1>1, <1>2 DEF PeerInv, Open
<1>3. CASE Open
  <2>1. PeerTyped /\ OnePlace /\ AllExpected
    BY <1>3 DEF PeerInv
  <2>2. PICK to \in {"failing", "ended"} : pc' = [pc EXCEPT ![i] = to]
    BY DEF GivesUp, Succeeds, Fails
  <2>3. pc' \in Seq(Places) /\ Len(pc') = Len(pc)
    BY <2>1, <2>2 DEF PeerTyped, Places, Ids
  <2>4. pc'[i] # "sending" /\ \A j \in Ids \ {i} : pc'[j] = pc[j]
    BY <2>1, <2>2 DEF PeerTyped, Ids
  <2>5. Ids' = Ids
    BY <1>1 DEF Ids
  <2>6. PeerTyped'
    BY <1>1, <2>1, <2>3 DEF PeerTyped
  <2>7. OnePlace' /\ AllExpected'
    BY <1>1, <2>1, <2>4, <2>5 DEF OnePlace, AllExpected, Answers
  <2>8. QED
    BY <1>1, <2>1, <2>6, <2>7 DEF PeerInv
<1>4. QED
  BY <1>2, <1>3

LEMMA PeerSends ==
  ASSUME PeerInv, NEW i \in Ids, Sent(i)
  PROVE  PeerInv'
<1>1. Open /\ PeerTyped /\ OnePlace /\ AllExpected
  BY DEF PeerInv, Sent
<1>2. /\ pc[i] = "sending" /\ pc' = [pc EXCEPT ![i] = "waiting"] /\ toBrowser' = Append(toBrowser, i)
      /\ UNCHANGED <<peer, op, pending, retired, toServer>>
  BY DEF Sent
<1>3. i \in Nat /\ Ids' = Ids /\ Expected' = Expected
  BY <1>1, <1>2 DEF PeerTyped, Ids, Expected
<1>4. /\ pc' \in Seq(Places) /\ Len(pc') = Len(pc)
      /\ pc'[i] # "sending" /\ \A j \in Ids \ {i} : pc'[j] = pc[j]
  BY <1>1, <1>2 DEF PeerTyped, Places, Ids
<1>5. /\ toBrowser' \in Seq(Nat)
      /\ \A a \in 1..Len(toBrowser') : \/ a \in 1..Len(toBrowser) /\ toBrowser'[a] = toBrowser[a]
                                       \/ a = Len(toBrowser) + 1 /\ toBrowser'[a] = i
  BY <1>1, <1>2, <1>3, AppendAt DEF PeerTyped
<1>6. \A a \in 1..Len(toBrowser) : toBrowser[a] # i
  BY <1>1, <1>2 DEF OnePlace, Answers
<1>7. \A a \in Answers : toServer[a].id # i
  BY <1>1, <1>2 DEF OnePlace, Answers
<1>8. PeerTyped'
  BY <1>1, <1>2, <1>4, <1>5 DEF PeerTyped
<1>9. OnePlace'
  <2>1. \A a \in 1..Len(toBrowser') : toBrowser'[a] \in Ids' /\ pc'[toBrowser'[a]] # "sending"
    BY <1>1, <1>3, <1>4, <1>5 DEF OnePlace, Answers
  <2>2. \A a, b \in 1..Len(toBrowser') : toBrowser'[a] = toBrowser'[b] => a = b
    BY <1>1, <1>5, <1>6 DEF OnePlace, Answers
  <2>3. \A a \in Answers' :
          /\ toServer[a].id \in Ids /\ pc'[toServer[a].id] # "sending"
          /\ \A b \in 1..Len(toBrowser') : toBrowser'[b] # toServer[a].id
    BY <1>1, <1>2, <1>4, <1>5, <1>7 DEF OnePlace, Answers
  <2>4. Answers' = Answers /\ \A a, b \in Answers : toServer[a].id = toServer[b].id => a = b
    BY <1>1, <1>2 DEF OnePlace, Answers
  <2>5. toServer' = toServer /\ Ids' = Ids
    BY <1>2, <1>3
  <2>6. QED
    BY <2>1, <2>2, <2>3, <2>4, <2>5 DEF OnePlace
<1>10. AllExpected'
  BY <1>1, <1>2, <1>3, <1>4, <1>5 DEF AllExpected, Answers
<1>11. QED
  BY <1>1, <1>2, <1>8, <1>9, <1>10 DEF PeerInv, Open

\* The browser answers a request once, and passes on what happens to its link.
LEMMA PeerBrowser ==
  ASSUME PeerInv, (\E i \in Ids : BrowserDoes(i)) \/ Notify \/ LinkDrops
  PROVE  PeerInv'
<1>1. Open /\ PeerTyped /\ OnePlace /\ AllExpected /\ UNCHANGED <<peer, op, pc, pending, retired>>
  BY DEF PeerInv, BrowserDoes, Notify, LinkDrops, calls
<1>2. Ids' = Ids /\ Expected' = Expected
  BY <1>1 DEF Ids, Expected
<1>3. PICK M : toServer \in Seq(M)
  BY <1>1 DEF PeerTyped
<1>4. ASSUME NEW i \in Ids, BrowserDoes(i) PROVE PeerInv'
  <2>1. toBrowser # <<>> /\ Head(toBrowser) = i /\ toBrowser' = Tail(toBrowser)
    BY <1>4 DEF BrowserDoes, Carry
  <2>2. PICK value : toServer' = Append(toServer, Result(i, value))
    BY <1>4 DEF BrowserDoes, Answer
  <2>3. PICK m : m = Result(i, value)
    OBVIOUS
  <2>4. m.type = "result" /\ m.id = i
    BY <2>3 DEF Result
  <2>5. /\ toBrowser' \in Seq(Nat) /\ toBrowser[1] = i /\ 1 \in 1..Len(toBrowser)
        /\ \A a \in 1..Len(toBrowser') : a + 1 \in 1..Len(toBrowser) /\ a + 1 # 1 /\ toBrowser'[a] = toBrowser[a + 1]
    BY <1>1, <2>1, TailAt DEF PeerTyped
  <2>6. /\ toServer' \in Seq(M \cup {m})
        /\ \A a \in 1..Len(toServer') : \/ a \in 1..Len(toServer) /\ toServer'[a] = toServer[a]
                                        \/ a = Len(toServer) + 1 /\ toServer'[a] = m
    <3>1. toServer \in Seq(M \cup {m}) /\ m \in M \cup {m}
      BY <1>3
    <3>2. QED
      BY <2>2, <2>3, <3>1, AppendAt
  <2>7. \A a \in 1..Len(toBrowser') : toBrowser'[a] # i
    BY <1>1, <2>5 DEF OnePlace, Answers
  <2>8. \A a \in Answers : toServer[a].id # i
    BY <1>1, <2>5 DEF OnePlace, Answers
  <2>9. pc[i] # "sending" /\ i \in Expected
    BY <1>1, <2>5 DEF OnePlace, AllExpected, Answers
  <2>10. PeerTyped'
    BY <1>1, <2>5, <2>6 DEF PeerTyped
  <2>11. OnePlace'
    <3>1. ASSUME NEW a \in 1..Len(toBrowser') PROVE toBrowser'[a] \in Ids /\ pc[toBrowser'[a]] # "sending"
      <4>1. PICK b \in 1..Len(toBrowser) : toBrowser'[a] = toBrowser[b]
        BY <2>5
      <4>2. QED
        BY <1>1, <4>1 DEF OnePlace
    <3>2. \A a, b \in 1..Len(toBrowser') : toBrowser'[a] = toBrowser'[b] => a = b
      <4> SUFFICES ASSUME NEW a \in 1..Len(toBrowser'), NEW b \in 1..Len(toBrowser'),
                          toBrowser'[a] = toBrowser'[b]
                   PROVE  a = b
        OBVIOUS
      <4>1. /\ a + 1 \in 1..Len(toBrowser) /\ b + 1 \in 1..Len(toBrowser)
            /\ toBrowser[a + 1] = toBrowser[b + 1]
        BY <2>5
      <4>2. a + 1 = b + 1 /\ a \in Nat /\ b \in Nat
        BY <1>1, <2>5, <4>1 DEF OnePlace
      <4>3. QED
        BY <4>2
    <3>3. \A j : (\A b \in 1..Len(toBrowser) : toBrowser[b] # j) \/ j = i =>
             \A b \in 1..Len(toBrowser') : toBrowser'[b] # j
      BY <2>5, <2>7
    <3>4. \A a \in Answers' :
            /\ toServer'[a].id \in Ids /\ pc[toServer'[a].id] # "sending"
            /\ \A b \in 1..Len(toBrowser') : toBrowser'[b] # toServer'[a].id
      <4> SUFFICES ASSUME NEW a \in Answers'
                   PROVE  /\ toServer'[a].id \in Ids /\ pc[toServer'[a].id] # "sending"
                          /\ \A b \in 1..Len(toBrowser') : toBrowser'[b] # toServer'[a].id
        OBVIOUS
      <4>1. \/ a \in Answers /\ toServer'[a] = toServer[a]
            \/ toServer'[a] = m
        BY <2>6 DEF Answers
      <4>2. QED
        BY <1>1, <2>4, <2>9, <3>3, <4>1 DEF OnePlace, Answers
    <3>5. \A a, b \in Answers' : toServer'[a].id = toServer'[b].id => a = b
      BY <1>1, <2>4, <2>6, <2>8 DEF OnePlace, Answers
    <3>6. QED
      BY <1>1, <1>2, <3>1, <3>2, <3>4, <3>5 DEF OnePlace, Answers
  <2>12. AllExpected'
    BY <1>1, <1>2, <2>4, <2>5, <2>6, <2>9 DEF AllExpected, Answers
  <2>13. QED
    BY <1>1, <2>10, <2>11, <2>12 DEF PeerInv, Open
<1>5. CASE Notify \/ LinkDrops
  <2>1. /\ toBrowser' = toBrowser
        /\ \/ toServer' = toServer
           \/ \E m : m.type # "result" /\ toServer' = Append(toServer, m)
    <3>1. Notification(browser.notifying).type # "result" /\ Disconnected.type # "result"
      BY DEF Notification, Disconnected
    <3>2. QED
      BY <1>5, <3>1 DEF Notify, LinkDrops
  <2>2. CASE toServer' = toServer
    BY <1>1, <1>2, <2>1, <2>2 DEF PeerInv, Open, PeerTyped, OnePlace, AllExpected, Answers
  <2>3. ASSUME NEW m, m.type # "result", toServer' = Append(toServer, m) PROVE PeerInv'
    <3>1. toServer \in Seq(M \cup {m}) /\ m \in M \cup {m}
      BY <1>3
    <3>2. /\ toServer' \in Seq(M \cup {m})
          /\ \A a \in Answers' : a \in Answers /\ toServer'[a] = toServer[a]
      BY <2>3, <3>1, AppendAt DEF Answers
    <3>3. PeerTyped'
      BY <1>1, <2>1, <3>2 DEF PeerTyped
    <3>4. OnePlace' /\ AllExpected'
      BY <1>1, <1>2, <2>1, <3>2 DEF OnePlace, AllExpected, Answers
    <3>5. QED
      BY <1>1, <3>3, <3>4 DEF PeerInv, Open
  <2>4. QED
    BY <2>1, <2>2, <2>3
<1>6. QED
  BY <1>4, <1>5

\* An answer is taken off the list with its id; nothing else on its way has that id.
LEMMA PeerReceives ==
  ASSUME PeerInv,
         \/ LateResult \/ ExpectedResult \/ CancelledResult \/ UnexpectedResult
         \/ Notified \/ LinkReportedLost \/ Close
  PROVE  PeerInv'
<1>1. CASE Close \/ CancelledResult
  BY <1>1 DEF Close, CancelledResult, ServeEnds, PeerInv, Open
<1>2. CASE LateResult \/ ExpectedResult \/ UnexpectedResult \/ Notified \/ LinkReportedLost
  <2>1. Open /\ PeerTyped /\ OnePlace /\ AllExpected /\ toServer # <<>>
    BY <1>2 DEF PeerInv, LateResult, ExpectedResult, UnexpectedResult, Notified, LinkReportedLost, Receiving
  <2>2. PICK M : toServer \in Seq(M)
    BY <2>1 DEF PeerTyped
  <2>3. PICK m : m = Head(toServer)
    OBVIOUS
  <2>4. m = toServer[1] /\ 1 \in 1..Len(toServer)
    BY <2>1, <2>2, <2>3, TailAt
  <2>5. ~UnexpectedResult
    BY <2>1, <2>3, <2>4 DEF UnexpectedResult, Receiving, AllExpected, Expected, Answers, Answers
  <2>6. /\ toServer' = Tail(toServer) /\ UNCHANGED <<peer, op, pc, toBrowser>>
    BY <1>2, <2>5 DEF LateResult, ExpectedResult, Notified, LinkReportedLost, calls
  <2>7. \/ Expected' = Expected
        \/ m.type = "result" /\ Expected \ {m.id} \subseteq Expected'
    BY <1>2, <2>3, <2>5
       DEF LateResult, ExpectedResult, Notified, LinkReportedLost, LinkLost, Receiving, Expected
  <2>8. /\ toServer' \in Seq(M)
        /\ \A a \in 1..Len(toServer') : a + 1 \in 1..Len(toServer) /\ a + 1 # 1 /\ toServer'[a] = toServer[a + 1]
    BY <2>1, <2>2, <2>6, TailAt
  <2>9. PeerTyped' /\ Ids' = Ids
    BY <2>1, <2>6, <2>8 DEF PeerTyped, Ids
  <2>10. OnePlace'
    <3>1. \A a, b \in Answers' : toServer'[a].id = toServer'[b].id => a = b
      <4> SUFFICES ASSUME NEW a \in Answers', NEW b \in Answers', toServer'[a].id = toServer'[b].id
                   PROVE  a = b
        OBVIOUS
      <4>1. a + 1 \in Answers /\ toServer'[a] = toServer[a + 1]
        BY <2>8 DEF Answers
      <4>2. b + 1 \in Answers /\ toServer'[b] = toServer[b + 1]
        BY <2>8 DEF Answers
      <4>3. a + 1 = b + 1 /\ a \in Nat /\ b \in Nat
        BY <2>1, <2>8, <4>1, <4>2 DEF OnePlace, Answers
      <4>4. QED
        BY <4>3
    <3>2. toBrowser' = toBrowser
      BY <2>6
    <3>3. \A a \in Answers' :
            /\ toServer'[a].id \in Ids /\ pc[toServer'[a].id] # "sending"
            /\ \A b \in 1..Len(toBrowser') : toBrowser'[b] # toServer'[a].id
      BY <2>1, <2>8, <3>2 DEF OnePlace, Answers
    <3>4. QED
      BY <2>1, <2>6, <2>9, <3>1, <3>3 DEF OnePlace, Answers
  <2>11. AllExpected'
    <3>1. CASE Expected' = Expected
      BY <2>1, <2>6, <2>8, <2>9, <3>1 DEF AllExpected, Answers
    <3>2. CASE m.type = "result" /\ Expected \ {m.id} \subseteq Expected'
      <4>1. /\ \A i \in Ids : pc[i] = "sending" => i # m.id
            /\ \A a \in 1..Len(toBrowser) : toBrowser[a] # m.id
        BY <2>1, <2>4, <3>2 DEF OnePlace, Answers
      <4>2. \A a \in Answers' : toServer'[a].id # m.id
        BY <2>1, <2>4, <2>8, <3>2 DEF OnePlace, Answers
      <4>3. QED
        BY <2>1, <2>6, <2>8, <2>9, <3>2, <4>1, <4>2 DEF AllExpected, Answers
    <3>3. QED
      BY <2>7, <3>1, <3>2
  <2>12. QED
    BY <2>1, <2>6, <2>9, <2>10, <2>11 DEF PeerInv
<1>3. QED
  BY <1>1, <1>2

LEMMA PeerInvariance == PeerSpec => []PeerInv
<1>1. PeerInv /\ [PeerNext]_peerVars => PeerInv'
  <2> SUFFICES ASSUME PeerInv, [PeerNext]_peerVars PROVE PeerInv'
    OBVIOUS
  <2>1. CASE UNCHANGED peerVars
    <3>1. UNCHANGED <<peer, op, pc, pending, retired, toBrowser, toServer>>
      BY <2>1 DEF peerVars, calls
    <3>2. Ids' = Ids /\ Expected' = Expected /\ Answers' = Answers /\ Open' = Open
      BY <3>1 DEF Ids, Expected, Answers, Open
    <3>3. PeerTyped' = PeerTyped /\ OnePlace' = OnePlace /\ AllExpected' = AllExpected
      BY <3>1, <3>2 DEF PeerTyped, OnePlace, AllExpected
    <3>4. QED
      BY <3>1, <3>2, <3>3 DEF PeerInv
  <2>2. CASE Connect \/ \E k \in Clients : StartNotify(k) \/ WriteChar(k) \/ Disconnect(k)
    BY <2>2, PeerAsks DEF Connect, StartNotify, WriteChar, Disconnect
  <2>3. QED
    BY <2>1, <2>2, PeerCalls, PeerSends, PeerBrowser, PeerReceives DEF PeerNext
<1>2. QED
  BY <1>1, PeerStarts, PTL DEF PeerSpec

\* However many requests are given up or failed with their link, and however late the browser
\* answers them, it is never refused for an answer nobody expects.
THEOREM AnswersAreExpectedAlways == PeerSpec => []AnswersAreExpected
<1>1. PeerInv => AnswersAreExpected
  BY DEF PeerInv, AnswersAreExpected
<1>2. QED
  BY <1>1, PeerInvariance, PTL

-----------------------------------------------------------------------------
(* The commands of the command line *)

\* The stages on one session, those in which an attempt is under way, and those after a summary.
OneSession == {"source", "read", "menu", "ensure", "act", "closing", "choose"}
Attempting == {"source", "ensure", "connect", "gather", "finish", "stop"}
Leaving == {"cancel", "release", "done"}

ConsoleTyped ==
  /\ linked \in [Devices -> {"off", "connecting", "up", "lost"}]
  /\ job \in [Devices -> {"none", "running", "unstarted", "ok", "failed", "late", "cancelled"}]
  /\ source \subseteq Devices /\ kept \subseteq Devices /\ picked \subseteq Devices
  /\ \A d, e \in source : d = e

\* Targets come after the source, whose link is let go of by then.
SourceFirst ==
  /\ stage \in OneSession => /\ kept = {} /\ picked = {} /\ rows = NoRows
                             /\ \A d \in Devices \ source : linked[d] = "off"
                             /\ command.kind # "calibrate"
  /\ stage \notin (OneSession \ {"choose"}) \cup {"done"} => \A d \in source : linked[d] = "off"
  /\ stage = "source" => \A d \in source : linked[d] \in {"off", "connecting"}
  /\ stage \in {"gather", "finish", "stop"} => command.kind = "calibrate"
  /\ command.kind = "calibrate" => source = {}
  /\ picked \cap source = {}

\* An attempt is under way only where the command waits for it, or after a Ctrl-C during the
\* clean-up of a collection.
AttemptsAwaited ==
  /\ stage \notin Attempting \cup {"done"} /\ signal # "stop" => NoneConnecting
  /\ signal = "stop" => stage \in {"summary"} \cup Leaving

\* There is a summary once the gathering is over, unless an apply was declined.
Summary == /\ rows = [d \in kept |-> rows[d]]
           /\ \A d \in kept : (rows[d] = "ok") = (job[d] = "ok")

RowsTell ==
  /\ stage \notin Leaving => rows = NoRows
  /\ stage = "confirm" => command.kind = "clone"
  /\ stage \in Leaving /\ signal \notin {"cancel", "release"} =>
       Summary \/ (rows = NoRows /\ command.kind # "calibrate")

\* Whatever Ctrl-C interrupts, only clean-up follows, and never the code 0.
CleansUp ==
  /\ signal # "none" => stage \in {"closing", "stop", "summary"} \cup Leaving
  /\ code = 0 => stage = "done" /\ signal = "none"

AllOff == stage = "done" /\ signal \notin {"closing", "release"} => \A d \in Devices : linked[d] = "off"

ZeroIsOk ==
  stage = "done" /\ code = 0 => /\ \A d \in kept : job[d] = "ok"
                                /\ command.kind = "calibrate" => kept # {}

ConsoleInv == /\ ConsoleTyped /\ SourceFirst /\ AttemptsAwaited /\ RowsTell /\ CleansUp
              /\ AllOff /\ ZeroIsOk

LEMMA ConsoleStarts == ConsoleInit => ConsoleInv
<1> SUFFICES ASSUME ConsoleInit PROVE ConsoleInv
  OBVIOUS
<1>1. /\ source = {} /\ picked = {} /\ kept = {} /\ rows = NoRows /\ code = -1 /\ signal = "none"
      /\ linked = [d \in Devices |-> "off"] /\ job = [d \in Devices |-> "none"]
  BY DEF ConsoleInit
<1>2. \/ command.kind = "calibrate" /\ stage \in {"gather", "scan"}
      \/ command.kind # "calibrate" /\ stage \in {"choose", "source"}
  <2>1. CASE command \in Calibrate
    BY <2>1 DEF ConsoleInit, Calibrate, Gathering
  <2>2. CASE command \in Clone \cup Flow
    <3>1. command.kind \in {"clone", "flow"}
      BY <2>2 DEF Clone, Flow
    <3>2. stage \in {"choose", "source"}
      BY <3>1 DEF ConsoleInit
    <3>3. QED
      BY <3>1, <3>2
  <2>3. QED
    BY <2>1, <2>2 DEF ConsoleInit
<1>3. QED
  BY <1>1, <1>2 DEF ConsoleInv, ConsoleTyped, SourceFirst, AttemptsAwaited, RowsTell, CleansUp,
                    AllOff, ZeroIsOk, OneSession, Attempting, Leaving, NoneConnecting

\* One session: its attempts and its use.
LEMMA ConsoleSource ==
  ASSUME ConsoleInv,
         \/ SourceRead \/ MenuQuits \/ MenuActs \/ EnsuresAgain \/ MenuActionEnds \/ OneShotEnds
         \/ \E d \in Devices : Selects(d) \/ SourceTries(d) \/ SourceFails(d) \/ SourceConnected(d)
  PROVE  ConsoleInv'
<1> USE DEF ConsoleInv, OneSession, Attempting, Leaving
<1>1. /\ stage \in OneSession \ {"closing", "choose"} /\ stage' \in OneSession \ {"choose"}
      /\ command' = command /\ signal' = signal /\ code' \in {code, 1}
      /\ UNCHANGED <<picked, kept, job, rows>>
  BY DEF SourceRead, MenuQuits, MenuActs, EnsuresAgain, MenuActionEnds, OneShotEnds, Selects,
         SourceTries, SourceFails, SourceConnected, Goes
<1>2. RowsTell' /\ CleansUp' /\ AllOff' /\ ZeroIsOk'
  BY <1>1 DEF RowsTell, CleansUp, AllOff, ZeroIsOk
<1>3. CASE SourceRead \/ MenuQuits \/ MenuActs \/ EnsuresAgain \/ MenuActionEnds \/ OneShotEnds
  <2>1. /\ UNCHANGED <<source, linked>>
        /\ stage \in {"read", "menu", "act"} /\ stage' \in OneSession \ {"choose", "source"}
    BY <1>3 DEF SourceRead, MenuQuits, MenuActs, EnsuresAgain, MenuActionEnds, OneShotEnds, Goes
  <2>2. ConsoleTyped' /\ SourceFirst' /\ AttemptsAwaited'
    BY <1>1, <2>1 DEF ConsoleTyped, SourceFirst, AttemptsAwaited, NoneConnecting
  <2>3. QED
    BY <1>2, <2>2
<1>4. ASSUME NEW d \in Devices, Selects(d) \/ SourceTries(d) \/ SourceFails(d) \/ SourceConnected(d)
      PROVE  ConsoleInv'
  <2>1. PICK state \in {"off", "connecting", "up", "lost"} : linked' = [linked EXCEPT ![d] = state]
    BY <1>4 DEF Selects, SourceTries, SourceFails, SourceConnected, Sets
  <2>2. /\ d \in source' /\ source' \in {source, {d}} /\ source \subseteq source'
        /\ stage' \in {"source", "ensure", "act", "read"}
        /\ stage' = "source" => stage = "source" /\ state \in {"off", "connecting"}
        /\ stage' \in {"act", "read"} => state = "up" /\ signal' = signal
    BY <1>4, <2>1 DEF Selects, SourceTries, SourceFails, SourceConnected, Sets, Goes, ConsoleTyped
  <2>3. linked'[d] = state /\ \A e \in Devices \ {d} : linked'[e] = linked[e]
    BY <2>1 DEF ConsoleTyped
  <2>4. ConsoleTyped'
    <3>1. source' \subseteq Devices /\ \A e, f \in source' : e = f
      BY <2>2 DEF ConsoleTyped
    <3>2. QED
      BY <1>1, <2>1, <3>1 DEF ConsoleTyped
  <2>5. SourceFirst'
    <3>1. kept = {} /\ picked = {} /\ rows = NoRows /\ command.kind # "calibrate"
      BY <1>1 DEF SourceFirst
    <3>2. \A e \in Devices \ source' : linked'[e] = "off"
      BY <1>1, <2>2, <2>3 DEF SourceFirst
    <3>3. stage' = "source" => \A e \in source' : linked'[e] \in {"off", "connecting"}
      <4> SUFFICES ASSUME stage' = "source", NEW e \in source' PROVE linked'[e] \in {"off", "connecting"}
        OBVIOUS
      <4>1. e \in Devices /\ (e = d \/ e \in source)
        BY <2>2 DEF ConsoleTyped
      <4>2. e # d => linked'[e] = linked[e]
        BY <2>3, <4>1
      <4>3. QED
        BY <2>2, <2>3, <4>1, <4>2 DEF SourceFirst
    <3>4. QED
      BY <1>1, <2>2, <3>1, <3>2, <3>3 DEF SourceFirst
  <2>6. AttemptsAwaited'
    <3>1. \A e \in source' : e = d
      BY <2>2, <2>4 DEF ConsoleTyped
    <3>2. \A e \in Devices : linked'[e] \in {"off", state}
      BY <1>1, <2>2, <2>3, <3>1 DEF SourceFirst
    <3>3. stage' \notin Attempting => NoneConnecting'
      BY <2>2, <3>2 DEF NoneConnecting
    <3>4. signal' # "stop"
      BY <1>1 DEF CleansUp
    <3>5. QED
      BY <3>3, <3>4 DEF AttemptsAwaited
  <2>7. QED
    BY <1>2, <2>4, <2>5, <2>6
<1>5. QED
  BY <1>3, <1>4

LEMMA ConsoleSourceEnds ==
  ASSUME ConsoleInv, SourceClosed \/ SectionsChosen
  PROVE  ConsoleInv'
<1> USE DEF ConsoleInv, OneSession, Attempting, Leaving
<1>1. /\ stage \in {"closing", "choose"} /\ stage' \in {"choose", "scan", "done"}
      /\ command' = command /\ signal' = signal
      /\ UNCHANGED <<source, picked, kept, job, rows>>
  BY DEF SourceClosed, SectionsChosen, Goes, Ends
<1>2. linked' \in [Devices -> {"off", "connecting", "up", "lost"}] /\ \A d \in Devices : linked'[d] = "off"
  BY DEF SourceClosed, SectionsChosen, ConsoleTyped, SourceFirst
<1>3. code' = 0 => stage' = "done" /\ signal = "none"
  <2>1. code # 0
    BY <1>1 DEF CleansUp
  <2>2. CASE SourceClosed
    <3>1. \/ code' = code
          \/ stage' = "done" /\ code' = IF signal # "none" THEN 130 ELSE IF code = -1 THEN 0 ELSE code
      BY <2>2 DEF SourceClosed, Ends, Goes
    <3>2. QED
      BY <2>1, <3>1
  <2>3. CASE SectionsChosen
    <3>1. signal = "none" /\ (code' = code \/ stage' = "done")
      BY <2>3 DEF SectionsChosen, Ends, Goes, CleansUp
    <3>2. QED
      BY <2>1, <3>1
  <2>4. QED
    BY <2>2, <2>3
<1>4. kept = {} /\ rows = NoRows /\ command.kind # "calibrate"
  BY <1>1 DEF SourceFirst
<1>5. ConsoleTyped' /\ SourceFirst' /\ AttemptsAwaited' /\ AllOff' /\ CleansUp'
  <2>1. signal # "none" => stage' = "done"
    BY DEF SourceClosed, SectionsChosen, Goes, Ends, CleansUp
  <2>2. ConsoleTyped' /\ SourceFirst'
    BY <1>1, <1>2, <1>4 DEF ConsoleTyped, SourceFirst
  <2>3. AttemptsAwaited' /\ AllOff' /\ CleansUp'
    BY <1>1, <1>2, <1>3, <2>1 DEF AttemptsAwaited, AllOff, NoneConnecting, CleansUp
  <2>4. QED
    BY <2>2, <2>3
<1>6. RowsTell' /\ ZeroIsOk'
  BY <1>1, <1>4 DEF RowsTell, ZeroIsOk, NoRows
<1>7. QED
  BY <1>5, <1>6

\* Gathering: the attempts at the targets.
LEMMA ConsoleGathers ==
  ASSUME ConsoleInv, NEW d \in Devices,
         TargetConnecting(d) \/ TargetConnected(d) \/ ConnectCancelledAtStop(d)
  PROVE  ConsoleInv'
<1> USE DEF ConsoleInv
<1>1. /\ stage \in {"connect", "gather", "finish", "stop"} /\ stage' = stage
      /\ UNCHANGED <<command, source, job, rows, code, signal>>
  BY DEF TargetConnecting, TargetConnected, ConnectCancelledAtStop
<1>2. PICK state \in {"off", "connecting", "up", "lost"} : linked' = [linked EXCEPT ![d] = state]
  BY DEF TargetConnecting, TargetConnected, ConnectCancelledAtStop, Sets
<1>3. kept' \subseteq Devices /\ picked' \subseteq picked
  BY DEF TargetConnecting, TargetConnected, ConnectCancelledAtStop, ConsoleTyped
<1>4. d \notin source
  <2>1. CASE stage = "connect"
    <3>1. \A e \in source : linked[e] = "off"
      BY <2>1 DEF SourceFirst, OneSession
    <3>2. CASE TargetConnected(d) \/ ConnectCancelledAtStop(d)
      BY <3>1, <3>2 DEF TargetConnected, ConnectCancelledAtStop
    <3>3. CASE TargetConnecting(d)
      BY <2>1, <3>3 DEF TargetConnecting, SourceFirst
    <3>4. QED
      BY <3>2, <3>3
  <2>2. CASE stage # "connect"
    BY <1>1, <2>2 DEF SourceFirst
  <2>3. QED
    BY <2>1, <2>2
<1>5. /\ ConsoleTyped' /\ linked'[d] = state /\ \A e \in Devices \ {d} : linked'[e] = linked[e]
  BY <1>1, <1>2, <1>3 DEF ConsoleTyped
<1>6. SourceFirst'
  <2>1. \A e \in source : linked[e] = "off" => linked'[e] = "off"
    BY <1>4, <1>5 DEF ConsoleTyped
  <2>2. picked' \cap source = {}
    BY <1>3 DEF SourceFirst
  <2>3. QED
    BY <1>1, <2>1, <2>2 DEF SourceFirst, OneSession
<1>7. AttemptsAwaited' /\ RowsTell' /\ CleansUp' /\ AllOff' /\ ZeroIsOk'
  BY <1>1 DEF AttemptsAwaited, RowsTell, CleansUp, AllOff, ZeroIsOk, Attempting, Leaving
<1>8. QED
  BY <1>5, <1>6, <1>7

\* What moves the command on, or selects, with the links as they are.
LEMMA ConsoleMoves ==
  ASSUME ConsoleInv,
         \/ ScanQuits \/ AllTried \/ CollectionEnds \/ PendingFinished \/ GatherStopped
         \/ BatchFires \/ ApplyConfirmed \/ WorkEnds \/ Summarised \/ BatchCancelled
         \/ \E ds \in SUBSET Devices : ScanSelects(ds)
  PROVE  ConsoleInv'
<1> USE DEF ConsoleInv
<1>1. UNCHANGED <<command, source, linked, kept, code, signal>>
  BY DEF ScanQuits, AllTried, CollectionEnds, PendingFinished, GatherStopped, BatchFires, ApplyConfirmed,
         WorkEnds, Summarised, BatchCancelled, ScanSelects, AfterGather, Goes
<1>2. /\ stage \in {"scan", "connect", "gather", "finish", "stop", "prompt", "wait", "confirm", "fire",
                    "apply", "summary", "cancel"}
      /\ stage' \in {"scan", "connect", "finish", "stop", "prompt", "wait", "confirm", "fire",
                     "apply", "release", "summary", "cancel"}
  BY DEF ScanQuits, AllTried, CollectionEnds, PendingFinished, GatherStopped, BatchFires, ApplyConfirmed,
         WorkEnds, Summarised, BatchCancelled, ScanSelects, AfterGather, Goes
<1>3. picked' \subseteq Devices /\ picked' \cap source = {}
  BY DEF ScanQuits, AllTried, CollectionEnds, PendingFinished, GatherStopped, BatchFires, ApplyConfirmed,
         WorkEnds, Summarised, BatchCancelled, ScanSelects, AfterGather, Selectable, ConsoleTyped, SourceFirst
<1>4. job' \in [Devices -> {"none", "running", "unstarted", "ok", "failed", "late", "cancelled"}]
  BY DEF ScanQuits, AllTried, CollectionEnds, PendingFinished, GatherStopped, BatchFires, Fires, ApplyConfirmed,
         WorkEnds, Summarised, BatchCancelled, ScanSelects, AfterGather, ConsoleTyped
<1>5. ConsoleTyped'
  BY <1>1, <1>3, <1>4 DEF ConsoleTyped
<1>6. SourceFirst'
  <2>1. stage' \in {"gather", "finish", "stop"} => stage \in {"gather", "finish", "stop"}
    BY <1>2 DEF ScanQuits, AllTried, CollectionEnds, PendingFinished, GatherStopped, BatchFires,
                ApplyConfirmed, WorkEnds, Summarised, BatchCancelled, ScanSelects, AfterGather, Goes
  <2>2. QED
    BY <1>1, <1>2, <1>3, <2>1 DEF SourceFirst, OneSession
<1>7. NoneConnecting \/ stage' \in Attempting \/ signal = "stop"
  <2>1. CASE stage \in Attempting
    BY <2>1, <1>2 DEF ScanQuits, AllTried, CollectionEnds, PendingFinished, GatherStopped, BatchFires,
                ApplyConfirmed, WorkEnds, Summarised, BatchCancelled, ScanSelects, Goes, Attempting
  <2>2. CASE stage \notin Attempting
    BY <1>2, <2>2 DEF AttemptsAwaited
  <2>3. QED
    BY <2>1, <2>2
<1>8. signal # "none" => stage' \in {"summary", "cancel", "release"}
  BY <1>2 DEF CleansUp, Leaving, ScanQuits, AllTried, CollectionEnds, PendingFinished, GatherStopped, BatchFires,
              ApplyConfirmed, WorkEnds, Summarised, BatchCancelled, ScanSelects, AfterGather, Goes
<1>9. AttemptsAwaited' /\ CleansUp' /\ AllOff' /\ ZeroIsOk'
  BY <1>1, <1>2, <1>7, <1>8
     DEF AttemptsAwaited, CleansUp, AllOff, ZeroIsOk, NoneConnecting, Leaving, Attempting
<1>10. RowsTell'
  <2>1. CASE Summarised
    <3>1. rows' = [d \in kept |-> Status(d)] /\ stage' = "cancel" /\ job' = job
      BY <2>1 DEF Summarised, Goes
    <3>2. \A d \in kept : (Status(d) = "ok") = (job[d] = "ok")
      BY DEF Status
    <3>3. Summary'
      BY <1>1, <3>1, <3>2 DEF Summary
    <3>4. QED
      BY <3>1, <3>3 DEF RowsTell, Leaving
  <2>2. CASE BatchCancelled
    <3>1. stage = "cancel" /\ stage' = "release" /\ rows' = rows /\ job' = job
      BY <2>2 DEF BatchCancelled, Goes
    <3>2. Summary' = Summary
      BY <1>1, <3>1 DEF Summary
    <3>3. QED
      BY <1>1, <3>1, <3>2 DEF RowsTell, Leaving
  <2>3. CASE ApplyConfirmed
    <3>1. stage = "confirm" /\ rows' = rows /\ stage' # "confirm"
      BY <2>3 DEF ApplyConfirmed, Goes
    <3>2. rows = NoRows /\ command.kind = "clone"
      BY <3>1 DEF RowsTell, Leaving
    <3>3. QED
      BY <1>1, <3>1, <3>2 DEF RowsTell
  <2>4. CASE ~(Summarised \/ BatchCancelled \/ ApplyConfirmed)
    <3>1. /\ stage \notin Leaving /\ stage' \notin Leaving /\ rows' = rows
          /\ stage' = "confirm" => command.kind = "clone"
      BY <2>4 DEF ScanQuits, AllTried, CollectionEnds, PendingFinished, GatherStopped, BatchFires,
                WorkEnds, ScanSelects, AfterGather, Goes, Leaving
    <3>2. QED
      BY <1>1, <3>1 DEF RowsTell
  <2>5. QED
    BY <2>1, <2>2, <2>3, <2>4
<1>11. QED
  BY <1>5, <1>6, <1>9, <1>10


\* The batch, or the applies, and the release.
LEMMA ConsoleWorks ==
  ASSUME ConsoleInv, NEW d \in Devices,
         \/ TargetApplies(d) \/ (\E result \in {"ok", "failed"} : JobEndsWith(d, result))
         \/ JobCancelled(d) \/ TargetReleased(d) \/ SessionLost(d)
  PROVE  ConsoleInv'
<1> USE DEF ConsoleInv
<1>1. stage # "done" /\ UNCHANGED <<command, stage, source, picked, kept, rows, code, signal>>
  BY DEF TargetApplies, JobEndsWith, JobCancelled, TargetReleased, SessionLost
<1>2. \/ linked' = linked
      \/ stage \in {"cancel", "release"} /\ linked' = [linked EXCEPT ![d] = "off"]
      \/ linked[d] = "up" /\ linked' = [linked EXCEPT ![d] = "lost"]
  BY DEF TargetApplies, JobEndsWith, JobCancelled, TargetReleased, SessionLost, Sets
<1>3. PICK state : state = IF linked' = linked THEN linked[d] ELSE IF linked' = [linked EXCEPT ![d] = "off"] THEN "off" ELSE "lost"
  OBVIOUS
<1>4. /\ state \in {"off", "connecting", "up", "lost"}
      /\ linked' = [linked EXCEPT ![d] = state] /\ linked'[d] = state
      /\ state = "connecting" => linked[d] = "connecting"
      /\ linked[d] = "off" => state = "off"
      /\ state = "up" => linked[d] = "up"
      /\ state = "lost" => linked[d] \in {"up", "lost"}
  BY <1>2, <1>3 DEF ConsoleTyped
<1>5. \A e \in Devices \ {d} : linked'[e] = linked[e]
  BY <1>4 DEF ConsoleTyped
<1>6. /\ job' \in [Devices -> {"none", "running", "unstarted", "ok", "failed", "late", "cancelled"}]
      /\ stage \in {"cancel", "release"} => \A e \in kept : (job'[e] = "ok") = (job[e] = "ok")
  BY DEF TargetApplies, JobEndsWith, JobCancelled, TargetReleased, SessionLost, Running, ConsoleTyped
<1>7. ConsoleTyped'
  BY <1>1, <1>4, <1>6 DEF ConsoleTyped
<1>8. SourceFirst'
  <2>1. \A e \in Devices : linked[e] = "off" => linked'[e] = "off"
    BY <1>4, <1>5
  <2>2. stage = "source" => \A e \in source : linked'[e] \in {"off", "connecting"}
    BY <1>4, <1>5 DEF SourceFirst, ConsoleTyped
  <2>3. QED
    BY <1>1, <2>1, <2>2 DEF SourceFirst, ConsoleTyped
<1>9. AttemptsAwaited'
  <2>1. NoneConnecting => NoneConnecting'
    BY <1>4, <1>5 DEF NoneConnecting
  <2>2. QED
    BY <1>1, <2>1 DEF AttemptsAwaited
<1>10. RowsTell'
  <2>1. stage \in {"cancel", "release"} /\ Summary => Summary'
    BY <1>1, <1>6 DEF Summary
  <2>2. QED
    BY <1>1, <2>1 DEF RowsTell, Leaving
<1>11. CleansUp' /\ AllOff' /\ ZeroIsOk'
  BY <1>1 DEF CleansUp, AllOff, ZeroIsOk
<1>12. QED
  BY <1>7, <1>8, <1>9, <1>10, <1>11

\* The command is over: its code is 0 only with a summary of successes.
LEMMA ConsoleEnds ==
  ASSUME ConsoleInv, ReleaseDone
  PROVE  ConsoleInv'
<1> USE DEF ConsoleInv
<1>1. /\ stage = "release" /\ stage' = "done" /\ code' = ExitCode
      /\ \A d \in Devices \ source : linked[d] = "off"
      /\ UNCHANGED <<command, source, linked, picked, kept, job, rows, signal>>
  BY DEF ReleaseDone, Ends, Goes
<1>2. \A d \in Devices : linked[d] = "off"
  BY <1>1 DEF SourceFirst, OneSession
<1>3. ConsoleTyped' /\ SourceFirst' /\ AttemptsAwaited' /\ AllOff'
  BY <1>1, <1>2 DEF ConsoleTyped, SourceFirst, AttemptsAwaited, AllOff, OneSession, Leaving
<1>4. code' = 0 => signal = "none" /\ rows # NoRows /\ \A d \in DOMAIN rows : rows[d] = "ok"
  BY <1>1 DEF ExitCode
<1>5. CleansUp' /\ RowsTell'
  BY <1>1, <1>4 DEF CleansUp, RowsTell, Leaving, Summary
<1>6. code' = 0 => (\A d \in kept : job[d] = "ok") /\ kept # {}
  <2> SUFFICES ASSUME code' = 0 PROVE (\A d \in kept : job[d] = "ok") /\ kept # {}
    OBVIOUS
  <2>1. Summary
    BY <1>1, <1>4 DEF RowsTell, Leaving
  <2>2. \A d \in kept : d \in DOMAIN rows
    BY <2>1 DEF Summary
  <2>3. kept = {} => rows = NoRows
    BY <2>1 DEF Summary, NoRows
  <2>4. QED
    BY <1>4, <2>1, <2>2, <2>3 DEF Summary
<1>7. ZeroIsOk'
  BY <1>1, <1>6 DEF ZeroIsOk
<1>8. QED
  BY <1>3, <1>5, <1>7

\* Ctrl-C.
LEMMA ConsoleInterrupted ==
  ASSUME ConsoleInv, Interrupted
  PROVE  ConsoleInv'
<1> USE DEF ConsoleInv
<1>1. /\ signal = "none" /\ stage \notin {"summary", "done"} /\ signal' = stage /\ stage' = CleanUp
      /\ code' = (IF stage' = "done" THEN 130 ELSE code)
      /\ UNCHANGED <<command, source, picked, kept, job, rows>>
  BY DEF Interrupted
<1>2. /\ stage \in {"source", "choose", "closing", "release"} => stage' = "done"
      /\ stage \in {"read", "menu", "ensure", "act"} => stage' = "closing"
      /\ stage \in {"gather", "finish"} => stage' = "stop"
      /\ stage = "cancel" => stage' = "release"
      /\ stage \notin OneSession \cup {"gather", "finish", "cancel", "release"} => stage' = "summary"
  BY <1>1 DEF CleanUp, OneSession
<1>3. /\ linked' \in [Devices -> {"off", "connecting", "up", "lost"}]
      /\ \A d \in Devices : linked[d] # "connecting" => linked'[d] = linked[d]
      /\ \A d \in Devices : linked[d] = "connecting" /\ stage \in {"source", "connect", "ensure"} =>
           linked'[d] \in {"off", "lost"} /\ (stage # "ensure" => linked'[d] = "off")
      /\ stage \notin {"source", "connect", "ensure"} => linked' = linked
  BY DEF Interrupted, ConsoleTyped
<1>4. code # 0 /\ code' # 0
  BY <1>1 DEF CleansUp
<1>5. ConsoleTyped'
  BY <1>1, <1>3 DEF ConsoleTyped
<1>6. SourceFirst'
  <2>1. stage' \in OneSession => stage' = "closing" /\ stage \in {"read", "menu", "ensure", "act"}
    BY <1>1, <1>2 DEF OneSession, CleanUp
  <2>2. \A d \in Devices : linked[d] = "off" => linked'[d] = "off"
    BY <1>3
  <2>3. stage' \notin OneSession \cup {"done"} => stage \notin OneSession
    BY <1>2 DEF OneSession
  <2>4. stage' \in {"gather", "finish", "stop"} => stage \in {"gather", "finish"}
    BY <1>1, <1>2, <2>3 DEF OneSession
  <2>5. QED
    BY <1>1, <2>1, <2>2, <2>3, <2>4 DEF SourceFirst, OneSession, ConsoleTyped
<1>7. AttemptsAwaited'
  <2>1. stage' \notin Attempting \cup {"done"} /\ stage # "stop" => NoneConnecting'
    <3>1. stage \in {"source", "connect", "ensure"} => NoneConnecting'
      BY <1>3 DEF NoneConnecting
    <3>2. stage \notin Attempting => NoneConnecting'
      BY <1>1, <1>3 DEF AttemptsAwaited, NoneConnecting, Attempting
    <3>3. stage \in {"gather", "finish"} => stage' \in Attempting
      BY <1>2 DEF Attempting
    <3>4. QED
      BY <3>1, <3>2, <3>3 DEF Attempting
  <2>2. stage = "stop" => stage' = "summary"
    BY <1>2 DEF OneSession
  <2>3. QED
    BY <1>1, <2>1, <2>2 DEF AttemptsAwaited
<1>8. AllOff'
  <2>1. stage' = "done" /\ stage \notin {"closing", "release"} => stage \in {"source", "choose"}
    BY <1>1, <1>2 DEF OneSession
  <2>2. stage = "source" => \A d \in Devices : linked'[d] = "off"
    BY <1>3 DEF SourceFirst, OneSession
  <2>3. stage = "choose" => \A d \in Devices : linked'[d] = "off"
    BY <1>3 DEF SourceFirst, OneSession
  <2>4. QED
    BY <1>1, <2>1, <2>2, <2>3 DEF AllOff
<1>9. RowsTell'
  <2>1. stage' \in Leaving /\ stage \notin {"cancel", "release"} => stage \in OneSession
    BY <1>1, <1>2 DEF OneSession, Leaving
  <2>2. stage \notin Leaving => rows' = NoRows
    BY <1>1 DEF RowsTell
  <2>3. stage' # "confirm" /\ (stage \in Leaving => stage' \in Leaving)
    BY <1>1, <1>2 DEF OneSession, Leaving
  <2>4. stage \in OneSession => rows' = NoRows /\ command'.kind # "calibrate"
    BY <1>1 DEF SourceFirst
  <2>5. QED
    BY <1>1, <2>1, <2>2, <2>3, <2>4 DEF RowsTell
<1>10. CleansUp' /\ ZeroIsOk'
  <2>1. stage' \in {"closing", "stop", "summary"} \cup Leaving
    BY <1>1, <1>2 DEF OneSession, Leaving
  <2>2. QED
    BY <1>4, <2>1 DEF CleansUp, ZeroIsOk
<1>11. QED
  BY <1>5, <1>6, <1>7, <1>8, <1>9, <1>10

LEMMA ConsoleInvariance == ConsoleSpec => []ConsoleInv
<1>1. ConsoleInv /\ [ConsoleNext]_consoleVars => ConsoleInv'
  <2> SUFFICES ASSUME ConsoleInv, [ConsoleNext]_consoleVars PROVE ConsoleInv'
    OBVIOUS
  <2>1. CASE UNCHANGED consoleVars
    <3>1. ConsoleTyped' /\ SourceFirst' /\ AttemptsAwaited' /\ CleansUp'
      BY <2>1 DEF consoleVars, ConsoleInv, ConsoleTyped, SourceFirst, AttemptsAwaited, NoneConnecting, CleansUp
    <3>2. RowsTell' /\ AllOff' /\ ZeroIsOk'
      BY <2>1 DEF consoleVars, ConsoleInv, RowsTell, Summary, AllOff, ZeroIsOk
    <3>3. QED
      BY <3>1, <3>2 DEF ConsoleInv
  <2>2. QED
    BY <2>1, ConsoleSource, ConsoleSourceEnds, ConsoleGathers, ConsoleMoves, ConsoleWorks, ConsoleEnds,
       ConsoleInterrupted DEF ConsoleNext
<1>2. QED
  BY <1>1, ConsoleStarts, PTL DEF ConsoleSpec

\* However a command ends, and wherever Ctrl-C comes, no link and no attempt is left, for any
\* number of sensors; excepted is a Ctrl-C during the last clean-up.
THEOREM LeavesNoLinkAlways == ConsoleSpec => []LeavesNoLink
<1>1. ConsoleInv => LeavesNoLink
  BY DEF ConsoleInv, AttemptsAwaited, AllOff, LeavesNoLink, Attempting, Leaving
<1>2. QED
  BY <1>1, ConsoleInvariance, PTL

\* The summary and the exit code tell the results, for any number of sensors.
THEOREM SummaryTellsAlways == ConsoleSpec => []SummaryTells
<1>1. ConsoleInv => SummaryTells
  <2> SUFFICES ASSUME ConsoleInv PROVE SummaryTells
    OBVIOUS
  <2>1. stage \in Leaving /\ command.kind = "calibrate" /\ signal \notin {"cancel", "release"} =>
          DOMAIN rows = kept /\ \A d \in kept : (rows[d] = "ok") = (job[d] = "ok")
    BY DEF ConsoleInv, RowsTell, Summary
  <2>2. QED
    BY <2>1 DEF ConsoleInv, ZeroIsOk, SummaryTells, Leaving
<1>2. QED
  BY <1>1, ConsoleInvariance, PTL
=============================================================================
