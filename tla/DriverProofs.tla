---------------------------- MODULE DriverProofs ----------------------------
(***************************************************************************)
(* Proofs about Driver.tla, for every set of requests, number of message   *)
(* ids and frame length, and for every bound on the links.                 *)
(***************************************************************************)
EXTENDS Driver, TLAPS

\* The send lock is held by exactly the request that writes or cleans up after a write.
LockInv == \A r \in Requests : holder = r <=> req[r].pc \in Writing

\* No request is of a generation still to come.
GenInv == \A r \in Requests : req[r].gen <= gen

\* A request of the current generation was made without a link or on the one there is.
EraInv ==
  /\ opening => link = "none"
  /\ \A r \in Requests :
       req[r].pc # "idle" /\ req[r].gen = gen =>
         req[r].on = 0 \/ (req[r].on = era /\ link # "none")

\* A writer is on the current link, and the next step is a chunk of its frame.
WriterInv ==
  \A r \in Requests :
    /\ req[r].pc = "queue" => req[r].sent = 0
    /\ req[r].pc = "write" => req[r].gen = gen /\ link # "none" /\ req[r].sent < NChunks

\* While fewer than NIds requests were made since, an id and an age tell the next id.
Given(i, age) == nextId = i + 1 + age \/ nextId + NIds = i + 1 + age

\* The ages of requests and answers are those of their ids, two requests are of one age only
\* when both ids were given out again, and an answer of a request's age is that request's.
AgeInv ==
  /\ \A r \in Requests : req[r].pc # "idle" /\ req[r].age < NIds => Given(req[r].id, req[r].age)
  /\ \A m \in air : m.age < NIds => Given(m.id, m.age)
  /\ \A q, r \in Requests :
       req[q].pc # "idle" /\ req[r].pc # "idle" /\ req[q].age = req[r].age /\ req[q].age < NIds
         => q = r
  /\ \A m \in air, r \in Requests :
       req[r].pc # "idle" /\ m.age = req[r].age /\ m.age < NIds => m.of = r

CallInv == LockInv /\ NoWaiterLeftBehind /\ GenInv /\ EraInv /\ WriterInv

AnswerInv == PendingExact /\ AgeInv /\ OwnAnswer

IInv == TypeOK /\ CallInv /\ AnswerInv /\ FrameOnWire

-----------------------------------------------------------------------------
LEMMA IdsFacts == 1 \in Ids /\ \A i \in Ids : Roll(i) \in Ids
  BY SizesAssumption DEF Ids, Roll

LEMMA IdleType == Idle \in Request
  BY IdsFacts, SizesAssumption DEF Idle, Request, Age

LEMMA OlderType ==
  /\ \A x \in Request : Older(x) \in Request
  /\ \A m \in Answer : Older(m) \in Answer
<1>1. \A a \in Age : (IF a = NIds THEN NIds ELSE a + 1) \in Age
  BY SizesAssumption DEF Age
<1>2. ASSUME NEW x \in Request, NEW a \in Age PROVE [x EXCEPT !.age = a] \in Request
  BY DEF Request
<1>3. ASSUME NEW m \in Answer, NEW a \in Age PROVE [m EXCEPT !.age = a] \in Answer
  BY DEF Answer
<1>4. (\A x \in Request : x.age \in Age) /\ (\A m \in Answer : m.age \in Age)
  BY DEF Request, Answer
<1>5. QED
  BY <1>1, <1>2, <1>3, <1>4 DEF Older

\* Ids and ages are numbers up to NIds.
LEMMA NumberFacts ==
  ASSUME TypeOK
  PROVE  /\ NIds \in Nat /\ NIds > 0 /\ nextId \in Nat /\ nextId >= 1 /\ nextId <= NIds
         /\ \A q \in Requests : /\ req[q].id \in Nat /\ req[q].id >= 1 /\ req[q].id <= NIds
                                /\ req[q].age \in Nat /\ req[q].age <= NIds
         /\ \A m \in air : m.id \in Nat /\ m.id <= NIds /\ m.age \in Nat /\ m.age <= NIds
<1>1. NIds \in Nat /\ NIds > 0
  BY SizesAssumption
<1>2. \A i \in Ids : i \in Nat /\ i >= 1 /\ i <= NIds
  BY <1>1 DEF Ids
<1>3. \A a \in Age : a \in Nat /\ a <= NIds
  BY <1>1 DEF Age
<1>4. nextId \in Ids /\ \A q \in Requests : req[q].id \in Ids /\ req[q].age \in Age
  BY DEF TypeOK, Request
<1>5. \A m \in air : m.id \in Ids /\ m.age \in Age
  BY DEF TypeOK, Answer
<1>6. QED
  BY <1>1, <1>2, <1>3, <1>4, <1>5

LEMMA EndsType ==
  ASSUME TypeOK, NEW r \in Requests, Ends(r)
  PROVE  /\ req' \in [Requests -> Request]
         /\ holder' \in Requests \cup {None}
         /\ pending' \in [Ids -> Requests \cup {None}]
  BY IdleType DEF TypeOK, Ends

\* What Ends leaves of the calls.
LEMMA EndsLeaves ==
  ASSUME TypeOK, NEW r \in Requests, Ends(r)
  PROVE  /\ req'[r] = Idle
         /\ \A q \in Requests \ {r} : req'[q] = req[q]
         /\ \A i \in Ids : pending'[i] = IF i = req[r].id /\ pending[i] = r THEN None ELSE pending[i]
         /\ holder' = IF holder = r THEN None ELSE holder
  BY DEF TypeOK, Ends

LEMMA DetachType ==
  ASSUME TypeOK, NEW f \in [Requests -> Request], Detach(f)
  PROVE  /\ link' = "none"
         /\ gen' \in Nat
         /\ req' \in [Requests -> Request]
         /\ pending' \in [Ids -> Requests \cup {None}]
<1>1. \A r \in Requests : Detached(f)[r] \in Request
  <2>1. ASSUME NEW x \in Request, NEW fut \in {"lost", x.fut}
        PROVE  [x EXCEPT !.pc = IF @ = "write" THEN "cut" ELSE @, !.fut = fut] \in Request
    BY DEF Request, Writing
  <2>2. \A r \in Requests : f[r] \in Request
    OBVIOUS
  <2>3. QED
    BY <2>1, <2>2 DEF Detached
<1>2. Detached(f) \in [Requests -> Request]
  BY <1>1 DEF Detached
<1>3. QED
  BY <1>2 DEF Detach, TypeOK

LEMMA TypeInit == Init => TypeOK
<1>1. Init => req \in [Requests -> Request]
  BY IdleType DEF Init
<1>2. Init => pending \in [Ids -> Requests \cup {None}]
  BY DEF Init
<1>3. Init => buf \in [by : Requests \cup {None}, n : Nat]
  BY DEF Init, Empty
<1>4. Init => opening \in BOOLEAN /\ torn \in BOOLEAN
  BY DEF Init
<1>5. QED
  BY <1>1, <1>2, <1>3, <1>4, IdsFacts DEF Init, TypeOK

LEMMA TypeStep == ASSUME TypeOK, [Next]_vars PROVE TypeOK'
<1>1. ASSUME NEW r \in Requests, Issue(r) PROVE TypeOK'
  <2>1. [Idle EXCEPT !.pc = "queue", !.id = nextId, !.gen = gen,
                     !.on = IF link = "none" THEN 0 ELSE era] \in Request
    BY IdleType, SizesAssumption DEF TypeOK, Idle, Request, Age, Ids
  <2>2. \A q \in Requests : req[q] \in Request /\ Older(req[q]) \in Request
    BY OlderType DEF TypeOK
  <2>3. req' \in [Requests -> Request]
    BY <1>1, <2>1, <2>2 DEF Issue
  <2>4. air' \in SUBSET Answer
    BY <1>1, OlderType DEF Issue, TypeOK
  <2>5. QED
    BY <1>1, <2>3, <2>4, IdsFacts DEF TypeOK, Issue, conn
<1>2. ASSUME NEW r \in Requests, Acquire(r) PROVE TypeOK'
  <2>1. CASE Ends(r)
    BY <1>2, <2>1, EndsType DEF TypeOK, Acquire, conn, wire
  <2>2. CASE holder' = r /\ req' = [req EXCEPT ![r].pc = "write"] /\ UNCHANGED pending
    BY <1>2, <2>2 DEF TypeOK, Acquire, conn, wire, Request, Writing
  <2>3. QED
    BY <1>2, <2>1, <2>2 DEF Acquire
<1>3. ASSUME NEW r \in Requests, Chunk(r) PROVE TypeOK'
  <2>1. Received(r) \in [by : Requests \cup {None}, n : Nat]
    BY DEF TypeOK, Received, Empty
  <2>2. req' \in [Requests -> Request]
    BY <1>3 DEF TypeOK, Chunk, Request
  <2>3. QED
    BY <1>3, <2>1, <2>2 DEF TypeOK, Chunk, conn
<1>4. ASSUME NEW r \in Requests, LastChunk(r) PROVE TypeOK'
  <2>1. air' \in SUBSET Answer
    BY <1>4 DEF TypeOK, LastChunk, Answer, Request
  <2>2. /\ req' \in [Requests -> Request]
        /\ holder' \in Requests \cup {None}
        /\ pending' \in [Ids -> Requests \cup {None}]
    <3>1. CASE Ends(r)
      BY <3>1, EndsType
    <3>2. CASE holder' = None /\ req' = [req EXCEPT ![r].pc = "wait", ![r].sent = NChunks]
               /\ UNCHANGED pending
      <4>1. [req[r] EXCEPT !.pc = "wait", !.sent = NChunks] \in Request
        <5>1. ASSUME NEW x \in Request, NEW n \in Nat
              PROVE  [x EXCEPT !.pc = "wait", !.sent = n] \in Request
          BY DEF Request
        <5>2. req[r] \in Request /\ NChunks \in Nat
          BY SizesAssumption DEF TypeOK
        <5>3. QED
          BY <5>1, <5>2
      <4>2. QED
        BY <3>2, <4>1 DEF TypeOK
    <3>3. QED
      BY <1>4, <3>1, <3>2 DEF LastChunk
  <2>3. QED
    BY <1>4, <2>1, <2>2 DEF TypeOK, LastChunk, conn, Empty
<1>5. ASSUME NEW r \in Requests, WriteFails(r) \/ Leave(r) PROVE TypeOK'
  BY <1>5, EndsType DEF TypeOK, WriteFails, Leave, StallEnds, CutEnds, WaitEnds, conn, wire
<1>6. ASSUME NEW r \in Requests, Stall(r) PROVE TypeOK'
  <2>1. [req EXCEPT ![r].pc = "stall"] \in [Requests -> Request]
    BY DEF TypeOK, Request, Writing
  <2>2. QED
    BY <1>6, <2>1, DetachType DEF TypeOK, Stall, wire
<1>7. ASSUME NEW r \in Requests, Cancel(r) PROVE TypeOK'
  <2>1. CASE Ends(r) /\ UNCHANGED <<conn, nextId, wire>>
    BY <2>1, EndsType DEF TypeOK, conn, wire
  <2>2. CASE req' = [req EXCEPT ![r].cancel = TRUE] /\ UNCHANGED <<conn, holder, pending, nextId, wire>>
    <3>1. req[r] \in Request
      BY DEF TypeOK
    <3>2. [req[r] EXCEPT !.cancel = TRUE] \in Request
      BY <3>1 DEF Request
    <3>3. QED
      BY <2>2, <3>2 DEF TypeOK, conn, wire
  <2>3. QED
    BY <1>7, <2>1, <2>2 DEF Cancel
<1>8. ASSUME NEW m \in air, Dispatch(m) \/ Garbled(m) PROVE TypeOK'
  <2>1. CASE Garbled(m)
    BY <2>1 DEF TypeOK, Garbled, conn
  <2>2. CASE Dispatch(m)
    <3>1. m.id \in Ids
      BY DEF TypeOK, Answer
    <3>2. \A q \in Requests : Whose(m, q) \in {"own", "late", "other"}
      BY DEF Whose
    <3>3. QED
      BY <2>2, <3>1, <3>2 DEF TypeOK, Dispatch, Request, conn
  <2>3. QED
    BY <1>8, <2>1, <2>2
<1>9. ASSUME Disconnect \/ StartConnect \/ OnDisconnected PROVE TypeOK'
  <2>1. req \in [Requests -> Request]
    BY DEF TypeOK
  <2>2. QED
    BY <1>9, <2>1, DetachType DEF TypeOK, Disconnect, StartConnect, OnDisconnected, wire
<1>10. ASSUME Connected \/ ConnectFails \/ LinkDown PROVE TypeOK'
  <2>1. opening' \in BOOLEAN /\ torn' \in BOOLEAN
    BY <1>10 DEF TypeOK, Connected, ConnectFails, LinkDown, wire
  <2>2. QED
    BY <1>10, <2>1 DEF TypeOK, Connected, ConnectFails, LinkDown, wire, Empty
<1>11. CASE UNCHANGED vars
  BY <1>11 DEF TypeOK, vars
<1>12. QED
  BY <1>1, <1>2, <1>3, <1>4, <1>5, <1>6, <1>7, <1>8, <1>9, <1>10, <1>11 DEF Next, Write

\* What a detach leaves of the calls: f is the calls it starts from.
LEMMA DetachLeaves ==
  ASSUME TypeOK, NEW f \in [Requests -> Request], Detach(f)
  PROVE  /\ gen' = gen + 1 /\ link' = "none"
         /\ \A i \in Ids : pending'[i] = None
         /\ \A r \in Requests :
              /\ req'[r].pc = IF f[r].pc = "write" THEN "cut" ELSE f[r].pc
              /\ req'[r].fut = IF pending[f[r].id] = r THEN "lost" ELSE f[r].fut
              /\ req'[r].id = f[r].id /\ req'[r].gen = f[r].gen
              /\ req'[r].on = f[r].on /\ req'[r].sent = f[r].sent
              /\ req'[r].age = f[r].age
<1>1. ASSUME NEW r \in Requests
      PROVE  /\ req'[r].pc = IF f[r].pc = "write" THEN "cut" ELSE f[r].pc
             /\ req'[r].fut = IF pending[f[r].id] = r THEN "lost" ELSE f[r].fut
             /\ req'[r].id = f[r].id /\ req'[r].gen = f[r].gen
             /\ req'[r].on = f[r].on /\ req'[r].sent = f[r].sent
             /\ req'[r].age = f[r].age
  <2>1. f[r] \in Request
    OBVIOUS
  <2>2. PICK fut : fut = IF pending[f[r].id] = r THEN "lost" ELSE f[r].fut
    OBVIOUS
  <2>3. req'[r] = [f[r] EXCEPT !.pc = IF @ = "write" THEN "cut" ELSE @, !.fut = fut]
    BY <2>2 DEF Detach, Detached
  <2>4. QED
    BY <2>1, <2>2, <2>3 DEF Request
<1>2. gen' = gen + 1 /\ link' = "none" /\ \A i \in Ids : pending'[i] = None
  BY DEF Detach
<1>3. QED
  BY <1>1, <1>2

\* What Issue leaves of the calls and the answers: all but r are one request older.
LEMMA IssueLeaves ==
  ASSUME TypeOK, NEW r \in Requests, Issue(r)
  PROVE  /\ req[r].pc = "idle" /\ req'[r].pc = "queue" /\ req'[r].id = nextId
         /\ req'[r].gen = gen /\ req'[r].on = (IF link = "none" THEN 0 ELSE era)
         /\ req'[r].fut = "none" /\ req'[r].sent = 0 /\ req'[r].age = 0
         /\ \A q \in Requests \ {r} :
              /\ req'[q].pc = req[q].pc /\ req'[q].id = req[q].id /\ req'[q].gen = req[q].gen
              /\ req'[q].on = req[q].on /\ req'[q].fut = req[q].fut /\ req'[q].sent = req[q].sent
              /\ req[q].pc # "idle" =>
                   req'[q].age = IF req[q].age = NIds THEN NIds ELSE req[q].age + 1
         /\ \A m \in air' : \E l \in air :
              /\ m.id = l.id /\ m.of = l.of
              /\ m.age = IF l.age = NIds THEN NIds ELSE l.age + 1
<1>1. /\ req[r].pc = "idle"
      /\ req'[r] = [Idle EXCEPT !.pc = "queue", !.id = nextId, !.gen = gen,
                                !.on = IF link = "none" THEN 0 ELSE era]
  BY DEF Issue
<1>2. \A q \in Requests \ {r} : req'[q] = req[q] \/ (req'[q] = Older(req[q]) /\ req[q].pc # "idle")
  BY DEF Issue
<1>3. \A q \in Requests \ {r} : req[q].pc # "idle" => req'[q] = Older(req[q])
  BY DEF Issue
<1>4. \A q \in Requests : req[q] \in Request
  BY DEF TypeOK
<1>5. ASSUME NEW x \in Request
      PROVE  /\ Older(x).pc = x.pc /\ Older(x).id = x.id /\ Older(x).gen = x.gen
             /\ Older(x).on = x.on /\ Older(x).fut = x.fut /\ Older(x).sent = x.sent
             /\ Older(x).age = IF x.age = NIds THEN NIds ELSE x.age + 1
  BY DEF Older, Request
<1>6. ASSUME NEW l \in Answer
      PROVE  /\ Older(l).id = l.id /\ Older(l).of = l.of
             /\ Older(l).age = IF l.age = NIds THEN NIds ELSE l.age + 1
  BY DEF Older, Answer
<1>7. \A m \in air' : \E l \in air : l \in Answer /\ m = Older(l)
  BY DEF Issue, TypeOK
<1>8. /\ req'[r].pc = "queue" /\ req'[r].id = nextId
      /\ req'[r].gen = gen /\ req'[r].on = (IF link = "none" THEN 0 ELSE era)
      /\ req'[r].fut = "none" /\ req'[r].sent = 0 /\ req'[r].age = 0
  BY <1>1 DEF Idle
<1>9. \A q \in Requests \ {r} :
        /\ req'[q].pc = req[q].pc /\ req'[q].id = req[q].id /\ req'[q].gen = req[q].gen
        /\ req'[q].on = req[q].on /\ req'[q].fut = req[q].fut /\ req'[q].sent = req[q].sent
  BY <1>2, <1>4, <1>5
<1>10. \A q \in Requests \ {r} :
         req[q].pc # "idle" => req'[q].age = IF req[q].age = NIds THEN NIds ELSE req[q].age + 1
  BY <1>3, <1>4, <1>5
<1>11. \A m \in air' : \E l \in air :
         /\ m.id = l.id /\ m.of = l.of
         /\ m.age = IF l.age = NIds THEN NIds ELSE l.age + 1
  BY <1>6, <1>7
<1>12. QED
  BY <1>1, <1>8, <1>9, <1>10, <1>11

\* What Dispatch leaves: the call whose id the answer has, if it is registered, has its answer.
LEMMA DispatchLeaves ==
  ASSUME TypeOK, NEW m \in air, Dispatch(m)
  PROVE  /\ m.id \in Ids /\ air' = air \ {m}
         /\ \A i \in Ids : pending'[i] = IF i = m.id THEN None ELSE pending[i]
         /\ \A q \in Requests :
              /\ req'[q].pc = req[q].pc /\ req'[q].id = req[q].id /\ req'[q].gen = req[q].gen
              /\ req'[q].on = req[q].on /\ req'[q].sent = req[q].sent /\ req'[q].age = req[q].age
              /\ req'[q].fut = IF pending[m.id] = q THEN Whose(m, q) ELSE req[q].fut
              /\ req'[q].fut = "none" => req[q].fut = "none"
<1> DEFINE r == pending[m.id]
<1>1. m.id \in Ids /\ air' = air \ {m} /\ r \in Requests \cup {None}
  BY DEF TypeOK, Answer, Dispatch
<1>2. \A q \in Requests : req[q] \in Request /\ Whose(m, q) # "none"
  BY DEF TypeOK, Whose
<1>3. CASE r = None
  BY <1>1, <1>3, NoneAssumption DEF Dispatch
<1>4. CASE r # None
  <2>1. r \in Requests /\ req' = [req EXCEPT ![r].fut = Whose(m, r)]
    BY <1>1, <1>4 DEF Dispatch
  <2>2. pending' = [pending EXCEPT ![m.id] = None]
    BY <1>4 DEF Dispatch
  <2>3. req'[r] = [req[r] EXCEPT !.fut = Whose(m, r)] /\ \A q \in Requests \ {r} : req'[q] = req[q]
    BY <2>1 DEF TypeOK
  <2>4. \A i \in Ids : pending'[i] = IF i = m.id THEN None ELSE pending[i]
    BY <2>2 DEF TypeOK
  <2>5. /\ req'[r].pc = req[r].pc /\ req'[r].id = req[r].id /\ req'[r].gen = req[r].gen
        /\ req'[r].on = req[r].on /\ req'[r].sent = req[r].sent /\ req'[r].age = req[r].age
        /\ req'[r].fut = Whose(m, r)
    BY <1>2, <2>1, <2>3 DEF Request
  <2> HIDE DEF r
  <2>6. r = pending[m.id]
    BY DEF r
  <2>7. QED
    BY <1>1, <1>2, <2>1, <2>3, <2>4, <2>5, <2>6
<1>5. QED
  BY <1>3, <1>4

-----------------------------------------------------------------------------
(* The calls, the lock and the generations *)

LEMMA EndsCalls ==
  ASSUME IInv, NEW r \in Requests, Ends(r), UNCHANGED conn
  PROVE  CallInv'
<1>1. /\ req'[r] = Idle
      /\ \A q \in Requests \ {r} : req'[q] = req[q]
      /\ holder' = IF holder = r THEN None ELSE holder
  BY EndsLeaves DEF IInv
<1>2. req'[r].pc = "idle" /\ req'[r].gen = 0 /\ req'[r].fut = "none"
  BY <1>1 DEF Idle
<1>3. LockInv'
  BY <1>1, <1>2, NoneAssumption DEF IInv, CallInv, LockInv, Writing
<1>4. NoWaiterLeftBehind' /\ GenInv' /\ EraInv' /\ WriterInv'
  BY <1>1, <1>2 DEF IInv, CallInv, NoWaiterLeftBehind, GenInv, EraInv, WriterInv, conn, TypeOK
<1>5. QED
  BY <1>3, <1>4 DEF CallInv

LEMMA DetachCalls ==
  ASSUME IInv, NEW f \in [Requests -> Request], Detach(f), UNCHANGED <<era, holder>>,
         \A r \in Requests : /\ f[r].id = req[r].id /\ f[r].gen = req[r].gen
                             /\ f[r].on = req[r].on /\ f[r].fut = req[r].fut
                             /\ f[r].sent = req[r].sent /\ f[r].age = req[r].age
                             /\ \/ f[r].pc = req[r].pc
                                \/ req[r].pc = "write" /\ f[r].pc = "stall"
  PROVE  CallInv'
<1>1. /\ gen' = gen + 1 /\ link' = "none"
      /\ \A r \in Requests :
           /\ req'[r].pc = IF f[r].pc = "write" THEN "cut" ELSE f[r].pc
           /\ req'[r].fut = IF pending[req[r].id] = r THEN "lost" ELSE req[r].fut
           /\ req'[r].id = req[r].id /\ req'[r].gen = req[r].gen
           /\ req'[r].on = req[r].on /\ req'[r].sent = req[r].sent
           /\ req'[r].age = req[r].age
  BY DetachLeaves DEF IInv
<1>2. \A r \in Requests : /\ req[r].id \in Ids /\ req[r].gen \in Nat /\ gen \in Nat
                          /\ req[r].age < NIds \/ req[r].age = NIds
  <2>1. \A r \in Requests : req[r].id \in Ids /\ req[r].gen \in Nat /\ gen \in Nat
    BY DEF IInv, TypeOK, Request
  <2>2. QED
    BY <2>1, NumberFacts DEF IInv
<1>3. \A r \in Requests : /\ req'[r].pc \in Writing <=> req[r].pc \in Writing
                          /\ req'[r].pc = "idle" <=> req[r].pc = "idle"
                          /\ req'[r].pc # "write"
                          /\ req'[r].pc = "queue" => req[r].pc = "queue"
  BY <1>1 DEF Writing
<1>4. LockInv'
  BY <1>3 DEF IInv, CallInv, LockInv
<1>5. NoWaiterLeftBehind'
  BY <1>1, <1>2, <1>3 DEF IInv, AnswerInv, PendingExact, NoWaiterLeftBehind
<1>6. GenInv' /\ EraInv' /\ WriterInv'
  BY <1>1, <1>2, <1>3 DEF IInv, CallInv, GenInv, EraInv, WriterInv
<1>7. QED
  BY <1>4, <1>5, <1>6 DEF CallInv

LEMMA CallStep == ASSUME IInv, [Next]_vars PROVE CallInv'
<1> USE DEF IInv
<1>1. ASSUME NEW r \in Requests, Issue(r) PROVE CallInv'
  <2>1. /\ req[r].pc = "idle" /\ req'[r].pc = "queue" /\ req'[r].gen = gen
        /\ req'[r].on = (IF link = "none" THEN 0 ELSE era) /\ req'[r].sent = 0
        /\ \A q \in Requests \ {r} :
             /\ req'[q].pc = req[q].pc /\ req'[q].gen = req[q].gen /\ req'[q].on = req[q].on
             /\ req'[q].fut = req[q].fut /\ req'[q].sent = req[q].sent
             /\ req[q].pc # "idle" /\ req[q].age = NIds => req'[q].age = NIds
    BY <1>1, IssueLeaves
  <2>2. UNCHANGED <<conn, holder>> /\ gen \in Nat
    BY <1>1 DEF Issue, TypeOK
  <2>3. LockInv'
    BY <2>1, <2>2 DEF CallInv, LockInv, Writing
  <2>4. NoWaiterLeftBehind' /\ GenInv' /\ EraInv' /\ WriterInv'
    BY <2>1, <2>2 DEF CallInv, NoWaiterLeftBehind, GenInv, EraInv, WriterInv, conn
  <2>5. QED
    BY <2>3, <2>4 DEF CallInv
<1>2. ASSUME NEW r \in Requests, Acquire(r) PROVE CallInv'
  <2>1. CASE Ends(r)
    BY <1>2, <2>1, EndsCalls DEF Acquire
  <2>2. CASE req[r].gen = gen /\ link # "none" /\ holder' = r
             /\ req' = [req EXCEPT ![r].pc = "write"] /\ UNCHANGED pending
    <3>1. /\ req'[r] = [req[r] EXCEPT !.pc = "write"]
          /\ \A q \in Requests \ {r} : req'[q] = req[q]
      BY <2>2 DEF TypeOK
    <3>2. LockInv'
      BY <1>2, <2>2, <3>1, NoneAssumption DEF CallInv, LockInv, Acquire, Writing, TypeOK, Request
    <3>3. NoWaiterLeftBehind' /\ GenInv' /\ EraInv'
      BY <1>2, <2>2, <3>1 DEF CallInv, NoWaiterLeftBehind, GenInv, EraInv, Acquire,
                               conn, TypeOK, Request
    <3>4. req[r].sent < NChunks
      BY <1>2, SizesAssumption DEF CallInv, WriterInv, Acquire
    <3>5. WriterInv'
      BY <1>2, <2>2, <3>1, <3>4 DEF CallInv, WriterInv, Acquire, conn, TypeOK, Request
    <3>6. QED
      BY <3>2, <3>3, <3>5 DEF CallInv
  <2>3. QED
    BY <1>2, <2>1, <2>2 DEF Acquire
<1>3. ASSUME NEW r \in Requests, Chunk(r) PROVE CallInv'
  <2>1. /\ req'[r] = [req[r] EXCEPT !.sent = @ + 1]
        /\ \A q \in Requests \ {r} : req'[q] = req[q]
    BY <1>3 DEF TypeOK, Chunk
  <2>2. req[r].sent + 1 < NChunks /\ req[r] \in Request
    BY <1>3 DEF Chunk, TypeOK
  <2>3. LockInv' /\ NoWaiterLeftBehind' /\ GenInv' /\ EraInv'
    BY <1>3, <2>1, <2>2 DEF CallInv, LockInv, NoWaiterLeftBehind, GenInv, EraInv,
                             Chunk, conn, Request
  <2>4. WriterInv'
    BY <1>3, <2>1, <2>2 DEF CallInv, WriterInv, Chunk, conn, Request
  <2>5. QED
    BY <2>3, <2>4 DEF CallInv
<1>4. ASSUME NEW r \in Requests, LastChunk(r) PROVE CallInv'
  <2>1. CASE Ends(r)
    BY <1>4, <2>1, EndsCalls DEF LastChunk
  <2>2. CASE holder' = None /\ req' = [req EXCEPT ![r].pc = "wait", ![r].sent = NChunks]
             /\ UNCHANGED pending
    <3>1. /\ req'[r] = [req[r] EXCEPT !.pc = "wait", !.sent = NChunks]
          /\ \A q \in Requests \ {r} : req'[q] = req[q]
          /\ req[r] \in Request
      BY <2>2 DEF TypeOK
    <3>2. /\ req'[r].pc = "wait" /\ req'[r].id = req[r].id /\ req'[r].gen = req[r].gen
          /\ req'[r].on = req[r].on /\ req'[r].fut = req[r].fut /\ req'[r].age = req[r].age
      BY <3>1 DEF Request
    <3>3. LockInv'
      BY <1>4, <2>2, <3>1, <3>2, NoneAssumption DEF CallInv, LockInv, LastChunk, Writing
    <3>4. req[r].pc = "write" /\ UNCHANGED conn
      BY <1>4 DEF LastChunk
    <3>5. NoWaiterLeftBehind' /\ GenInv' /\ EraInv' /\ WriterInv'
      <4>1. \A q \in Requests : /\ req'[q].gen = req[q].gen /\ req'[q].age = req[q].age
                                /\ req'[q].fut = req[q].fut /\ req'[q].on = req[q].on
                                /\ req'[q].pc = IF q = r THEN "wait" ELSE req[q].pc
        BY <3>1, <3>2
      <4>2. NoWaiterLeftBehind' /\ GenInv'
        BY <4>1, <3>4 DEF CallInv, NoWaiterLeftBehind, GenInv, conn
      <4>3. EraInv'
        BY <4>1, <3>4 DEF CallInv, EraInv, conn
      <4>4. WriterInv'
        BY <4>1, <3>1, <3>4 DEF CallInv, WriterInv, conn
      <4>5. QED
        BY <4>2, <4>3, <4>4
    <3>6. QED
      BY <3>3, <3>5 DEF CallInv
  <2>3. QED
    BY <1>4, <2>1, <2>2 DEF LastChunk
<1>5. ASSUME NEW r \in Requests, WriteFails(r) \/ Leave(r) PROVE CallInv'
  BY <1>5, EndsCalls DEF WriteFails, Leave, StallEnds, CutEnds, WaitEnds
<1>6. ASSUME NEW r \in Requests, Stall(r) PROVE CallInv'
  <2> DEFINE f == [req EXCEPT ![r].pc = "stall"]
  <2>1. f \in [Requests -> Request]
    BY DEF TypeOK, Request, Writing
  <2>2. \A q \in Requests : /\ f[q].id = req[q].id /\ f[q].gen = req[q].gen
                            /\ f[q].on = req[q].on /\ f[q].fut = req[q].fut
                            /\ f[q].sent = req[q].sent /\ f[q].age = req[q].age
                            /\ \/ f[q].pc = req[q].pc
                               \/ req[q].pc = "write" /\ f[q].pc = "stall"
    BY <1>6 DEF Stall, TypeOK, Request
  <2>3. Detach(f) /\ UNCHANGED <<era, holder>>
    BY <1>6 DEF Stall
  <2> HIDE DEF f
  <2>4. QED
    BY <2>1, <2>2, <2>3, DetachCalls
<1>7. ASSUME NEW r \in Requests, Cancel(r) PROVE CallInv'
  <2>1. CASE Ends(r) /\ UNCHANGED <<conn, nextId, wire>>
    BY <2>1, EndsCalls
  <2>2. CASE req' = [req EXCEPT ![r].cancel = TRUE] /\ UNCHANGED <<conn, holder, pending, nextId, wire>>
    <3>1. \A q \in Requests : /\ req'[q].pc = req[q].pc /\ req'[q].id = req[q].id
                              /\ req'[q].gen = req[q].gen /\ req'[q].on = req[q].on
                              /\ req'[q].fut = req[q].fut /\ req'[q].sent = req[q].sent
                              /\ req'[q].age = req[q].age
      BY <2>2 DEF TypeOK, Request
    <3>2. QED
      BY <2>2, <3>1 DEF CallInv, LockInv, NoWaiterLeftBehind, GenInv, EraInv,
                        WriterInv, conn
  <2>3. QED
    BY <1>7, <2>1, <2>2 DEF Cancel
<1>8. ASSUME NEW m \in air, Dispatch(m) \/ Garbled(m) PROVE CallInv'
  <2>1. \A q \in Requests : /\ req'[q].pc = req[q].pc /\ req'[q].gen = req[q].gen
                            /\ req'[q].on = req[q].on /\ req'[q].sent = req[q].sent
                            /\ req'[q].age = req[q].age
                            /\ req'[q].fut = "none" => req[q].fut = "none"
    BY <1>8, DispatchLeaves DEF Garbled
  <2>2. UNCHANGED <<conn, holder>>
    BY <1>8 DEF Dispatch, Garbled
  <2>3. QED
    BY <2>1, <2>2 DEF CallInv, LockInv, NoWaiterLeftBehind, GenInv, EraInv, WriterInv, conn
<1>9. ASSUME Disconnect \/ StartConnect \/ OnDisconnected PROVE CallInv'
  <2>1. Detach(req) /\ UNCHANGED <<era, holder>>
    BY <1>9 DEF Disconnect, StartConnect, OnDisconnected
  <2>2. QED
    BY <2>1, DetachCalls DEF TypeOK
<1>10. ASSUME Connected \/ ConnectFails \/ LinkDown PROVE CallInv'
  <2>1. LockInv' /\ NoWaiterLeftBehind' /\ GenInv'
    BY <1>10 DEF Connected, ConnectFails, LinkDown, CallInv, LockInv, PendingExact,
                 NoWaiterLeftBehind, GenInv
  <2>2. EraInv' /\ WriterInv'
    BY <1>10 DEF Connected, ConnectFails, LinkDown, CallInv, EraInv, WriterInv
  <2>3. QED
    BY <2>1, <2>2 DEF CallInv
<1>11. CASE UNCHANGED vars
  BY <1>11 DEF CallInv, LockInv, NoWaiterLeftBehind, GenInv, EraInv, WriterInv, vars
<1>12. QED
  BY <1>1, <1>2, <1>3, <1>4, <1>5, <1>6, <1>7, <1>8, <1>9, <1>10, <1>11 DEF Next, Write

-----------------------------------------------------------------------------
(* Answers *)

\* Whoever ends, ages stay true while no request is made and no answer sent.
LEMMA AgesKept ==
  ASSUME IInv, nextId' = nextId, \A m \in air' : m \in air,
         \A q \in Requests : req'[q].pc # "idle" =>
           req[q].pc # "idle" /\ req'[q].id = req[q].id /\ req'[q].age = req[q].age
  PROVE  AgeInv'
  BY DEF IInv, AnswerInv, AgeInv, Given

LEMMA EndsAnswers ==
  ASSUME IInv, NEW r \in Requests, Ends(r), UNCHANGED <<nextId, air>>
  PROVE  AnswerInv'
<1>1. /\ req'[r] = Idle
      /\ \A q \in Requests \ {r} : req'[q] = req[q]
      /\ \A i \in Ids : pending'[i] = IF i = req[r].id /\ pending[i] = r THEN None ELSE pending[i]
  BY EndsLeaves DEF IInv
<1>2. req'[r].pc = "idle" /\ req'[r].fut = "none"
  BY <1>1 DEF Idle
<1>3. PendingExact'
  BY <1>1, <1>2, NoneAssumption DEF IInv, AnswerInv, PendingExact
<1>4. AgeInv'
  BY <1>1, <1>2, AgesKept
<1>5. OwnAnswer'
  BY <1>1, <1>2 DEF IInv, AnswerInv, OwnAnswer
<1>6. QED
  BY <1>3, <1>4, <1>5 DEF AnswerInv

LEMMA DetachAnswers ==
  ASSUME IInv, NEW f \in [Requests -> Request], Detach(f), UNCHANGED <<nextId, air>>,
         \A r \in Requests : /\ f[r].id = req[r].id /\ f[r].fut = req[r].fut
                             /\ f[r].age = req[r].age
                             /\ f[r].pc = "idle" <=> req[r].pc = "idle"
  PROVE  AnswerInv'
<1>1. /\ \A i \in Ids : pending'[i] = None
      /\ \A r \in Requests :
           /\ req'[r].pc = "idle" <=> req[r].pc = "idle"
           /\ req'[r].fut = IF pending[req[r].id] = r THEN "lost" ELSE req[r].fut
           /\ req'[r].id = req[r].id /\ req'[r].age = req[r].age
  BY DetachLeaves DEF IInv
<1>2. PendingExact'
  BY <1>1, NoneAssumption DEF IInv, AnswerInv, PendingExact
<1>3. AgeInv'
  BY <1>1, AgesKept
<1>4. OwnAnswer'
  BY <1>1 DEF IInv, AnswerInv, OwnAnswer
<1>5. QED
  BY <1>2, <1>3, <1>4 DEF AnswerInv

\* A step that ends no call, registers none and resolves none.
LEMMA OthersAnswers ==
  ASSUME IInv, UNCHANGED <<nextId, pending>>, AgeInv',
         \A q \in Requests : /\ req'[q].id = req[q].id /\ req'[q].age = req[q].age
                             /\ req'[q].fut = req[q].fut
                             /\ req'[q].pc = "idle" <=> req[q].pc = "idle"
  PROVE  AnswerInv'
  BY DEF IInv, AnswerInv, PendingExact, OwnAnswer

\* The next id is that of the last call but NIds - 1, which is the one that is overwritten.
LEMMA IssueAnswers == ASSUME IInv, NEW r \in Requests, Issue(r) PROVE AnswerInv'
<1> USE DEF IInv
<1>1. /\ req[r].pc = "idle" /\ req'[r].pc = "queue" /\ req'[r].id = nextId
      /\ req'[r].fut = "none" /\ req'[r].age = 0
      /\ \A q \in Requests \ {r} :
           /\ req'[q].pc = req[q].pc /\ req'[q].id = req[q].id /\ req'[q].fut = req[q].fut
           /\ req[q].pc # "idle" =>
                req'[q].age = IF req[q].age = NIds THEN NIds ELSE req[q].age + 1
      /\ \A m \in air' : \E l \in air : /\ m.id = l.id /\ m.of = l.of
                                       /\ m.age = IF l.age = NIds THEN NIds ELSE l.age + 1
  BY IssueLeaves
<1>2. /\ \A i \in Ids : pending'[i] = IF i = nextId THEN r ELSE pending[i]
      /\ nextId' = IF nextId = NIds THEN 1 ELSE nextId + 1
  BY DEF Issue, Roll, TypeOK
<1>3. /\ NIds \in Nat /\ NIds > 0 /\ nextId \in Nat /\ nextId >= 1 /\ nextId <= NIds
      /\ \A q \in Requests : /\ req[q].id \in Nat /\ req[q].id >= 1 /\ req[q].id <= NIds
                             /\ req[q].age \in Nat /\ req[q].age <= NIds
      /\ \A l \in air : l.id \in Nat /\ l.id <= NIds /\ l.age \in Nat /\ l.age <= NIds
  BY NumberFacts
\* One more request: ages and ids still tell the next id.
<1>4. ASSUME NEW i \in Nat, i <= NIds, NEW a \in Nat, a + 1 < NIds, Given(i, a)
      PROVE  nextId' = i + 1 + (a + 1) \/ nextId' + NIds = i + 1 + (a + 1)
  <2>1. nextId = i + 1 + a \/ nextId + NIds = i + 1 + a
    BY <1>4 DEF Given
  <2>2. CASE nextId = NIds
    BY <1>2, <1>3, <1>4, <2>1, <2>2 DEF Given
  <2>3. CASE nextId # NIds
    BY <1>2, <1>3, <1>4, <2>1, <2>3 DEF Given
  <2>4. QED
    BY <2>2, <2>3
<1>5. AgeInv'
  <2>1. ASSUME NEW q \in Requests, req'[q].pc # "idle", req'[q].age < NIds
        PROVE  Given(req[q].id, req[q].age)'
    <3>1. CASE q = r
      BY <1>1, <1>2, <1>3, <3>1 DEF Given
    <3>2. CASE q # r
      <4>1. req[q].pc # "idle" /\ req[q].age < NIds /\ req'[q].age = req[q].age + 1
            /\ req'[q].id = req[q].id
        BY <1>1, <1>3, <2>1, <3>2
      <4>2. Given(req[q].id, req[q].age)
        BY <4>1 DEF AnswerInv, AgeInv
      <4>3. QED
        <5>1. /\ req[q].id \in Nat /\ req[q].id <= NIds /\ req[q].age \in Nat
              /\ req[q].age + 1 < NIds
          BY <1>3, <2>1, <4>1
        <5>2. \/ nextId' = req[q].id + 1 + (req[q].age + 1)
              \/ nextId' + NIds = req[q].id + 1 + (req[q].age + 1)
          BY <1>4, <4>2, <5>1 DEF Given
        <5>3. QED
          BY <4>1, <5>2 DEF Given
    <3>3. QED
      BY <3>1, <3>2
  <2>2. ASSUME NEW m \in air', m.age < NIds PROVE Given(m.id, m.age)'
    <3>1. PICK l \in air : /\ m.id = l.id /\ m.of = l.of
                           /\ m.age = IF l.age = NIds THEN NIds ELSE l.age + 1
      BY <1>1
    <3>2. l.age < NIds /\ m.age = l.age + 1
      BY <1>3, <2>2, <3>1
    <3>3. Given(l.id, l.age)
      BY <3>2 DEF AnswerInv, AgeInv
    <3>4. l.id \in Nat /\ l.id <= NIds /\ l.age \in Nat /\ l.age + 1 < NIds
      BY <1>3, <2>2, <3>2
    <3>5. nextId' = l.id + 1 + (l.age + 1) \/ nextId' + NIds = l.id + 1 + (l.age + 1)
      BY <1>4, <3>3, <3>4
    <3>6. QED
      BY <3>1, <3>2, <3>5 DEF Given
  <2>3. ASSUME NEW p \in Requests, NEW q \in Requests, req'[p].pc # "idle", req'[q].pc # "idle",
               req'[p].age = req'[q].age, req'[p].age < NIds
        PROVE  p = q
    BY <1>1, <1>3, <2>3 DEF AnswerInv, AgeInv
  <2>4. ASSUME NEW m \in air', NEW q \in Requests, req'[q].pc # "idle",
               m.age = req'[q].age, m.age < NIds
        PROVE  m.of = q
    <3>1. PICK l \in air : /\ m.id = l.id /\ m.of = l.of
                           /\ m.age = IF l.age = NIds THEN NIds ELSE l.age + 1
      BY <1>1
    <3>2. l.age \in Nat /\ l.age < NIds /\ m.age = l.age + 1
      BY <1>3, <2>4, <3>1
    <3> DEFINE a == req'[q].age
    <3>3. m.age = a
      BY <2>4
    <3> HIDE DEF a
    <3>4. q # r /\ req[q].pc # "idle" /\ l.age = req[q].age
      <4>1. q # r
        <5>1. a = 0 => l.age + 1 = 0
          BY <3>2, <3>3
        <5>2. a # 0
          BY <3>2, <5>1
        <5>3. QED
          BY <1>1, <5>2 DEF a
      <4>2. req[q].pc # "idle" /\ req'[q].age = IF req[q].age = NIds THEN NIds ELSE req[q].age + 1
        BY <1>1, <2>4, <4>1
      <4>3. req[q].age \in Nat /\ req[q].age < NIds /\ req'[q].age = req[q].age + 1
        BY <1>3, <2>4, <4>2
      <4>4. QED
        <5>1. a = req[q].age + 1
          BY <4>3 DEF a
        <5>2. l.age = req[q].age
          BY <3>2, <3>3, <4>3, <5>1
        <5>3. QED
          BY <4>1, <4>2, <5>2
    <3>5. QED
      BY <3>1, <3>2, <3>4 DEF AnswerInv, AgeInv
  <2>5. QED
    BY <2>1, <2>2, <2>3, <2>4 DEF AgeInv
<1>6. PendingExact'
  <2>1. ASSUME NEW q \in Requests \ {r}, req[q].pc # "idle", req[q].age < NIds
        PROVE  req[q].id = nextId <=> req[q].age + 1 = NIds
    <3>1. nextId = req[q].id + 1 + req[q].age \/ nextId + NIds = req[q].id + 1 + req[q].age
      BY <2>1 DEF AnswerInv, AgeInv, Given
    <3>2. QED
      BY <1>3, <2>1, <3>1
  <2>2. ASSUME NEW q \in Requests, NEW i \in Ids
        PROVE  (pending[i] = q <=> /\ req[q].pc # "idle" /\ req[q].id = i
                                   /\ req[q].fut = "none" /\ req[q].age < NIds)'
    <3>1. pending[i] = q <=> /\ req[q].pc # "idle" /\ req[q].id = i
                             /\ req[q].fut = "none" /\ req[q].age < NIds
      BY DEF AnswerInv, PendingExact
    <3>2. CASE q = r
      BY <1>1, <1>2, <1>3, <3>1, <3>2
    <3>3. CASE q # r /\ req[q].pc # "idle" /\ req[q].age < NIds
      BY <1>1, <1>2, <1>3, <2>1, <3>1, <3>3
    <3>4. CASE q # r /\ ~(req[q].pc # "idle" /\ req[q].age < NIds)
      BY <1>1, <1>2, <1>3, <3>1, <3>4
    <3>5. QED
      BY <3>2, <3>3, <3>4
  <2>3. QED
    BY <2>2 DEF PendingExact
<1>7. OwnAnswer'
  BY <1>1 DEF AnswerInv, OwnAnswer
<1>8. QED
  BY <1>5, <1>6, <1>7 DEF AnswerInv

\* The call that is registered under an answer's id is of the answer's age, unless the answer is
\* NIds requests late.
LEMMA DispatchAnswers == ASSUME IInv, NEW m \in air, Dispatch(m) PROVE AnswerInv'
<1> USE DEF IInv
<1>1. /\ m.id \in Ids /\ air' = air \ {m}
      /\ \A i \in Ids : pending'[i] = IF i = m.id THEN None ELSE pending[i]
      /\ \A q \in Requests :
           /\ req'[q].pc = req[q].pc /\ req'[q].id = req[q].id /\ req'[q].age = req[q].age
           /\ req'[q].fut = IF pending[m.id] = q THEN Whose(m, q) ELSE req[q].fut
  BY DispatchLeaves
<1>2. ASSUME NEW q \in Requests, pending[m.id] = q PROVE Whose(m, q) \in {"own", "late"}
  <2>1. req[q].pc # "idle" /\ req[q].id = m.id /\ req[q].age < NIds
    BY <1>1, <1>2 DEF AnswerInv, PendingExact
  <2>2. CASE m.age < NIds
    <3>1. /\ nextId = m.id + 1 + m.age \/ nextId + NIds = m.id + 1 + m.age
          /\ nextId = m.id + 1 + req[q].age \/ nextId + NIds = m.id + 1 + req[q].age
      BY <2>1, <2>2 DEF AnswerInv, AgeInv, Given
    <3>2. m.age = req[q].age
      <4>1. /\ NIds \in Nat /\ nextId \in Nat /\ m.id \in Nat
            /\ m.age \in Nat /\ req[q].age \in Nat
        BY NumberFacts
      <4>2. QED
        BY <2>1, <2>2, <3>1, <4>1
    <3>3. m.of = q
      BY <2>1, <2>2, <3>2 DEF AnswerInv, AgeInv
    <3>4. QED
      BY <3>2, <3>3 DEF Whose
  <2>3. CASE m.age = NIds
    BY <2>3 DEF Whose
  <2>4. QED
    BY <2>2, <2>3, SizesAssumption DEF TypeOK, Answer, Age
<1>3. PendingExact'
  BY <1>1, <1>2, NoneAssumption DEF AnswerInv, PendingExact
<1>4. AgeInv'
  BY <1>1, AgesKept DEF Dispatch
<1>5. OwnAnswer'
  BY <1>1, <1>2 DEF AnswerInv, OwnAnswer
<1>6. QED
  BY <1>3, <1>4, <1>5 DEF AnswerInv

LEMMA LastChunkAnswers == ASSUME IInv, NEW r \in Requests, LastChunk(r) PROVE AnswerInv'
<1> USE DEF IInv
<1> DEFINE ans == [id |-> req[r].id, of |-> r, age |-> req[r].age]
<1>1. req[r].pc = "write" /\ nextId' = nextId
  BY DEF LastChunk
<1>2. \A q \in Requests : req'[q].pc # "idle" =>
        req[q].pc # "idle" /\ req'[q].id = req[q].id /\ req'[q].age = req[q].age
  <2>1. CASE Ends(r)
    BY <2>1, EndsLeaves DEF Idle
  <2>2. CASE req' = [req EXCEPT ![r].pc = "wait", ![r].sent = NChunks]
    BY <1>1, <2>2 DEF TypeOK, Request
  <2>3. QED
    BY <2>1, <2>2 DEF LastChunk
<1>3. \A m \in air' : m \in air \/ m = ans
  BY DEF LastChunk
<1>4. AgeInv'
  BY <1>1, <1>2, <1>3 DEF AnswerInv, AgeInv, Given
<1>5. CASE Ends(r)
  <2>1. /\ req'[r] = Idle
        /\ \A q \in Requests \ {r} : req'[q] = req[q]
        /\ \A i \in Ids : pending'[i] = IF i = req[r].id /\ pending[i] = r THEN None ELSE pending[i]
    BY <1>5, EndsLeaves
  <2>2. req'[r].pc = "idle" /\ req'[r].fut = "none"
    BY <2>1 DEF Idle
  <2>3. PendingExact' /\ OwnAnswer'
    BY <2>1, <2>2, NoneAssumption DEF AnswerInv, PendingExact, OwnAnswer
  <2>4. QED
    BY <1>4, <2>3 DEF AnswerInv
<1>6. CASE req' = [req EXCEPT ![r].pc = "wait", ![r].sent = NChunks] /\ UNCHANGED pending
  <2>1. \A q \in Requests : /\ req'[q].id = req[q].id /\ req'[q].age = req[q].age
                            /\ req'[q].fut = req[q].fut
                            /\ req'[q].pc = "idle" <=> req[q].pc = "idle"
    BY <1>1, <1>6 DEF TypeOK, Request
  <2>2. QED
    BY <1>1, <1>4, <1>6, <2>1, OthersAnswers
<1>7. QED
  BY <1>5, <1>6 DEF LastChunk

LEMMA AnswerStep == ASSUME IInv, [Next]_vars PROVE AnswerInv'
<1> USE DEF IInv
<1>1. ASSUME NEW r \in Requests, Acquire(r) PROVE AnswerInv'
  <2>1. CASE Ends(r)
    BY <1>1, <2>1, EndsAnswers DEF Acquire, wire
  <2>2. CASE req' = [req EXCEPT ![r].pc = "write"] /\ UNCHANGED pending
    <3>1. \A q \in Requests : /\ req'[q].id = req[q].id /\ req'[q].age = req[q].age
                              /\ req'[q].fut = req[q].fut
                              /\ req'[q].pc = "idle" <=> req[q].pc = "idle"
      BY <1>1, <2>2 DEF Acquire, TypeOK, Request
    <3>2. UNCHANGED <<nextId, air>>
      BY <1>1 DEF Acquire, wire
    <3>3. QED
      BY <2>2, <3>1, <3>2, AgesKept, OthersAnswers
  <2>3. QED
    BY <1>1, <2>1, <2>2 DEF Acquire
<1>2. ASSUME NEW r \in Requests, Chunk(r) \/ (Cancel(r) /\ req[r].pc = "write") PROVE AnswerInv'
  <2>1. \A q \in Requests : /\ req'[q].id = req[q].id /\ req'[q].age = req[q].age
                            /\ req'[q].fut = req[q].fut
                            /\ req'[q].pc = "idle" <=> req[q].pc = "idle"
    BY <1>2 DEF Chunk, Cancel, TypeOK, Request
  <2>2. UNCHANGED <<nextId, pending, air>>
    BY <1>2 DEF Chunk, Cancel, wire
  <2>3. QED
    BY <2>1, <2>2, AgesKept, OthersAnswers
<1>3. ASSUME NEW r \in Requests,
             WriteFails(r) \/ Leave(r) \/ (Cancel(r) /\ req[r].pc # "write")
      PROVE  AnswerInv'
  BY <1>3, EndsAnswers DEF WriteFails, Leave, StallEnds, CutEnds, WaitEnds, Cancel, wire
<1>4. ASSUME NEW r \in Requests, Stall(r) PROVE AnswerInv'
  <2> DEFINE f == [req EXCEPT ![r].pc = "stall"]
  <2>1. f \in [Requests -> Request]
    BY DEF TypeOK, Request, Writing
  <2>2. \A q \in Requests : /\ f[q].id = req[q].id /\ f[q].fut = req[q].fut
                            /\ f[q].age = req[q].age
                            /\ f[q].pc = "idle" <=> req[q].pc = "idle"
    BY <1>4 DEF Stall, TypeOK, Request
  <2>3. Detach(f) /\ UNCHANGED <<nextId, air>>
    BY <1>4 DEF Stall, wire
  <2> HIDE DEF f
  <2>4. QED
    BY <2>1, <2>2, <2>3, DetachAnswers
<1>5. ASSUME NEW m \in air, Garbled(m) PROVE AnswerInv'
  <2>1. UNCHANGED <<nextId, pending, req>> /\ \A l \in air' : l \in air
    BY <1>5 DEF Garbled
  <2>2. QED
    BY <2>1, AgesKept, OthersAnswers
<1>6. ASSUME Disconnect \/ StartConnect \/ OnDisconnected PROVE AnswerInv'
  <2>1. Detach(req) /\ UNCHANGED <<nextId, air>>
    BY <1>6 DEF Disconnect, StartConnect, OnDisconnected, wire
  <2>2. QED
    BY <2>1, DetachAnswers DEF TypeOK
<1>7. ASSUME Connected \/ ConnectFails \/ LinkDown \/ UNCHANGED vars PROVE AnswerInv'
  <2>1. UNCHANGED <<nextId, pending, req, air>>
    BY <1>7 DEF Connected, ConnectFails, LinkDown, vars, wire
  <2>2. QED
    BY <2>1, AgesKept, OthersAnswers
<1>8. QED
  BY <1>1, <1>2, <1>3, <1>4, <1>5, <1>6, <1>7, IssueAnswers, LastChunkAnswers, DispatchAnswers
     DEF Next, Write

-----------------------------------------------------------------------------
(* Frames *)

\* A step that ends a call that has nothing on the wire leaves the frame being written alone.
LEMMA EndsFrame ==
  ASSUME IInv, NEW r \in Requests, Ends(r), UNCHANGED <<link, buf, torn>>,
         ~(req[r].pc = "write" /\ req[r].sent > 0)
  PROVE  FrameOnWire'
<1>1. /\ req'[r].pc = "idle"
      /\ \A q \in Requests \ {r} : req'[q] = req[q]
  BY EndsLeaves DEF IInv, Idle
<1>2. QED
  BY <1>1 DEF IInv, FrameOnWire

LEMMA FrameStep == ASSUME IInv, [Next]_vars PROVE FrameOnWire'
<1> USE DEF IInv
<1>1. ASSUME NEW r \in Requests, Issue(r) PROVE FrameOnWire'
  <2>1. /\ req[r].pc = "idle" /\ req'[r].pc = "queue"
        /\ \A q \in Requests \ {r} : req'[q].pc = req[q].pc /\ req'[q].sent = req[q].sent
    BY <1>1, IssueLeaves
  <2>2. UNCHANGED <<link, buf, torn>>
    BY <1>1 DEF Issue, conn
  <2>3. QED
    BY <2>1, <2>2 DEF FrameOnWire
<1>2. ASSUME NEW r \in Requests, Acquire(r) PROVE FrameOnWire'
  <2>1. CASE Ends(r)
    BY <1>2, <2>1, EndsFrame DEF Acquire, conn, wire
  <2>2. CASE req' = [req EXCEPT ![r].pc = "write"]
    <3>1. req'[r].sent = 0 /\ \A q \in Requests \ {r} : req'[q] = req[q]
      BY <1>2, <2>2 DEF Acquire, TypeOK, Request, CallInv, WriterInv
    <3>2. QED
      BY <1>2, <3>1 DEF Acquire, conn, wire, FrameOnWire
  <2>3. QED
    BY <1>2, <2>1, <2>2 DEF Acquire
<1>3. ASSUME NEW r \in Requests, Chunk(r) PROVE FrameOnWire'
  <2>1. /\ req'[r].pc = "write" /\ req'[r].sent = req[r].sent + 1
        /\ \A q \in Requests \ {r} : req'[q] = req[q]
        /\ req[r].sent \in Nat /\ req[r].pc = "write" /\ link = "up"
    BY <1>3 DEF Chunk, TypeOK, Request
  <2>2. \A q \in Requests \ {r} : req[q].pc # "write"
    BY <2>1 DEF CallInv, LockInv, Writing
  <2>3. buf' = [by |-> r, n |-> req[r].sent + 1]
    BY <1>3, <2>1 DEF Chunk, Received, FrameOnWire
  <2>4. QED
    BY <2>1, <2>2, <2>3 DEF FrameOnWire
<1>4. ASSUME NEW r \in Requests, LastChunk(r) PROVE FrameOnWire'
  <2>1. req[r].pc = "write" /\ buf' = Empty
    BY <1>4 DEF LastChunk
  <2>2. \A q \in Requests \ {r} : req[q].pc # "write" /\ req'[q] = req[q]
    BY <1>4, EndsLeaves DEF LastChunk, CallInv, LockInv, Writing, TypeOK
  <2>3. req'[r].pc # "write"
    BY <1>4, EndsLeaves DEF LastChunk, TypeOK, Request, Idle
  <2>4. QED
    BY <2>1, <2>2, <2>3 DEF FrameOnWire, Empty
<1>5. ASSUME NEW r \in Requests, WriteFails(r) PROVE FrameOnWire'
  <2>1. /\ req'[r].pc = "idle"
        /\ \A q \in Requests \ {r} : req'[q] = req[q]
        /\ req[r].pc = "write" /\ UNCHANGED <<link, buf>>
        /\ torn' = (torn \/ (link = "up" /\ req[r].sent > 0))
    BY <1>5, EndsLeaves DEF WriteFails, Idle, conn
  <2>2. \A q \in Requests \ {r} : req[q].pc # "write"
    BY <2>1 DEF CallInv, LockInv, Writing
  <2>3. QED
    BY <2>1, <2>2 DEF FrameOnWire
<1>6. ASSUME NEW r \in Requests, Leave(r) PROVE FrameOnWire'
  BY <1>6, EndsFrame DEF Leave, StallEnds, CutEnds, WaitEnds, conn, wire
<1>7. ASSUME NEW r \in Requests, Cancel(r) PROVE FrameOnWire'
  <2>1. CASE req[r].pc \in {"queue", "wait"} /\ Ends(r) /\ UNCHANGED <<conn, nextId, wire>>
    BY <2>1, EndsFrame DEF conn, wire
  <2>2. CASE req' = [req EXCEPT ![r].cancel = TRUE] /\ UNCHANGED <<conn, holder, pending, nextId, wire>>
    <3>1. \A q \in Requests : req'[q].sent = req[q].sent /\ req'[q].pc = req[q].pc
      BY <2>2 DEF TypeOK, Request
    <3>2. QED
      BY <2>2, <3>1 DEF FrameOnWire, conn, wire
  <2>3. QED
    BY <1>7, <2>1, <2>2 DEF Cancel
<1>8. ASSUME NEW m \in air, Dispatch(m) \/ Garbled(m) PROVE FrameOnWire'
  <2>1. \A q \in Requests : req'[q].sent = req[q].sent /\ req'[q].pc = req[q].pc
    BY <1>8, DispatchLeaves DEF Garbled
  <2>2. QED
    BY <1>8, <2>1 DEF Dispatch, Garbled, FrameOnWire, conn
<1>9. ASSUME \/ \E r \in Requests : Stall(r)
             \/ Disconnect \/ StartConnect \/ OnDisconnected
      PROVE  FrameOnWire'
  BY <1>9 DEF Stall, Disconnect, StartConnect, OnDisconnected, Detach, FrameOnWire
<1>10. ASSUME Connected PROVE FrameOnWire'
  <2>1. \A q \in Requests : req[q].pc # "write"
    BY <1>10 DEF Connected, CallInv, EraInv, WriterInv
  <2>2. QED
    BY <1>10, <2>1 DEF Connected, FrameOnWire, Empty
<1>11. ASSUME ConnectFails \/ LinkDown PROVE FrameOnWire'
  BY <1>11 DEF ConnectFails, LinkDown, FrameOnWire, wire
<1>12. CASE UNCHANGED vars
  BY <1>12 DEF FrameOnWire, vars
<1>13. QED
  BY <1>1, <1>2, <1>3, <1>4, <1>5, <1>6, <1>7, <1>8, <1>9, <1>10, <1>11, <1>12 DEF Next, Write

-----------------------------------------------------------------------------
LEMMA InvInit == Init => IInv
<1> SUFFICES ASSUME Init PROVE IInv
  OBVIOUS
<1>1. TypeOK
  BY TypeInit
<1>2. \A r \in Requests : req[r].pc = "idle" /\ req[r].gen = 0 /\ req[r].fut = "none"
  BY DEF Init, Idle
<1>3. CallInv
  BY <1>2, NoneAssumption DEF Init, CallInv, LockInv, NoWaiterLeftBehind, GenInv, EraInv,
                              WriterInv, Writing
<1>4. AnswerInv /\ FrameOnWire
  BY <1>2, NoneAssumption DEF Init, AnswerInv, PendingExact, AgeInv, OwnAnswer, FrameOnWire
<1>5. QED
  BY <1>1, <1>3, <1>4 DEF IInv

\* The inductive invariant behind the theorems below.
THEOREM Invariance == Spec => []IInv
<1>1. IInv /\ [Next]_vars => IInv'
  BY TypeStep, CallStep, AnswerStep, FrameStep DEF IInv
<1>2. QED
  BY InvInit, <1>1, PTL DEF Spec

\* The driver's variables keep their types, whatever the number of ids and the frame length.
THEOREM TypeCorrect == Spec => []TypeOK
<1>1. IInv => TypeOK
  BY DEF IInv
<1>2. QED
  BY Invariance, <1>1, PTL

\* Frames on the wire are whole (MS605._write_frame()).
THEOREM FrameOnWireAlways == Spec => []FrameOnWire
<1>1. IInv => FrameOnWire
  BY DEF IInv
<1>2. QED
  BY Invariance, <1>1, PTL

\* A request is only ever written to the link it was made on (MS605._link_gen).
THEOREM OwnLinkAlways == Spec => []OwnLinkOnly
<1>1. IInv => OwnLinkOnly
  BY DEF IInv, CallInv, WriterInv, EraInv, OwnLinkOnly
<1>2. QED
  BY Invariance, <1>1, PTL

\* A response that fewer than NIds requests followed reaches only the request that caused it,
\* although ids are given out again whoever still waits with them (MS605._dispatch()).
THEOREM OwnAnswerAlways == Spec => []OwnAnswer
<1>1. IInv => OwnAnswer
  BY DEF IInv, AnswerInv
<1>2. QED
  BY Invariance, <1>1, PTL

\* No waiter is forgotten, lingers, or waits for a link that was let go, but one whose id was
\* given out again (MS605._detach(), and the `finally` of MS605._request()).
THEOREM WaitersAlways == Spec => [](PendingExact /\ NoWaiterLeftBehind)
<1>1. IInv => PendingExact /\ NoWaiterLeftBehind
  BY DEF IInv, CallInv, AnswerInv
<1>2. QED
  BY Invariance, <1>1, PTL
=============================================================================
