------------------------------- MODULE Driver -------------------------------
(***************************************************************************)
(* The request path of the BLE driver (src/ms605/driver.py, class MS605):  *)
(* how concurrent requests share one GATT characteristic.  A request takes *)
(* a message id, waits for the send lock, writes its frame chunk by chunk  *)
(* and waits for the response with its id, while the link drops, stalls,   *)
(* is disconnected and comes back under it.                                *)
(*                                                                         *)
(* When and why the link is opened is Session.tla's subject: here it comes *)
(* and goes.  The send lock is an asyncio.Lock, served in order; the order *)
(* only matters for progress and is a fairness assumption.                 *)
(*                                                                         *)
(* The ids come round.  How many requests were made since a request or the *)
(* answer to it is its age, a history variable: no guard reads it.         *)
(***************************************************************************)
EXTENDS Naturals, FiniteSets

CONSTANTS
  Requests,   \* concurrent _request() calls
  None,
  NIds,       \* message ids roll 1..NIds (255 in the code)
  NChunks,    \* chunks in a frame
  MaxGen,     \* bound on _link_gen
  MaxLinks,   \* bound on the number of links
  MaxAir      \* bound on the responses on their way at once

ASSUME SizesAssumption == NIds \in Nat \ {0} /\ NChunks \in Nat \ {0}
ASSUME BoundsAssumption == MaxGen \in Nat /\ MaxLinks \in Nat /\ MaxAir \in Nat
ASSUME NoneAssumption == None \notin Requests

VARIABLES
  link,      \* _client: "none", or a client whose link is "up" or "down" (callback to come)
  era,       \* which link that is, counted from 1
  gen,       \* _link_gen
  opening,   \* connect() is between its _detach() and `self._client = client`
  req,       \* the requests
  holder,    \* holder of _send_lock
  pending,   \* _pending: message id -> request
  nextId,    \* _msg_ids
  buf,       \* the sensor's reassembly buffer: whose chunks, and how many
  torn,      \* buf holds the start of a frame whose write the backend failed
  air        \* responses on their way (two of one request slot beyond NIds requests' age are one)

vars == <<link, era, gen, opening, req, holder, pending, nextId, buf, torn, air>>
conn == <<link, era, gen, opening>>
wire == <<buf, torn, air>>

Ids == 1..NIds

\* Requests made since, counted to NIds: then the id has been given out again.
Age == 0..NIds

Answer == [id : Ids, of : Requests, age : Age]

\* "cut": a writer whose link was detached; "stall": it abandoned the link itself and waits,
\* with the lock, for the old client to disconnect.
Writing == {"write", "cut", "stall"}

Request == [pc : {"idle", "queue", "wait"} \cup Writing,
            id : Ids,
            gen : Nat,         \* link_gen when it was issued
            on : Nat,          \* the link it was issued on; 0 if there was none
            age : Age,
            fut : {"none", "own", "late", "other", "lost"},  \* response future: whose answer, or failed
            cancel : BOOLEAN,  \* cancelled while its frame was being written
            sent : Nat]        \* chunks written

TypeOK ==
  /\ link \in {"none", "up", "down"}
  /\ era \in Nat /\ gen \in Nat /\ opening \in BOOLEAN
  /\ req \in [Requests -> Request]
  /\ holder \in Requests \cup {None}
  /\ pending \in [Ids -> Requests \cup {None}]
  /\ nextId \in Ids
  /\ buf \in [by : Requests \cup {None}, n : Nat]
  /\ torn \in BOOLEAN
  /\ air \in SUBSET Answer

Idle == [pc |-> "idle", id |-> 1, gen |-> 0, on |-> 0, age |-> 0, fut |-> "none",
         cancel |-> FALSE, sent |-> 0]
Empty == [by |-> None, n |-> 0]

Init ==
  /\ link = "none" /\ era = 0 /\ gen = 0 /\ opening = FALSE
  /\ req = [r \in Requests |-> Idle]
  /\ holder = None
  /\ pending = [i \in Ids |-> None]
  /\ nextId = 1
  /\ buf = Empty /\ torn = FALSE /\ air = {}

-----------------------------------------------------------------------------
(* What several steps share *)

\* msg_id_sequence(): 0 is the sensor's own.
Roll(i) == IF i = NIds THEN 1 ELSE i + 1

\* The call returns or raises: its `finally` and the lock's __aexit__.
Ends(r) == /\ req' = [req EXCEPT ![r] = Idle]
           /\ holder' = IF holder = r THEN None ELSE holder
           /\ pending' = [i \in Ids |-> IF i = req[r].id /\ pending[i] = r THEN None ELSE pending[i]]

\* _detach(): the writer's frame is abandoned and every registered waiter fails.
Detached(f) ==
  [r \in Requests |-> [f[r] EXCEPT !.pc = IF @ = "write" THEN "cut" ELSE @,
                                   !.fut = IF pending[f[r].id] = r THEN "lost" ELSE @]]

Detach(f) == /\ gen < MaxGen
             /\ gen' = gen + 1
             /\ link' = "none"
             /\ req' = Detached(f)
             /\ pending' = [i \in Ids |-> None]

-----------------------------------------------------------------------------
(* One request *)

\* A request or an answer when one more request is made.
Older(x) == [x EXCEPT !.age = IF @ = NIds THEN NIds ELSE @ + 1]

\* _request() is called, with or without a link.  It takes the next id whoever still has it: a
\* call that waits with this id is registered no longer.
Issue(r) ==
  /\ req[r].pc = "idle"
  /\ req' = [q \in Requests |->
               IF q = r THEN [Idle EXCEPT !.pc = "queue", !.id = nextId, !.gen = gen,
                                          !.on = IF link = "none" THEN 0 ELSE era]
               ELSE IF req[q].pc = "idle" THEN req[q] ELSE Older(req[q])]
  /\ pending' = [pending EXCEPT ![nextId] = r]
  /\ nextId' = Roll(nextId)
  /\ air' = {Older(m) : m \in air}
  /\ UNCHANGED <<conn, holder, buf, torn>>

\* Mutant of Acquire: whatever link there is now will do.
AcquireUnchecked(r) ==
  /\ req[r].pc = "queue" /\ holder = None
  /\ IF link = "none"
     THEN Ends(r)
     ELSE /\ holder' = r
          /\ req' = [req EXCEPT ![r].pc = "write"]
          /\ UNCHANGED pending
  /\ UNCHANGED <<conn, nextId, wire>>

\* The send lock is r's: nothing is written if the link was reset since, or there is none.
Acquire(r) ==
  /\ req[r].pc = "queue" /\ holder = None
  /\ IF req[r].gen # gen \/ link = "none"
     THEN Ends(r)
     ELSE /\ holder' = r
          /\ req' = [req EXCEPT ![r].pc = "write"]
          /\ UNCHANGED pending
  /\ UNCHANGED <<conn, nextId, wire>>

\* The buffer after r's next chunk: a first chunk starts afresh, a later one must continue.
Received(r) == IF req[r].sent = 0 THEN [by |-> r, n |-> 1]
               ELSE IF buf = [by |-> r, n |-> req[r].sent] THEN [buf EXCEPT !.n = @ + 1]
               ELSE Empty

Chunk(r) ==
  /\ req[r].pc = "write" /\ link = "up"
  /\ req[r].sent + 1 < NChunks
  /\ buf' = Received(r)
  /\ torn' = FALSE
  /\ req' = [req EXCEPT ![r].sent = @ + 1]
  /\ UNCHANGED <<conn, holder, pending, nextId, air>>

\* The last chunk: the lock is free and, unless it was cancelled meanwhile, r awaits the answer.
LastChunk(r) ==
  /\ req[r].pc = "write" /\ link = "up"
  /\ req[r].sent + 1 = NChunks
  /\ \/ air' = air
     \/ /\ Received(r).n = NChunks /\ Cardinality(air) < MaxAir
        /\ air' = air \cup {[id |-> req[r].id, of |-> r, age |-> req[r].age]}
  /\ buf' = Empty /\ torn' = FALSE
  /\ IF req[r].cancel
     THEN Ends(r)
     ELSE /\ holder' = None
          /\ req' = [req EXCEPT ![r].pc = "wait", ![r].sent = NChunks]
          /\ UNCHANGED pending
  /\ UNCHANGED <<conn, nextId>>

\* write_gatt_char() raises, as it does once the link is down.
WriteFails(r) ==
  /\ req[r].pc = "write"
  /\ Ends(r)
  /\ torn' = (torn \/ (link = "up" /\ req[r].sent > 0))
  /\ UNCHANGED <<conn, nextId, buf, air>>

\* The write misses its deadline: the link is abandoned.
Stall(r) ==
  /\ req[r].pc = "write"
  /\ Detach([req EXCEPT ![r].pc = "stall"])
  /\ UNCHANGED <<era, opening, holder, nextId, wire>>

\* Mutant of StallEnds: leaves without the lock's __aexit__.
StallEndsHolding(r) ==
  /\ req[r].pc = "stall"
  /\ req' = [req EXCEPT ![r] = Idle]
  /\ UNCHANGED <<conn, holder, pending, nextId, wire>>

\* The abandoned client disconnected, or 5 s passed.
StallEnds(r) == /\ req[r].pc = "stall"
                /\ Ends(r)
                /\ UNCHANGED <<conn, nextId, wire>>

\* A writer whose link was detached notices.
CutEnds(r) == /\ req[r].pc = "cut"
              /\ Ends(r)
              /\ UNCHANGED <<conn, nextId, wire>>

\* The response future is done, or its time is up.
WaitEnds(r) == /\ req[r].pc = "wait"
               /\ Ends(r)
               /\ UNCHANGED <<conn, nextId, wire>>

\* Mutant of Cancel: honoured at once, also in the middle of a frame.
CancelCutsFrame(r) == /\ req[r].pc \in {"queue", "wait", "write"}
                      /\ Ends(r)
                      /\ UNCHANGED <<conn, nextId, wire>>

\* Task.cancel(): a frame that has begun is finished first.
Cancel(r) ==
  \/ /\ req[r].pc \in {"queue", "wait"}
     /\ Ends(r)
     /\ UNCHANGED <<conn, nextId, wire>>
  \/ /\ req[r].pc = "write"
     /\ req' = [req EXCEPT ![r].cancel = TRUE]
     /\ UNCHANGED <<conn, holder, pending, nextId, wire>>

-----------------------------------------------------------------------------
(* Responses and the link *)

\* Whose answer m is to the call r that takes it: its own, one from before the ids came round,
\* or another call's.
Whose(m, r) == IF m.age = NIds THEN "late"
               ELSE IF m.of = r /\ m.age = req[r].age THEN "own" ELSE "other"

\* Mutant of Dispatch: answers are taken in order, not by id.
DispatchAny(m) ==
  /\ m \in air
  /\ air' = air \ {m}
  /\ \E i \in Ids, r \in Requests :
       /\ pending[i] = r
       /\ pending' = [pending EXCEPT ![i] = None]
       /\ req' = [req EXCEPT ![r].fut = Whose(m, r)]
  /\ UNCHANGED <<conn, holder, nextId, buf, torn>>

\* _dispatch(): the response resolves the waiter with its id, if there still is one.
Dispatch(m) ==
  /\ m \in air
  /\ air' = air \ {m}
  /\ LET r == pending[m.id] IN
     IF r = None THEN UNCHANGED <<pending, req>>
     ELSE /\ pending' = [pending EXCEPT ![m.id] = None]
          /\ req' = [req EXCEPT ![r].fut = Whose(m, r)]
  /\ UNCHANGED <<conn, holder, nextId, buf, torn>>

\* A bad CRC, or half a response in a reassembler that a detach replaced.
Garbled(m) == /\ m \in air
              /\ air' = air \ {m}
              /\ UNCHANGED <<conn, req, holder, pending, nextId, buf, torn>>

\* disconnect()
Disconnect == /\ Detach(req)
              /\ UNCHANGED <<era, opening, holder, nextId, wire>>

\* reconnect(), up to the client's own connect().
StartConnect == /\ ~opening
                /\ Detach(req)
                /\ opening' = TRUE
                /\ UNCHANGED <<era, holder, nextId, wire>>

\* connect() succeeds, also after a disconnect() in between: the session drops that link again.
Connected == /\ opening
             /\ era < MaxLinks
             /\ opening' = FALSE
             /\ link' = "up"
             /\ era' = era + 1
             /\ buf' = Empty /\ torn' = FALSE
             /\ UNCHANGED <<gen, req, holder, pending, nextId, air>>

ConnectFails == /\ opening
                /\ opening' = FALSE
                /\ UNCHANGED <<link, era, gen, req, holder, pending, nextId, wire>>

LinkDown == /\ link = "up"
            /\ link' = "down"
            /\ UNCHANGED <<era, gen, opening, req, holder, pending, nextId, wire>>

OnDisconnected == /\ link = "down"
                  /\ Detach(req)
                  /\ UNCHANGED <<era, opening, holder, nextId, wire>>

-----------------------------------------------------------------------------
Write(r) == Chunk(r) \/ LastChunk(r) \/ WriteFails(r)
Leave(r) == StallEnds(r) \/ CutEnds(r) \/ WaitEnds(r)

Next == \/ \E r \in Requests : \/ Issue(r) \/ Acquire(r) \/ Write(r) \/ Leave(r)
                               \/ Stall(r) \/ Cancel(r)
        \/ \E m \in air : Dispatch(m) \/ Garbled(m)
        \/ Disconnect \/ StartConnect \/ Connected \/ ConnectFails
        \/ LinkDown \/ OnDisconnected

Spec == Init /\ [][Next]_vars

\* A write ends (it has a deadline), the waits for an answer and for an abandoned client time
\* out, and the send lock is served in order.
Fairness == \A r \in Requests : WF_vars(Write(r)) /\ WF_vars(Leave(r)) /\ SF_vars(Acquire(r))

FairSpec == Spec /\ Fairness

-----------------------------------------------------------------------------
(* Properties *)

\* The sensor sees whole frames: what is in its buffer is what the one current writer has
\* written so far, so no frame is interleaved with another or cut short by a cancel
\* (_write_frame(): the lock and the finish-before-cancel rule).  Only a write the backend
\* itself failed may leave a stump.
FrameOnWire ==
  link = "up" =>
    /\ \A r \in Requests : req[r].pc = "write" /\ req[r].sent > 0
                             => buf = [by |-> r, n |-> req[r].sent]
    /\ buf.n > 0 /\ ~torn => \E r \in Requests : req[r].pc = "write" /\ req[r].sent > 0

\* A request made on one link is never written to the next one, however long it waited for the
\* lock (_link_gen): its caller was told that it failed.
OwnLinkOnly == \A r \in Requests : req[r].pc = "write" => req[r].on \in {0, era}

\* A response reaches the request that caused it or nobody, also when others timed out, were
\* cancelled or lost their link while it was on its way (_dispatch(), the `finally` of
\* _request()), as long as fewer than NIds requests were made since that one.  An answer that is
\* NIds requests late ("late") has an id that was given out again, and reaches its new owner.
OwnAnswer == \A r \in Requests : req[r].fut # "other"

\* _pending holds exactly the calls that still wait and whose id was not given out again: none
\* of them is forgotten, none lingers to catch a later answer with its id.
PendingExact ==
  \A r \in Requests, i \in Ids :
    pending[i] = r <=> /\ req[r].pc # "idle" /\ req[r].id = i
                       /\ req[r].fut = "none" /\ req[r].age < NIds

\* Nobody waits for an answer from a link that was let go: every such waiter has failed, but
\* one whose id was given out again, which waits for its time-out.
NoWaiterLeftBehind ==
  \A r \in Requests :
    req[r].pc # "idle" /\ req[r].fut = "none" => req[r].gen = gen \/ req[r].age = NIds

\* Every request ends, also those queued behind a stalled write.
RequestsEnd == \A r \in Requests : req[r].pc # "idle" ~> req[r].pc = "idle"
=============================================================================
