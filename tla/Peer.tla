-------------------------------- MODULE Peer --------------------------------
(***************************************************************************)
(* One browser as a radio (src/ms605/gui/browser_ble.py): the driver's     *)
(* GATT calls become requests to the browser, which carries them out with  *)
(* Web Bluetooth (src/web/src/api/bluetooth.ts) and answers each.  The     *)
(* peer is one connection to /ws/ble: another one gets another address.    *)
(*                                                                         *)
(* A call is named by the id of its request.  Its task runs only some time *)
(* after what it waits for is settled, and messages that arrive meanwhile  *)
(* come first.  The 256 places of `retired` are never used up: a browser   *)
(* that leaves a request unanswered for 10 s closes the bridge.            *)
(***************************************************************************)
EXTENDS Naturals, SequencesExt

CONSTANTS
  MaxRequests,   \* bound on the requests
  MaxClients,    \* bound on the driver's clients
  MaxNotified,   \* bound on the notifications
  MaxDrops       \* bound on the links that drop

VARIABLES
  peer,     \* "open", "closed" (closed here or there), "refused" (1008), "failed" (serve() raised)
  op,       \* the operations asked for: op[i] of request i
  owner,    \* the client of each call
  pc,       \* where its task is: "sending", "waiting", "failing", "ended"
  fut,      \* its future: "waiting", "ok", "error", "cancelled"
  pending,  \* _Peer.pending
  retired,  \* _Peer.retired_set
  active,   \* _Peer.active, 0 for none
  conn,     \* the clients with _connected
  usable,   \* the clients whose start_notify() succeeded: the driver's
  browser,  \* [link, chars, notifying, intent]: notifying is the connect it serves, 0 for no listener
  toBrowser, toServer,  \* the socket's two directions
  stray,    \* ghost: a client was given a notification of another link than its own
  count     \* bounds: [clients, notified, drops]

calls == <<op, owner, pc, fut>>
ends == <<active, conn, usable>>
peerVars == <<peer, calls, pending, retired, ends, browser, toBrowser, toServer, stray, count>>

Ids == 1..Len(op)
Clients == 1..MaxClients
Open == peer = "open"
InFlight == {i \in Ids : pc[i] # "ended"}
NoLink == [link |-> FALSE, chars |-> FALSE, notifying |-> 0, intent |-> FALSE]

PeerInit ==
  /\ peer = "open" /\ op = <<>> /\ owner = <<>> /\ pc = <<>> /\ fut = <<>>
  /\ pending = {} /\ retired = {}
  /\ active = 0 /\ conn = {} /\ usable = {}
  /\ browser = NoLink /\ toBrowser = <<>> /\ toServer = <<>>
  /\ stray = FALSE
  /\ count = [clients |-> 0, notified |-> 0, drops |-> 0]

\* The request that made a client's link.
LinkOf(k) == CHOOSE i \in Ids : owner[i] = k /\ op[i] = "connect"

-----------------------------------------------------------------------------
(* What ends a link *)

\* Mutant of LinkLost: the requests given up are forgotten.
LinkLostForgets(why) ==
  /\ pending' = {} /\ retired' = retired
  /\ fut' = [i \in Ids |-> IF i \in pending /\ fut[i] = "waiting" THEN "error" ELSE fut[i]]
  /\ active' = 0 /\ conn' = conn \ {active}

\* link_lost(): every waiting call fails, the active client is told.  `why`: the ids of a call
\* that failed on its own.
LinkLost(why) ==
  /\ pending' = {} /\ retired' = retired \cup pending \cup why
  /\ fut' = [i \in Ids |-> IF i \in pending \ why /\ fut[i] = "waiting" THEN "error" ELSE fut[i]]
  /\ active' = 0 /\ conn' = conn \ {active}

\* serve() ends: the peer is removed and closed; the browser drops the link with the socket.
ServeEnds(how) ==
  /\ peer' = how
  /\ LinkLost({})
  /\ browser' = NoLink /\ toBrowser' = <<>> /\ toServer' = <<>>

-----------------------------------------------------------------------------
(* The driver's calls *)

Rpc(k, o) ==
  /\ Open /\ Len(op) < MaxRequests
  /\ op' = Append(op, o) /\ owner' = Append(owner, k)
  /\ pc' = Append(pc, "sending") /\ fut' = Append(fut, "waiting")
  /\ pending' = pending \cup {Len(op) + 1}
  /\ UNCHANGED <<peer, retired, browser, toBrowser, toServer, stray>>

\* MS605.connect() makes a new client; the calls of the client before it have ended by then.
Connect ==
  /\ InFlight = {} /\ count.clients < MaxClients
  /\ conn \cap usable = {}
  /\ count' = [count EXCEPT !.clients = @ + 1]
  /\ active' = count.clients + 1
  /\ Rpc(count.clients + 1, "connect")
  /\ UNCHANGED <<conn, usable>>

StartNotify(k) ==
  /\ InFlight = {} /\ k = count.clients /\ k \in conn \ usable
  /\ \A i \in Ids : owner[i] = k => op[i] = "connect"
  /\ Rpc(k, "start_notify")
  /\ UNCHANGED <<ends, count>>

WriteChar(k) ==
  /\ InFlight = {} /\ k \in usable \cap conn
  /\ Rpc(k, "write")
  /\ UNCHANGED <<ends, count>>

\* Also after a connect() that failed, or with a write under way.
Disconnect(k) ==
  /\ k = count.clients /\ \A i \in InFlight : op[i] = "write"
  /\ \E i \in Ids : owner[i] = k /\ op[i] = "connect"
  /\ \A i \in Ids : owner[i] = k => op[i] # "disconnect"
  /\ Rpc(k, "disconnect")
  /\ usable' = usable \ {k}
  /\ UNCHANGED <<active, conn, count>>

\* The lock of send() is first come, first served.
Sent(i) ==
  /\ Open /\ pc[i] = "sending" /\ \A j \in 1..(i - 1) : pc[j] # "sending"
  /\ pc' = [pc EXCEPT ![i] = "waiting"]
  /\ toBrowser' = Append(toBrowser, i)
  /\ UNCHANGED <<peer, op, owner, fut, pending, retired, ends, browser, toServer, stray, count>>

\* wait_for() gives up, or the caller is cancelled: the future is cancelled at once, the task
\* learns of it later.
GivesUp(i) ==
  /\ pc[i] \in {"sending", "waiting"}
  /\ pc' = [pc EXCEPT ![i] = "failing"]
  /\ fut' = [fut EXCEPT ![i] = IF pc[i] = "waiting" /\ @ = "waiting" THEN "cancelled" ELSE @]
  /\ UNCHANGED <<peer, op, owner, pending, retired, ends, browser, toBrowser, toServer, stray, count>>

Succeeds(i) ==
  /\ pc[i] = "waiting" /\ fut[i] = "ok"
  /\ pc' = [pc EXCEPT ![i] = "ended"]
  /\ conn' = CASE op[i] = "connect" -> conn \cup {owner[i]}
               [] op[i] = "disconnect" -> conn \ {owner[i]}
               [] OTHER -> conn
  /\ usable' = IF op[i] = "start_notify" THEN usable \cup {owner[i]} ELSE usable
  /\ active' = IF op[i] = "disconnect" /\ active = owner[i] THEN 0 ELSE active
  /\ UNCHANGED <<peer, op, owner, fut, pending, retired, browser, toBrowser, toServer, stray, count>>

Failing(i) == \/ pc[i] = "failing"
              \/ pc[i] = "waiting" /\ fut[i] = "error"

\* Mutant of Fails: a late answer to a request given up is not expected.
FailsUnretired(i) ==
  /\ Failing(i)
  /\ pc' = [pc EXCEPT ![i] = "ended"]
  /\ pending' = {} /\ retired' = retired \cup (pending \ {i})
  /\ fut' = [j \in Ids |-> IF j \in pending \ {i} /\ fut[j] = "waiting" THEN "error" ELSE fut[j]]
  /\ active' = 0 /\ conn' = conn \ {active}
  /\ UNCHANGED <<peer, op, owner, usable, browser, toBrowser, toServer, stray, count>>

\* Whatever made a call fail, the link counts as lost.
Fails(i) ==
  /\ Failing(i)
  /\ pc' = [pc EXCEPT ![i] = "ended"]
  /\ LinkLost({i} \cap pending)
  /\ UNCHANGED <<peer, op, owner, usable, browser, toBrowser, toServer, stray, count>>

-----------------------------------------------------------------------------
(* The server's receive loop *)

Result(id, value) == [type |-> "result", id |-> id, value |-> value]
Notification(id) == [type |-> "notify", id |-> id, value |-> "ok"]
Disconnected == [type |-> "disconnected", id |-> 0, value |-> "ok"]

\* A message of the browser that is next in line.
Receiving(type) == Open /\ toServer # <<>> /\ Head(toServer).type = type

LateResult ==
  /\ Receiving("result") /\ Head(toServer).id \in retired
  /\ retired' = retired \ {Head(toServer).id}
  /\ toServer' = Tail(toServer)
  /\ UNCHANGED <<peer, calls, pending, ends, browser, toBrowser, stray, count>>

ExpectedResult ==
  /\ Receiving("result")
  /\ LET m == Head(toServer) IN
     /\ m.id \in pending \ retired /\ fut[m.id] # "cancelled"
     /\ pending' = pending \ {m.id}
     /\ fut' = [fut EXCEPT ![m.id] = m.value]
  /\ toServer' = Tail(toServer)
  /\ UNCHANGED <<peer, op, owner, pc, retired, ends, browser, toBrowser, stray, count>>

\* The future was cancelled, but its task has not cleaned up yet: set_result() raises
\* InvalidStateError, which serve() does not catch.
CancelledResult ==
  /\ Receiving("result") /\ Head(toServer).id \in pending \ retired
  /\ fut[Head(toServer).id] = "cancelled"
  /\ ServeEnds("failed")
  /\ UNCHANGED <<op, owner, pc, usable, stray, count>>

UnexpectedResult ==
  /\ Receiving("result") /\ Head(toServer).id \notin pending \cup retired
  /\ ServeEnds("refused")
  /\ UNCHANGED <<op, owner, pc, usable, stray, count>>

\* Mutant of Notified: a client takes notifications before it is connected.
NotifiedEarly ==
  /\ Receiving("notify")
  /\ stray' = (stray \/ (active # 0 /\ LinkOf(active) # Head(toServer).id))
  /\ toServer' = Tail(toServer)
  /\ UNCHANGED <<peer, calls, pending, retired, ends, browser, toBrowser, count>>

Notified ==
  /\ Receiving("notify")
  /\ stray' = (stray \/ (active \in conn /\ LinkOf(active) # Head(toServer).id))
  /\ toServer' = Tail(toServer)
  /\ UNCHANGED <<peer, calls, pending, retired, ends, browser, toBrowser, count>>

LinkReportedLost ==
  /\ Receiving("disconnected")
  /\ LinkLost({})
  /\ toServer' = Tail(toServer)
  /\ UNCHANGED <<peer, op, owner, pc, usable, browser, toBrowser, stray, count>>

\* release() or the end of the socket; calls still waiting fail.
Close ==
  /\ Open /\ ServeEnds("closed")
  /\ UNCHANGED <<op, owner, pc, usable, stray, count>>

-----------------------------------------------------------------------------
(* The browser *)

\* An operation done, or failed, and answered.
Answer(i, value, new) ==
  /\ browser' = new
  /\ toServer' = Append(toServer, Result(i, value))

\* The browser's promise chain: one request after the other.
Carry(i) == toBrowser # <<>> /\ Head(toBrowser) = i /\ toBrowser' = Tail(toBrowser)

BrowserDoes(i) ==
  /\ Open /\ Carry(i)
  /\ \/ /\ op[i] = "connect"
        /\ \/ Answer(i, "ok", [link |-> TRUE, chars |-> TRUE, notifying |-> 0, intent |-> FALSE])
           \/ \E up \in BOOLEAN : Answer(i, "error", [browser EXCEPT !.link = up, !.chars = FALSE, !.notifying = 0])
     \/ /\ op[i] = "start_notify" /\ browser.link /\ browser.chars
        /\ Answer(i, "ok", [browser EXCEPT !.notifying = LinkOf(owner[i])])
     \/ op[i] = "write" /\ browser.link /\ browser.chars /\ Answer(i, "ok", browser)
     \/ /\ op[i] = "disconnect"
        /\ Answer(i, "ok", [NoLink EXCEPT !.intent = TRUE])
     \/ op[i] \in {"start_notify", "write"} /\ Answer(i, "error", browser)
  /\ UNCHANGED <<peer, calls, pending, retired, ends, stray, count>>

\* The sensor pushes a frame; the listener passes it on.
Notify ==
  /\ Open /\ browser.notifying # 0 /\ count.notified < MaxNotified
  /\ toServer' = Append(toServer, Notification(browser.notifying))
  /\ count' = [count EXCEPT !.notified = @ + 1]
  /\ UNCHANGED <<peer, calls, pending, retired, ends, browser, toBrowser, stray>>

LinkDrops ==
  /\ Open /\ browser.link /\ count.drops < MaxDrops
  /\ browser' = [NoLink EXCEPT !.intent = browser.intent]
  /\ toServer' = IF browser.intent THEN toServer ELSE Append(toServer, Disconnected)
  /\ count' = [count EXCEPT !.drops = @ + 1]
  /\ UNCHANGED <<peer, calls, pending, retired, ends, toBrowser, stray>>

-----------------------------------------------------------------------------
PeerNext ==
  \/ Connect \/ \E k \in Clients : StartNotify(k) \/ WriteChar(k) \/ Disconnect(k)
  \/ \E i \in Ids : Sent(i) \/ GivesUp(i) \/ Succeeds(i) \/ Fails(i) \/ BrowserDoes(i)
  \/ LateResult \/ ExpectedResult \/ CancelledResult \/ UnexpectedResult
  \/ Notified \/ LinkReportedLost \/ Close
  \/ Notify \/ LinkDrops

PeerSpec == PeerInit /\ [][PeerNext]_peerVars

-----------------------------------------------------------------------------
(* Properties *)

\* A browser that answers every request once is never refused (1008), however late its answers
\* come: an id is pending or retired until its answer is there (browser_ble.py:159).
AnswersAreExpected == peer # "refused"

\* A client the driver uses has a link: once nothing is under way, `is_connected` means that the
\* browser is connected and listens for this client, not for an earlier one.
ConnectedIsLinked ==
  Open /\ InFlight = {} /\ toBrowser = <<>> /\ toServer = <<>> =>
    \A k \in conn \cap usable : k = active /\ browser.link /\ browser.notifying = LinkOf(k)

\* What a client is given was pushed over its own link.
OwnNotifications == ~stray

\* tests/test_gui_browser_ble.py:329 "late result ... does not close reconnectable peer".
LateResultIsHarmless == peer # "failed"
=============================================================================
