------------------------------ MODULE MCFront ------------------------------
(* What stands between users and a session, in parts that share no state: a *)
(* behaviour is one of a session's live output, of the hub, of the live     *)
(* feed, of a browser peer, or of a command of the command line.            *)
EXTENDS Live, Hub, LiveFeed, Peer, Console

VARIABLE part

frontVars == <<vars, hubVars, feedVars, peerVars, consoleVars, part>>

\* The part that runs starts anywhere it may, the others stay where they are.
FrontInit ==
  /\ part \in {"live", "hub", "feed", "peer", "console"}
  /\ Init /\ HubInit /\ FeedInit /\ PeerInit /\ ConsoleInit
  /\ part # "hub" => ~core.gathering /\ \A d \in Sensors : core.sensor[d] = NoSensor
  /\ part # "console" => command = [kind |-> "flow", gather |-> "none", flag |-> TRUE]

FrontNext ==
  \/ part = "live" /\ Next /\ UNCHANGED <<hubVars, feedVars, peerVars, consoleVars, part>>
  \/ part = "hub" /\ HubNext /\ UNCHANGED <<vars, feedVars, peerVars, consoleVars, part>>
  \/ part = "feed" /\ FeedNext /\ UNCHANGED <<vars, hubVars, peerVars, consoleVars, part>>
  \/ part = "peer" /\ PeerNext /\ UNCHANGED <<vars, hubVars, feedVars, consoleVars, part>>
  \/ part = "console" /\ ConsoleNext /\ UNCHANGED <<vars, hubVars, feedVars, peerVars, part>>

FrontSpec == FrontInit /\ [][FrontNext]_frontVars
=============================================================================
