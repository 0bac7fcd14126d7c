----------------------------- MODULE MCRegistry -----------------------------
(* The data directory, in two parts that share no state: a behaviour is one *)
(* of the registry, the history and the snapshots, or of the GUIs that come  *)
(* and go with their certificates, token and lock in it.                    *)
EXTENDS Registry, Launcher, TLC

VARIABLE part

allVars == <<vars, launcherVars, part>>

MCInit ==
  /\ part \in {"registry", "launcher"}
  /\ Init /\ LauncherInit
  /\ part = "launcher" => host = CHOOSE h \in Hosts : TRUE

MCNext ==
  \/ part = "registry" /\ Next /\ UNCHANGED <<launcherVars, part>>
  \/ part = "launcher" /\ LauncherNext /\ UNCHANGED <<vars, part>>

MCSpec == MCInit /\ [][MCNext]_allVars

Symmetric == Permutations(Sites) \cup Permutations(Devices)
=============================================================================
