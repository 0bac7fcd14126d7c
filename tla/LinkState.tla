----------------------------- MODULE LinkState -----------------------------
(***************************************************************************)
(* What a DeviceSession promises the rest of the program about the link of *)
(* one sensor: the state machine other components see, with nothing of the *)
(* tasks, locks and BLE calls that drive it.  Session.tla is shown to      *)
(* implement it.                                                           *)
(***************************************************************************)
VARIABLES
  link,    \* the LinkState a reader of session.state sees
  back     \* the state a failed connect falls back to; = link otherwise

lvars == <<link, back>>

LinkStates == {"DISCONNECTED", "CONNECTING", "CONNECTED", "LOST"}

LinkTypeOK == /\ link \in LinkStates
              /\ back \in LinkStates \ {"CONNECTING"}

LinkInit == link = "DISCONNECTED" /\ back = "DISCONNECTED"

\* A connect starts, and only from a state without a link.
Begin == /\ link \in {"DISCONNECTED", "LOST"}
         /\ link' = "CONNECTING"
         /\ back' = link

Succeed == /\ link = "CONNECTING"
           /\ link' = "CONNECTED"
           /\ back' = "CONNECTED"

\* A failed or cancelled connect changes nothing in the end.
Fail == /\ link = "CONNECTING"
        /\ link' = back
        /\ back' = back

\* Only an established link can be lost ...
Lost == /\ link = "CONNECTED"
        /\ link' = "LOST"
        /\ back' = "LOST"

\* ... and the program may let go of a session at any time.
Release == /\ link # "DISCONNECTED"
           /\ link' = "DISCONNECTED"
           /\ back' = "DISCONNECTED"

LinkNext == Begin \/ Succeed \/ Fail \/ Lost \/ Release

LinkSpec == LinkInit /\ [][LinkNext]_lvars
=============================================================================
