------------------------------ MODULE Launcher ------------------------------
(***************************************************************************)
(* Starting and ending the GUI server: run_gui (src/ms605/gui/cli.py), the *)
(* certificates it serves with (tls.py) and the life of its application    *)
(* (create_app in server.py).  Several GUIs of one computer share a data   *)
(* directory: the certificates, the access token and the lock of the one   *)
(* GUI that may use the computer's Bluetooth.  Any of them ends at any     *)
(* point, by an error or a kill, and what it has put into the directory    *)
(* stays.                                                                  *)
(*                                                                         *)
(* A key pair, a CA or a token is named by the number of the start that    *)
(* made it, 0 where there is none; an authority is valid while its two     *)
(* files are of one start.  The GUIs use their own certificates, not those *)
(* of --ssl-certfile.                                                      *)
(***************************************************************************)
EXTENDS Naturals, Sequences

CONSTANTS
  Guis,      \* the processes
  Ports,     \* what --port may say; the share port is the next one
  Addresses, \* the addresses the computer may have in the network
  MaxStarts, \* bounds the starts
  MaxMixed   \* bounds the starts once two of them have overlapped

ASSUME LauncherAssumption == Ports \subseteq Nat /\ MaxStarts \in Nat /\ MaxMixed \in Nat

VARIABLES
  phase,      \* where each GUI stands in run_gui
  options,    \* its command line: port, addresses with --lan, --ble-transport server
  nth,        \* the number of its start
  bound,      \* the ports it listens on
  prepared,   \* the certificates in its staging directory: what is left to move
  token,      \* the token it serves with
  loaded,     \* the certificate it serves with
  up,         \* its servers that run: HTTPS, and HTTP for sharing
  links,      \* it has links over this computer's Bluetooth
  lock,       \* who has locked gui_server.lock
  dir,        \* the data directory
  starts,     \* how many starts there were
  trusted,    \* the CAs clients were told to trust
  overlapped  \* two starts were preparing at one time

launcherVars == <<phase, options, nth, bound, prepared, token, loaded, up, links, lock,
                  dir, starts, trusted, overlapped>>

Preparing == {"tls", "make", "replace", "token", "link", "lock", "serve"}

NoCertificate == [pair |-> 0, ca |-> 0, hosts |-> {}, fresh |-> FALSE]
NoneLeft == [left |-> <<>>, renew |-> FALSE, ca |-> 0]
NoOptions == [port |-> 0, lan |-> {}, server |-> FALSE]

\* What lan_ip, host_name and tailnet_hosts may find of this computer's addresses.
Reachable == SUBSET Addresses

Options == [port : Ports, lan : Reachable, server : BOOLEAN]

\* The names a browser may use: this computer's own, and with --lan its addresses.
AllowedHosts(p) == {"localhost"} \cup options[p].lan

LauncherInit ==
  /\ phase = [p \in Guis |-> "down"] /\ options = [p \in Guis |-> NoOptions]
  /\ nth = [p \in Guis |-> 0] /\ bound = [p \in Guis |-> {}]
  /\ prepared = [p \in Guis |-> NoneLeft] /\ token = [p \in Guis |-> 0]
  /\ loaded = [p \in Guis |-> NoCertificate] /\ up = [p \in Guis |-> {}]
  /\ links = [p \in Guis |-> FALSE]
  /\ lock = {} /\ starts = 0 /\ trusted = {} /\ overlapped = FALSE
  /\ dir = [cert |-> NoCertificate, key |-> 0, ca |-> 0, caKey |-> 0, token |-> 0]

Enters(p, to) == phase' = [phase EXCEPT ![p] = to]

\* The process is gone: the system closes its sockets, its links and its lock.
Vanishes(p) ==
  /\ phase' = [phase EXCEPT ![p] = "down"] /\ options' = [options EXCEPT ![p] = NoOptions]
  /\ nth' = [nth EXCEPT ![p] = 0] /\ bound' = [bound EXCEPT ![p] = {}]
  /\ prepared' = [prepared EXCEPT ![p] = NoneLeft] /\ token' = [token EXCEPT ![p] = 0]
  /\ loaded' = [loaded EXCEPT ![p] = NoCertificate] /\ up' = [up EXCEPT ![p] = {}]
  /\ links' = [links EXCEPT ![p] = FALSE]
  /\ lock' = lock \ {p}
  /\ UNCHANGED <<dir, starts, trusted, overlapped>>

-----------------------------------------------------------------------------
(* Listening *)

\* The registry has been read and the fleet made.
StartGui(p) ==
  /\ phase[p] = "down" /\ starts < (IF overlapped THEN MaxMixed ELSE MaxStarts)
  /\ Enters(p, "listen")
  /\ \E o \in Options : options' = [options EXCEPT ![p] = o]
  /\ starts' = starts + 1 /\ nth' = [nth EXCEPT ![p] = starts + 1]
  /\ UNCHANGED <<bound, prepared, token, loaded, up, links, lock, dir, trusted, overlapped>>

SharePort(p) == IF options[p].lan # {} THEN {options[p].port + 1} ELSE {}

Free(port) == \A q \in Guis : port \notin bound[q]

\* One socket, and with --lan a second one; a port that is taken ends the start.
Listener(p) ==
  LET wanted == {options[p].port} \cup SharePort(p)
  IN /\ phase[p] = "listen" /\ \A port \in wanted : Free(port)
     /\ Enters(p, "tls") /\ bound' = [bound EXCEPT ![p] = wanted]
     /\ overlapped' = (overlapped \/ \E q \in Guis \ {p} : phase[q] \in Preparing)
     /\ UNCHANGED <<options, nth, prepared, token, loaded, up, links, lock, dir, starts, trusted>>

\* An error on the way (a port in use, a file, OpenSSL, the lock), or a kill.
EndsEarly(p) == phase[p] # "down" /\ Vanishes(p)

-----------------------------------------------------------------------------
(* The certificates: ensure_gui_tls *)

CaValid == dir.ca # 0 /\ dir.ca = dir.caKey
CertUsable == dir.cert.pair # 0 /\ dir.cert.pair = dir.key /\ dir.cert.fresh
CertCovers(hosts) == dir.cert.pair = dir.key /\ dir.cert.ca = dir.ca /\ hosts \subseteq dir.cert.hosts

\* Mutant of EnsureTls: what is on disk is not tried against the hosts.
EnsureTlsUntried(p) ==
  /\ phase[p] = "tls"
  /\ Enters(p, IF CaValid /\ CertUsable THEN "token" ELSE "make")
  /\ prepared' = [prepared EXCEPT ![p].renew = ~CaValid]
  /\ UNCHANGED <<options, nth, bound, token, loaded, up, links, lock, dir, starts, trusted, overlapped>>

\* What is on disk is kept, or new files are to be made, with a new CA or without.
EnsureTls(p) ==
  /\ phase[p] = "tls"
  /\ LET reuse == CaValid /\ CertUsable /\ CertCovers(AllowedHosts(p))
     IN /\ Enters(p, IF reuse THEN "token" ELSE "make")
        /\ prepared' = [prepared EXCEPT ![p].renew = ~CaValid]
  /\ UNCHANGED <<options, nth, bound, token, loaded, up, links, lock, dir, starts, trusted, overlapped>>

\* The server's certificate is made in the staging directory; a CA that does not
\* verify it is an error.
Generate(p) ==
  /\ phase[p] = "make" /\ (prepared[p].renew \/ CaValid)
  /\ Enters(p, "replace")
  /\ LET renew == prepared[p].renew
     IN prepared' = [prepared EXCEPT
          ![p].left = <<"cert", "key">> \o (IF renew THEN <<"ca", "caKey">> ELSE <<>>),
          ![p].ca = IF renew THEN nth[p] ELSE dir.ca]
  /\ UNCHANGED <<options, nth, bound, token, loaded, up, links, lock, dir, starts, trusted, overlapped>>

NewCertificate(p) == [pair |-> nth[p], ca |-> prepared[p].ca, hosts |-> AllowedHosts(p), fresh |-> TRUE]

\* The new files take the place of the old ones one by one.
ReplaceOne(p) ==
  /\ phase[p] = "replace"
  /\ IF prepared[p].left = <<>>
     THEN Enters(p, "token") /\ prepared' = [prepared EXCEPT ![p] = NoneLeft] /\ UNCHANGED dir
     ELSE /\ dir' = [dir EXCEPT ![Head(prepared[p].left)] =
                         IF Head(prepared[p].left) = "cert" THEN NewCertificate(p) ELSE nth[p]]
          /\ prepared' = [prepared EXCEPT ![p].left = Tail(@)]
          /\ UNCHANGED phase
  /\ UNCHANGED <<options, nth, bound, token, loaded, up, links, lock, starts, trusted, overlapped>>

\* The certificate on disk comes within a week of its end.
CertificateAges ==
  /\ dir.cert.fresh /\ dir' = [dir EXCEPT !.cert.fresh = FALSE]
  /\ UNCHANGED <<phase, options, nth, bound, prepared, token, loaded, up, links, lock,
                 starts, trusted, overlapped>>

-----------------------------------------------------------------------------
(* The token and the lock *)

\* _load_or_create_gui_token: the file is read; where there is none, a candidate is written.
ReadToken(p) ==
  /\ phase[p] = "token"
  /\ IF dir.token # 0
     THEN token' = [token EXCEPT ![p] = dir.token] /\ Enters(p, "lock")
     ELSE Enters(p, "link") /\ UNCHANGED token
  /\ UNCHANGED <<options, nth, bound, prepared, loaded, up, links, lock, dir, starts, trusted, overlapped>>

\* Mutant of LinkToken: the candidate takes the place of a token another GUI has made.
LinkTokenOver(p) ==
  /\ phase[p] = "link"
  /\ dir' = [dir EXCEPT !.token = nth[p]]
  /\ token' = [token EXCEPT ![p] = nth[p]]
  /\ Enters(p, "lock")
  /\ UNCHANGED <<options, nth, bound, prepared, loaded, up, links, lock, starts, trusted, overlapped>>

\* The candidate becomes the file, unless another GUI has made one meanwhile.
LinkToken(p) ==
  /\ phase[p] = "link"
  /\ dir' = [dir EXCEPT !.token = IF @ = 0 THEN nth[p] ELSE @]
  /\ token' = [token EXCEPT ![p] = dir'.token]
  /\ Enters(p, "lock")
  /\ UNCHANGED <<options, nth, bound, prepared, loaded, up, links, lock, starts, trusted, overlapped>>

\* A GUI that uses this computer's Bluetooth needs the lock, and does not wait for it.
TakeLock(p) ==
  /\ phase[p] = "lock"
  /\ options[p].server => lock = {}
  /\ lock' = IF options[p].server THEN {p} ELSE lock
  /\ Enters(p, "serve")
  /\ UNCHANGED <<options, nth, bound, prepared, token, loaded, up, links, dir, starts, trusted, overlapped>>

-----------------------------------------------------------------------------
(* Serving *)

\* The certificate and its key are loaded; if they do not match, the start has failed.
ServeAll(p) ==
  /\ phase[p] = "serve"
  /\ IF dir.cert.pair = dir.key
     THEN /\ Enters(p, "serving") /\ loaded' = [loaded EXCEPT ![p] = dir.cert]
          /\ up' = [up EXCEPT ![p] = {"https"} \cup (IF options[p].lan # {} THEN {"http"} ELSE {})]
          /\ trusted' = trusted \cup {dir.ca}
     ELSE Enters(p, "closing") /\ UNCHANGED <<loaded, up, trusted>>
  /\ UNCHANGED <<options, nth, bound, prepared, token, links, lock, dir, starts, overlapped>>

\* Recovery, or a gathering a user starts, links sensors.
Links(p) ==
  /\ phase[p] = "serving" /\ options[p].server /\ ~links[p]
  /\ links' = [links EXCEPT ![p] = TRUE]
  /\ UNCHANGED <<phase, options, nth, bound, prepared, token, loaded, up, lock, dir, starts, trusted, overlapped>>

\* The end of the application's life: the fleet is closed and lets go of every link.
FleetCloses(p) == links' = [links EXCEPT ![p] = FALSE]

\* A server ends, by a signal or because the other one has; the HTTPS server ends
\* the application's life, if a second signal or an error does not cut that short.
ServerEnds(p, server) ==
  /\ phase[p] = "serving" /\ server \in up[p]
  /\ up' = [up EXCEPT ![p] = @ \ {server}]
  /\ Enters(p, IF up[p] = {server} THEN "closing" ELSE "serving")
  /\ \/ server = "https" /\ FleetCloses(p)
     \/ UNCHANGED links
  /\ UNCHANGED <<options, nth, bound, prepared, token, loaded, lock, dir, starts, trusted, overlapped>>

\* Mutant of CloseFleet: the lock is let go of before the links are.
CloseFleetUnlocked(p) ==
  /\ phase[p] = "closing"
  /\ Enters(p, "release") /\ lock' = lock \ {p}
  /\ UNCHANGED <<options, nth, bound, prepared, token, loaded, up, links, dir, starts, trusted, overlapped>>

\* The fleet is closed, for the second time as a rule.
CloseFleet(p) ==
  /\ phase[p] = "closing"
  /\ Enters(p, "release")
  /\ FleetCloses(p)
  /\ UNCHANGED <<options, nth, bound, prepared, token, loaded, up, lock, dir, starts, trusted, overlapped>>

\* The sockets and the lock are closed and the process ends.
ReleaseLock(p) == phase[p] = "release" /\ Vanishes(p)

LauncherNext ==
  \/ \E p \in Guis :
       \/ StartGui(p) \/ Listener(p) \/ EndsEarly(p)
       \/ EnsureTls(p) \/ Generate(p) \/ ReplaceOne(p)
       \/ ReadToken(p) \/ LinkToken(p) \/ TakeLock(p)
       \/ ServeAll(p) \/ Links(p) \/ (\E server \in up[p] : ServerEnds(p, server))
       \/ CloseFleet(p) \/ ReleaseLock(p)
  \/ CertificateAges

LauncherSpec == LauncherInit /\ [][LauncherNext]_launcherVars

-----------------------------------------------------------------------------

Phases == {"down", "listen", "closing", "serving", "release"} \cup Preparing

Names == {"cert", "key", "ca", "caKey"}
Certificates == [pair : Nat, ca : Nat, hosts : SUBSET ({"localhost"} \cup Addresses), fresh : BOOLEAN]
Staged == [left : Seq(Names), renew : BOOLEAN, ca : Nat]
Directory == [cert : Certificates, key : Nat, ca : Nat, caKey : Nat, token : Nat]

\* The type invariant.
LauncherTypeOK ==
  /\ phase \in [Guis -> Phases]
  /\ options \in [Guis -> Options \cup {NoOptions}]
  /\ nth \in [Guis -> Nat] /\ starts \in Nat
  /\ bound \in [Guis -> SUBSET Nat]
  /\ prepared \in [Guis -> Staged]
  /\ token \in [Guis -> Nat]
  /\ up \in [Guis -> SUBSET {"https", "http"}]
  /\ links \in [Guis -> BOOLEAN] /\ overlapped \in BOOLEAN
  /\ lock \subseteq Guis /\ trusted \subseteq Nat
  /\ loaded \in [Guis -> Certificates] /\ dir \in Directory

\* Only the GUI that holds the lock of the data directory has links over the
\* computer's Bluetooth, until the last of them is released, however it ends.
LinksUnderLock == \A p \in Guis : links[p] => lock = {p}

\* Every GUI that has its token, however many of them made one at the same time,
\* serves with the token of the file, which never changes: its address stays valid.
OneToken ==
  \A p \in Guis : phase[p] \in {"lock", "serve", "serving", "closing", "release"} =>
    token[p] # 0 /\ token[p] = dir.token

\* While starts do not overlap, whatever kills them: the CA clients were told to
\* trust stays, a start that gets to its servers loads a certificate and its key,
\* and what a GUI serves with is signed by that CA and covers its addresses.
ClientsKeepTrust ==
  ~overlapped =>
    /\ trusted \subseteq {dir.ca}
    /\ \A p \in Guis :
         /\ phase[p] = "serve" => dir.cert.pair = dir.key
         /\ phase[p] = "serving" => loaded[p].ca = dir.ca /\ AllowedHosts(p) \subseteq loaded[p].hosts
=============================================================================
