-------------------------- MODULE DirectoryProofs --------------------------
(***************************************************************************)
(* Proofs about the data directory: Launcher, the GUIs that start in it    *)
(* and come and go, then Registry, the files that outlive them.            *)
(*                                                                         *)
(* Launcher, for any number of GUIs, ports, addresses and starts: however  *)
(* starts overlap and wherever processes are killed, one GUI at most has   *)
(* links over the computer's Bluetooth, and all serve with one token; and, *)
(* while starts do not overlap, clients keep their trust.  A lock that is  *)
(* held is held by one GUI, from before its servers start until its fleet  *)
(* is closed, and links exist only in between.  The token file is made     *)
(* once; a GUI has its number, and so a candidate of its own, as long as   *)
(* it runs.  While starts do not overlap, the file a start has still to    *)
(* put in place tells what the directory holds (Moved): a new CA is made   *)
(* only where no client trusts one, and what a start finds or leaves when  *)
(* it goes on to its token is a certificate of the CA in place that covers *)
(* its hosts.                                                              *)
(*                                                                         *)
(* Registry, for any sites, devices, addresses and hosts, and any number   *)
(* of operations, faults and power cuts.  RegInv: whatever a power cut may *)
(* leave of registry.json is a registry in which every sensor and every    *)
(* pending import is of a site that is there (without the imports this is  *)
(* not inductive: an import becomes a sensor), and while a change is saved *)
(* the file says what it takes back to.  HistInv: records are numbered in  *)
(* the order of the lines, and those to be read back are on lines of their *)
(* own.  SnapInv: the name a snapshot is about to get is free, also in     *)
(* what a power cut may leave, and, while the clock was not set back, the  *)
(* names in use from now on leave no gap, so that a free name is higher    *)
(* than any in use.                                                        *)
(***************************************************************************)
EXTENDS Registry, Launcher, SequenceTheorems, FiniteSetTheorems, WellFoundedInduction, TLAPS

\* GUIs: the parts of the inductive invariant.
HolderInv ==
  \A p \in Guis :
    /\ links[p] => phase[p] \in {"serving", "closing"} /\ options[p].server
    /\ phase[p] \in {"serve", "serving", "closing", "release"} /\ options[p].server => lock = {p}

NumberInv == \A p \in Guis : phase[p] # "down" => nth[p] # 0

IInv == LauncherTypeOK /\ HolderInv /\ NumberInv /\ OneToken

-----------------------------------------------------------------------------
LEMMA TypeInit == LauncherInit => LauncherTypeOK
<1> SUFFICES ASSUME LauncherInit PROVE LauncherTypeOK
  OBVIOUS
<1>1. NoCertificate \in Certificates
  BY DEF NoCertificate, Certificates
<1>2. NoneLeft \in Staged
  BY DEF NoneLeft, Staged, Names
<1>3. dir \in Directory
  BY <1>1 DEF LauncherInit, Directory
<1>4. QED
  BY <1>1, <1>2, <1>3 DEF LauncherInit, LauncherTypeOK, Phases, Preparing

\* A process that is gone leaves everything of the right type.
LEMMA TypeVanishes ==
  ASSUME LauncherTypeOK, NEW p \in Guis, Vanishes(p)
  PROVE  LauncherTypeOK'
<1>1. NoCertificate \in Certificates
  BY DEF NoCertificate, Certificates
<1>2. NoneLeft \in Staged
  BY DEF NoneLeft, Staged, Names
<1>3. loaded' \in [Guis -> Certificates] /\ prepared' \in [Guis -> Staged]
  BY <1>1, <1>2 DEF LauncherTypeOK, Vanishes
<1>4. QED
  BY <1>3 DEF LauncherTypeOK, Vanishes, Phases, Preparing

LEMMA TypeStart ==
  ASSUME LauncherTypeOK, NEW p \in Guis, StartGui(p) \/ Listener(p)
  PROVE  LauncherTypeOK'
<1>1. CASE StartGui(p)
  <2>1. phase' \in [Guis -> Phases]
    BY <1>1 DEF LauncherTypeOK, StartGui, Enters, Phases
  <2>2. options' \in [Guis -> Options \cup {NoOptions}]
    BY <1>1 DEF LauncherTypeOK, StartGui
  <2>3. starts' \in Nat /\ nth' \in [Guis -> Nat]
    BY <1>1 DEF LauncherTypeOK, StartGui
  <2>4. QED
    BY <1>1, <2>1, <2>2, <2>3 DEF LauncherTypeOK, StartGui
<1>2. CASE Listener(p)
  <2>0. options[p] \in Options \/ options[p] = NoOptions
    BY DEF LauncherTypeOK
  <2>1. options[p].port \in Nat
    <3>1. CASE options[p] \in Options
      <4>1. options[p].port \in Ports
        BY <3>1 DEF Options
      <4>2. QED
        BY <4>1, LauncherAssumption
    <3>2. CASE options[p] = NoOptions
      BY <3>2 DEF NoOptions
    <3>3. QED
      BY <2>0, <3>1, <3>2
  <2>2. SharePort(p) \subseteq Nat
    BY <2>1 DEF SharePort
  <2>3. bound' \in [Guis -> SUBSET Nat]
    BY <1>2, <2>1, <2>2 DEF LauncherTypeOK, Listener
  <2>4. overlapped' \in BOOLEAN
    BY <1>2 DEF LauncherTypeOK, Listener
  <2>5. phase' \in [Guis -> Phases]
    BY <1>2 DEF LauncherTypeOK, Listener, Enters, Phases, Preparing
  <2>6. QED
    BY <1>2, <2>3, <2>4, <2>5 DEF LauncherTypeOK, Listener
<1>3. QED
  BY <1>1, <1>2

LEMMA TypeTls ==
  ASSUME LauncherTypeOK, NEW p \in Guis, EnsureTls(p) \/ Generate(p) \/ ReplaceOne(p)
  PROVE  LauncherTypeOK' /\ dir'.token = dir.token
<1>0. /\ prepared \in [Guis -> Staged] /\ dir \in Directory
      /\ nth[p] \in Nat /\ phase \in [Guis -> Phases]
  BY DEF LauncherTypeOK
<1>1. CASE EnsureTls(p)
  <2>1. phase' \in [Guis -> Phases]
    BY <1>0, <1>1 DEF EnsureTls, Enters, Phases, Preparing
  <2>2. CaValid \in BOOLEAN
    BY DEF CaValid
  <2>3. prepared' \in [Guis -> Staged]
    BY <1>0, <1>1, <2>2 DEF EnsureTls, Staged
  <2>4. QED
    BY <1>1, <2>1, <2>3 DEF LauncherTypeOK, EnsureTls
<1>2. CASE Generate(p)
  <2>1. phase' \in [Guis -> Phases]
    BY <1>0, <1>2 DEF Generate, Enters, Phases, Preparing
  <2> DEFINE todo == <<"cert", "key">> \o (IF prepared[p].renew THEN <<"ca", "caKey">> ELSE <<>>)
             ca == IF prepared[p].renew THEN nth[p] ELSE dir.ca
  <2>2. todo \in Seq(Names)
    <3>1. <<"cert", "key">> \in Seq(Names)
      BY DEF Names
    <3>2. <<"ca", "caKey">> \in Seq(Names) /\ <<>> \in Seq(Names)
      BY DEF Names
    <3>3. QED
      BY <3>1, <3>2
  <2>3. ca \in Nat
    BY <1>0 DEF Directory
  <2>4. prepared' = [prepared EXCEPT ![p].left = todo, ![p].ca = ca]
    BY <1>2 DEF Generate
  <2> HIDE DEF todo, ca
  <2>5. prepared' \in [Guis -> Staged]
    BY <1>0, <2>2, <2>3, <2>4 DEF Staged
  <2>6. QED
    BY <1>2, <2>1, <2>5 DEF LauncherTypeOK, Generate
<1>3. CASE ReplaceOne(p)
  <2>1. CASE prepared[p].left = <<>>
    <3>1. NoneLeft \in Staged
      BY DEF NoneLeft, Staged, Names
    <3>2. prepared' \in [Guis -> Staged]
      BY <1>0, <1>3, <2>1, <3>1 DEF ReplaceOne
    <3>3. phase' \in [Guis -> Phases]
      BY <1>0, <1>3, <2>1 DEF ReplaceOne, Enters, Phases, Preparing
    <3>4. QED
      BY <1>3, <2>1, <3>2, <3>3 DEF LauncherTypeOK, ReplaceOne
  <2>2. CASE prepared[p].left # <<>>
    <3> DEFINE name == Head(prepared[p].left)
               put == IF name = "cert" THEN NewCertificate(p) ELSE nth[p]
    <3>1. prepared[p].left \in Seq(Names) /\ prepared[p].ca \in Nat
      BY <1>0 DEF Staged
    <3>2. name \in Names /\ Tail(prepared[p].left) \in Seq(Names)
      BY <2>2, <3>1
    <3>3. AllowedHosts(p) \subseteq {"localhost"} \cup Addresses
      BY DEF LauncherTypeOK, AllowedHosts, Options, Reachable, NoOptions
    <3>4. NewCertificate(p) \in Certificates
      BY <1>0, <3>1, <3>3 DEF NewCertificate, Certificates
    <3>5. dir' = [dir EXCEPT ![name] = put] /\ prepared' = [prepared EXCEPT ![p].left = Tail(@)]
      BY <1>3, <2>2 DEF ReplaceOne
    <3>6. IF name = "cert" THEN put \in Certificates ELSE put \in Nat
      BY <1>0, <3>4
    <3> HIDE DEF name, put
    <3>7. dir' \in Directory /\ dir'.token = dir.token
      BY <1>0, <3>2, <3>5, <3>6 DEF Directory, Names
    <3>8. prepared' \in [Guis -> Staged]
      BY <1>0, <3>2, <3>5 DEF Staged
    <3>9. QED
      BY <1>3, <2>2, <3>7, <3>8 DEF LauncherTypeOK, ReplaceOne
  <2>3. QED
    BY <2>1, <2>2
<1>4. QED
  BY <1>1, <1>2, <1>3

LEMMA TypeToken ==
  ASSUME LauncherTypeOK, NEW p \in Guis, ReadToken(p) \/ LinkToken(p) \/ TakeLock(p)
  PROVE  LauncherTypeOK'
<1>0. dir \in Directory /\ nth[p] \in Nat /\ token \in [Guis -> Nat] /\ phase \in [Guis -> Phases]
  BY DEF LauncherTypeOK
<1>1. phase' \in [Guis -> Phases]
  BY <1>0 DEF ReadToken, LinkToken, TakeLock, Enters, Phases, Preparing
<1>2. dir' \in Directory
  BY <1>0 DEF ReadToken, LinkToken, TakeLock, Directory
<1>3. token' \in [Guis -> Nat]
  BY <1>0, <1>2 DEF ReadToken, LinkToken, TakeLock, Directory
<1>4. lock' \subseteq Guis
  BY DEF LauncherTypeOK, ReadToken, LinkToken, TakeLock
<1>5. QED
  BY <1>1, <1>2, <1>3, <1>4 DEF LauncherTypeOK, ReadToken, LinkToken, TakeLock

LEMMA TypeServing ==
  ASSUME LauncherTypeOK, NEW p \in Guis,
         \/ ServeAll(p) \/ Links(p) \/ CloseFleet(p)
         \/ \E server \in up[p] : ServerEnds(p, server)
  PROVE  LauncherTypeOK'
<1>0. /\ dir \in Directory /\ loaded \in [Guis -> Certificates] /\ phase \in [Guis -> Phases]
      /\ up \in [Guis -> SUBSET {"https", "http"}]
  BY DEF LauncherTypeOK
<1>1. CASE ServeAll(p)
  <2>1. loaded' \in [Guis -> Certificates] /\ trusted' \subseteq Nat
    <3>1. dir.cert \in Certificates /\ dir.ca \in Nat /\ trusted \subseteq Nat
      BY <1>0 DEF Directory, LauncherTypeOK
    <3>2. loaded' \in [Guis -> Certificates]
      BY <1>0, <1>1, <3>1 DEF ServeAll
    <3>3. trusted' \subseteq Nat
      BY <1>1, <3>1 DEF ServeAll
    <3>4. QED
      BY <3>2, <3>3
  <2>2. phase' \in [Guis -> Phases]
    BY <1>0, <1>1 DEF ServeAll, Enters, Phases, Preparing
  <2>3. up' \in [Guis -> SUBSET {"https", "http"}]
    BY <1>0, <1>1 DEF ServeAll
  <2>4. QED
    BY <1>1, <2>1, <2>2, <2>3 DEF LauncherTypeOK, ServeAll
<1>2. CASE Links(p)
  BY <1>2 DEF LauncherTypeOK, Links
<1>3. CASE CloseFleet(p)
  BY <1>3 DEF LauncherTypeOK, CloseFleet, FleetCloses, Enters, Phases, Preparing
<1>4. CASE \E server \in up[p] : ServerEnds(p, server)
  <2>1. PICK server \in up[p] : ServerEnds(p, server)
    BY <1>4
  <2>2. phase' \in [Guis -> Phases] /\ up' \in [Guis -> SUBSET {"https", "http"}]
    BY <1>0, <2>1 DEF ServerEnds, Enters, Phases, Preparing
  <2>3. links' \in [Guis -> BOOLEAN]
    BY <2>1 DEF LauncherTypeOK, ServerEnds, FleetCloses
  <2>4. QED
    BY <2>1, <2>2, <2>3 DEF LauncherTypeOK, ServerEnds
<1>5. QED
  BY <1>1, <1>2, <1>3, <1>4

LEMMA TypeStep == LauncherTypeOK /\ [LauncherNext]_launcherVars => LauncherTypeOK'
<1> SUFFICES ASSUME LauncherTypeOK, [LauncherNext]_launcherVars PROVE LauncherTypeOK'
  OBVIOUS
<1>1. CASE UNCHANGED launcherVars
  BY <1>1 DEF LauncherTypeOK, launcherVars
<1>2. CASE CertificateAges
  <2>1. dir' \in Directory
    BY <1>2 DEF LauncherTypeOK, CertificateAges, Directory, Certificates
  <2>2. QED
    BY <1>2, <2>1 DEF LauncherTypeOK, CertificateAges
<1>3. ASSUME NEW p \in Guis, EndsEarly(p) \/ ReleaseLock(p) PROVE LauncherTypeOK'
  BY <1>3, TypeVanishes DEF EndsEarly, ReleaseLock
<1>4. QED
  BY <1>1, <1>2, <1>3, TypeStart, TypeTls, TypeToken, TypeServing DEF LauncherNext

\* The lock and the links.
LEMMA HolderStep == LauncherTypeOK /\ HolderInv /\ [LauncherNext]_launcherVars => HolderInv'
<1> SUFFICES ASSUME LauncherTypeOK, HolderInv, [LauncherNext]_launcherVars PROVE HolderInv'
  OBVIOUS
<1> USE DEF LauncherTypeOK
<1>1. CASE UNCHANGED launcherVars
  BY <1>1 DEF HolderInv, launcherVars
<1>2. CASE CertificateAges
  BY <1>2 DEF HolderInv, CertificateAges
<1>3. ASSUME NEW p \in Guis, EndsEarly(p) \/ ReleaseLock(p) PROVE HolderInv'
  <2>1. /\ phase' = [phase EXCEPT ![p] = "down"] /\ links' = [links EXCEPT ![p] = FALSE]
        /\ options' = [options EXCEPT ![p] = NoOptions] /\ lock' = lock \ {p}
    BY <1>3 DEF EndsEarly, ReleaseLock, Vanishes
  <2>2. QED
    BY <2>1 DEF HolderInv
<1>4. ASSUME NEW p \in Guis, StartGui(p) PROVE HolderInv'
  <2>1. \A q \in Guis \ {p} : options'[q] = options[q]
    BY <1>4 DEF StartGui
  <2>2. QED
    BY <1>4, <2>1 DEF HolderInv, StartGui, Enters
<1>5. ASSUME NEW p \in Guis, Listener(p) \/ EnsureTls(p) \/ Generate(p) PROVE HolderInv'
  <2>1. UNCHANGED <<links, options, lock>>
    BY <1>5 DEF Listener, EnsureTls, Generate
  <2>2. phase'[p] \in {"tls", "token", "make", "replace"}
    BY <1>5 DEF Listener, EnsureTls, Generate, Enters
  <2>3. phase[p] \in {"listen", "tls", "make"} /\ \A q \in Guis \ {p} : phase'[q] = phase[q]
    BY <1>5 DEF Listener, EnsureTls, Generate, Enters
  <2>4. QED
    BY <2>1, <2>2, <2>3 DEF HolderInv
<1>6. ASSUME NEW p \in Guis, ReplaceOne(p) PROVE HolderInv'
  <2>1. UNCHANGED <<links, options, lock>> /\ phase[p] = "replace" /\ phase'[p] \in {"replace", "token"}
    BY <1>6, Zenon DEF ReplaceOne, Enters
  <2>2. \A q \in Guis \ {p} : phase'[q] = phase[q]
    BY <1>6 DEF ReplaceOne, Enters
  <2>3. QED
    BY <2>1, <2>2 DEF HolderInv
<1>7. ASSUME NEW p \in Guis, ReadToken(p) \/ LinkToken(p) PROVE HolderInv'
  BY <1>7 DEF HolderInv, ReadToken, LinkToken, Enters
<1>8. ASSUME NEW p \in Guis, TakeLock(p) PROVE HolderInv'
  \* The lock was free, so nobody else was past it.
  BY <1>8 DEF HolderInv, TakeLock, Enters
<1>9. ASSUME NEW p \in Guis, ServeAll(p) \/ Links(p) PROVE HolderInv'
  BY <1>9 DEF HolderInv, ServeAll, Links, Enters
<1>10. ASSUME NEW p \in Guis, NEW server \in up[p], ServerEnds(p, server) PROVE HolderInv'
  <2>1. phase[p] = "serving" /\ lock' = lock /\ options' = options
    BY <1>10 DEF ServerEnds
  <2>2. phase'[p] \in {"serving", "closing"} /\ \A q \in Guis \ {p} : phase'[q] = phase[q]
    BY <1>10 DEF ServerEnds, Enters
  <2>3. \A q \in Guis : links'[q] => links[q]
    BY <1>10 DEF ServerEnds, FleetCloses
  <2>4. QED
    BY <2>1, <2>2, <2>3 DEF HolderInv
<1>11. ASSUME NEW p \in Guis, CloseFleet(p) PROVE HolderInv'
  BY <1>11 DEF HolderInv, CloseFleet, FleetCloses, Enters
<1>12. QED
  BY <1>1, <1>2, <1>3, <1>4, <1>5, <1>6, <1>7, <1>8, <1>9, <1>10, <1>11 DEF LauncherNext

\* The numbers of the starts, and the token.
LEMMA TokenStep ==
  LauncherTypeOK /\ NumberInv /\ OneToken /\ [LauncherNext]_launcherVars => NumberInv' /\ OneToken'
<1> SUFFICES ASSUME LauncherTypeOK, NumberInv, OneToken, [LauncherNext]_launcherVars
             PROVE  NumberInv' /\ OneToken'
  OBVIOUS
<1> USE DEF LauncherTypeOK
<1>1. CASE UNCHANGED launcherVars
  BY <1>1 DEF NumberInv, OneToken, launcherVars
<1>2. CASE CertificateAges
  <2>1. dir'.token = dir.token
    BY <1>2 DEF CertificateAges, Directory
  <2>2. QED
    BY <1>2, <2>1 DEF NumberInv, OneToken, CertificateAges
<1>3. ASSUME NEW p \in Guis, EndsEarly(p) \/ ReleaseLock(p) PROVE NumberInv' /\ OneToken'
  <2>1. /\ phase' = [phase EXCEPT ![p] = "down"] /\ nth' = [nth EXCEPT ![p] = 0]
        /\ token' = [token EXCEPT ![p] = 0] /\ dir' = dir
    BY <1>3 DEF EndsEarly, ReleaseLock, Vanishes
  <2>2. QED
    BY <2>1 DEF NumberInv, OneToken
<1>4. ASSUME NEW p \in Guis, StartGui(p) PROVE NumberInv' /\ OneToken'
  BY <1>4 DEF NumberInv, OneToken, StartGui, Enters
<1>5. ASSUME NEW p \in Guis, Listener(p) PROVE NumberInv' /\ OneToken'
  BY <1>5 DEF NumberInv, OneToken, Listener, Enters
<1>6. ASSUME NEW p \in Guis, EnsureTls(p) \/ Generate(p) \/ ReplaceOne(p) PROVE NumberInv' /\ OneToken'
  <2>1. dir'.token = dir.token
    BY <1>6, TypeTls
  <2>2. /\ phase[p] \in {"tls", "make", "replace"} /\ phase'[p] \in {"make", "replace", "token"}
        /\ \A q \in Guis \ {p} : phase'[q] = phase[q]
        /\ nth' = nth /\ token' = token
    BY <1>6 DEF EnsureTls, Generate, ReplaceOne, Enters
  <2>3. QED
    BY <2>1, <2>2 DEF NumberInv, OneToken
<1>7. ASSUME NEW p \in Guis, ReadToken(p) PROVE NumberInv' /\ OneToken'
  BY <1>7 DEF NumberInv, OneToken, ReadToken, Enters
<1>8. ASSUME NEW p \in Guis, LinkToken(p) PROVE NumberInv' /\ OneToken'
  <2>1. dir'.token = IF dir.token = 0 THEN nth[p] ELSE dir.token
    BY <1>8 DEF LinkToken, Directory
  <2>2. nth[p] # 0
    BY <1>8 DEF NumberInv, LinkToken
  <2>3. dir'.token # 0 /\ (dir.token # 0 => dir'.token = dir.token)
    BY <2>1, <2>2
  <2>4. /\ token' = [token EXCEPT ![p] = dir'.token] /\ phase' = [phase EXCEPT ![p] = "lock"]
        /\ nth' = nth /\ phase[p] = "link"
    BY <1>8 DEF LinkToken, Enters
  <2>5. QED
    BY <2>3, <2>4 DEF NumberInv, OneToken
<1>9. ASSUME NEW p \in Guis, TakeLock(p) PROVE NumberInv' /\ OneToken'
  BY <1>9 DEF NumberInv, OneToken, TakeLock, Enters
<1>10. ASSUME NEW p \in Guis, ServeAll(p) \/ Links(p) \/ CloseFleet(p) PROVE NumberInv' /\ OneToken'
  BY <1>10 DEF NumberInv, OneToken, ServeAll, Links, CloseFleet, Enters
<1>11. ASSUME NEW p \in Guis, NEW server \in up[p], ServerEnds(p, server) PROVE NumberInv' /\ OneToken'
  <2>1. /\ phase[p] = "serving" /\ phase'[p] \in {"serving", "closing"}
        /\ \A q \in Guis \ {p} : phase'[q] = phase[q]
        /\ nth' = nth /\ token' = token /\ dir' = dir
    BY <1>11 DEF ServerEnds, Enters
  <2>2. QED
    BY <2>1 DEF NumberInv, OneToken
<1>12. QED
  BY <1>1, <1>2, <1>3, <1>4, <1>5, <1>6, <1>7, <1>8, <1>9, <1>10, <1>11 DEF LauncherNext

LEMMA Invariance == LauncherSpec => []IInv
<1>1. LauncherInit => IInv
  BY TypeInit DEF IInv, LauncherInit, HolderInv, NumberInv, OneToken
<1>2. IInv /\ [LauncherNext]_launcherVars => IInv'
  BY TypeStep, HolderStep, TokenStep DEF IInv
<1>3. QED
  BY <1>1, <1>2, PTL DEF LauncherSpec

-----------------------------------------------------------------------------
\* The type invariant holds for any GUIs, ports, addresses and numbers of starts.
THEOREM TypeCorrect == LauncherSpec => []LauncherTypeOK
<1>1. IInv => LauncherTypeOK
  BY DEF IInv
<1>2. QED
  BY <1>1, Invariance, PTL

\* Whatever is killed when, links exist only under the lock of the data directory.
THEOREM LinksUnderLockAlways == LauncherSpec => []LinksUnderLock
<1>1. IInv => LinksUnderLock
  BY DEF IInv, HolderInv, LinksUnderLock
<1>2. QED
  BY <1>1, Invariance, PTL

\* However many GUIs start in an empty directory at one time, they serve with one token.
THEOREM OneTokenAlways == LauncherSpec => []OneToken
<1>1. IInv => OneToken
  BY DEF IInv
<1>2. QED
  BY <1>1, Invariance, PTL

-----------------------------------------------------------------------------
(* The trust of the clients *)

\* Files that come one after the other: what is left to move tells which are there.  A new CA
\* is only made while no client was told to trust one.
Moved(p) ==
  LET todo == prepared[p].left
      renew == prepared[p].renew IN
  /\ todo \in IF renew THEN {<<"cert", "key", "ca", "caKey">>, <<"key", "ca", "caKey">>,
                            <<"ca", "caKey">>, <<"caKey">>, <<>>}
              ELSE {<<"cert", "key">>, <<"key">>, <<>>}
  /\ IF renew THEN trusted = {} /\ prepared[p].ca = nth[p] ELSE CaValid /\ prepared[p].ca = dir.ca
  /\ todo \notin {<<"cert", "key">>, <<"cert", "key", "ca", "caKey">>} =>
       /\ dir.cert.pair = nth[p] /\ dir.cert.ca = prepared[p].ca
       /\ dir.cert.hosts = AllowedHosts(p)
  /\ todo \in {<<"ca", "caKey">>, <<"caKey">>, <<>>} => dir.key = nth[p]
  /\ renew /\ todo \in {<<"caKey">>, <<>>} => dir.ca = nth[p]
  /\ renew /\ todo = <<>> => dir.caKey = nth[p]

\* What is known of the directory at each point of a start.
StartOK(p) ==
  /\ phase[p] = "make" => prepared[p].renew = ~CaValid
  /\ phase[p] = "replace" => Moved(p)
  /\ phase[p] \in {"token", "link", "lock", "serve"} => CaValid /\ CertCovers(AllowedHosts(p))
  /\ phase[p] = "serving" => /\ trusted # {} /\ loaded[p].ca = dir.ca
                             /\ AllowedHosts(p) \subseteq loaded[p].hosts

OnePrepares == \A p, q \in Guis : phase[p] \in Preparing /\ phase[q] \in Preparing => p = q
TrustKept == trusted # {} => CaValid /\ trusted = {dir.ca}

TrustInv == ~overlapped => OnePrepares /\ TrustKept /\ \A p \in Guis : StartOK(p)

\* The files a start depends on stay as they are.
SameFiles == /\ dir'.ca = dir.ca /\ dir'.caKey = dir.caKey /\ dir'.key = dir.key
             /\ dir'.cert.pair = dir.cert.pair /\ dir'.cert.ca = dir.cert.ca
             /\ dir'.cert.hosts = dir.cert.hosts

SameStart(q) == /\ phase'[q] = phase[q] /\ prepared'[q] = prepared[q] /\ options'[q] = options[q]
                /\ nth'[q] = nth[q] /\ loaded'[q] = loaded[q]

LEMMA StartStays ==
  ASSUME NEW q \in Guis, StartOK(q), SameStart(q), SameFiles, trusted' = trusted
  PROVE  StartOK(q)'
<1>1. CaValid' = CaValid /\ AllowedHosts(q)' = AllowedHosts(q)
  BY DEF CaValid, SameFiles, AllowedHosts, SameStart
<1>2. CertCovers(AllowedHosts(q))' = CertCovers(AllowedHosts(q))
  BY <1>1 DEF CertCovers, SameFiles
<1>3. Moved(q) => Moved(q)'
  BY <1>1 DEF Moved, SameFiles, SameStart
<1>4. trusted' = trusted /\ loaded'[q].ca = loaded[q].ca /\ dir'.ca = dir.ca
  BY DEF SameFiles, SameStart
<1>5. QED
  BY <1>1, <1>2, <1>3, <1>4 DEF StartOK, SameStart

\* Steps of p that touch no file: the other starts go on as they were.
LEMMA FilesStay ==
  ASSUME TrustInv, ~overlapped, NEW p \in Guis, SameFiles, trusted' = trusted,
         \A q \in Guis \ {p} : SameStart(q),
         phase'[p] \in Preparing => phase[p] \in Preparing, StartOK(p)'
  PROVE  OnePrepares' /\ TrustKept' /\ \A q \in Guis : StartOK(q)'
<1>1. \A q \in Guis \ {p} : StartOK(q)'
  BY StartStays DEF TrustInv
<1>2. OnePrepares'
  BY DEF TrustInv, OnePrepares, SameStart
<1>3. TrustKept'
  BY DEF TrustInv, TrustKept, CaValid, SameFiles
<1>4. QED
  BY <1>1, <1>2, <1>3

\* What a file put in place changes.
LEMMA Replaces ==
  ASSUME LauncherTypeOK, NEW p \in Guis, ReplaceOne(p), prepared[p].left # <<>>,
         NEW name \in Names, name = Head(prepared[p].left)
  PROVE  /\ dir'.cert = IF name = "cert" THEN NewCertificate(p) ELSE dir.cert
         /\ dir'.key = IF name = "key" THEN nth[p] ELSE dir.key
         /\ dir'.ca = IF name = "ca" THEN nth[p] ELSE dir.ca
         /\ dir'.caKey = IF name = "caKey" THEN nth[p] ELSE dir.caKey
         /\ prepared'[p].left = Tail(prepared[p].left)
         /\ prepared'[p].renew = prepared[p].renew /\ prepared'[p].ca = prepared[p].ca
         /\ UNCHANGED <<phase, options, nth, loaded, trusted>>
         /\ \A q \in Guis \ {p} : prepared'[q] = prepared[q]
<1>1. dir \in Directory /\ prepared \in [Guis -> Staged]
  BY DEF LauncherTypeOK
<1>2. PICK put : put = IF name = "cert" THEN NewCertificate(p) ELSE nth[p]
  OBVIOUS
<1>3. dir' = [dir EXCEPT ![name] = put]
  BY <1>2 DEF ReplaceOne
<1>4. prepared' = [prepared EXCEPT ![p] = [prepared[p] EXCEPT !.left = Tail(prepared[p].left)]]
  BY DEF ReplaceOne
<1>5. /\ dir'.cert = IF name = "cert" THEN put ELSE dir.cert
      /\ dir'.key = IF name = "key" THEN put ELSE dir.key
      /\ dir'.ca = IF name = "ca" THEN put ELSE dir.ca
      /\ dir'.caKey = IF name = "caKey" THEN put ELSE dir.caKey
  BY <1>1, <1>3 DEF Directory, Names
<1>6. /\ prepared'[p].left = Tail(prepared[p].left)
      /\ prepared'[p].renew = prepared[p].renew /\ prepared'[p].ca = prepared[p].ca
  BY <1>1, <1>4 DEF Staged
<1>7. UNCHANGED <<phase, options, nth, loaded, trusted>>
  BY DEF ReplaceOne
<1>8. QED
  BY <1>1, <1>2, <1>4, <1>5, <1>6, <1>7

LEMMA Joined == <<"cert", "key">> \o <<"ca", "caKey">> = <<"cert", "key", "ca", "caKey">>
<1> DEFINE s == <<"cert", "key">> \o <<"ca", "caKey">>
           t == <<"cert", "key", "ca", "caKey">>
<1>1. s \in Seq(Names) /\ t \in Seq(Names)
  BY DEF Names
<1>2. Len(s) = 4 /\ Len(t) = 4
  OBVIOUS
<1>3. s[1] = t[1] /\ s[2] = t[2] /\ s[3] = t[3] /\ s[4] = t[4]
  OBVIOUS
<1>4. \A i \in 1..Len(s) : s[i] = t[i]
  BY <1>2, <1>3
<1> HIDE DEF s, t
<1>5. s = t
  BY <1>1, <1>2, <1>4, SeqEqual
<1>6. QED
  BY <1>5 DEF s, t

LEMMA Tails ==
  /\ Tail(<<"cert", "key", "ca", "caKey">>) = <<"key", "ca", "caKey">>
  /\ Tail(<<"key", "ca", "caKey">>) = <<"ca", "caKey">>
  /\ Tail(<<"ca", "caKey">>) = <<"caKey">> /\ Tail(<<"caKey">>) = <<>>
  /\ Tail(<<"cert", "key">>) = <<"key">> /\ Tail(<<"key">>) = <<>>
<1>1. Tail(<<"cert", "key", "ca", "caKey">>) = <<"key", "ca", "caKey">>
  OBVIOUS
<1>2. Tail(<<"key", "ca", "caKey">>) = <<"ca", "caKey">>
  OBVIOUS
<1>3. Tail(<<"ca", "caKey">>) = <<"caKey">> /\ Tail(<<"caKey">>) = <<>>
  OBVIOUS
<1>4. Tail(<<"cert", "key">>) = <<"key">> /\ Tail(<<"key">>) = <<>>
  OBVIOUS
<1>5. QED
  BY <1>1, <1>2, <1>3, <1>4

\* The process ends, or starts anew: nothing is known of it.
LEMMA TrustEnds ==
  ASSUME LauncherTypeOK, TrustInv, ~overlapped, NEW p \in Guis, Vanishes(p) \/ StartGui(p)
  PROVE  OnePrepares' /\ TrustKept' /\ \A q \in Guis : StartOK(q)'
<1>1. phase' = [phase EXCEPT ![p] = phase'[p]] /\ phase'[p] \in {"down", "listen"}
  BY DEF LauncherTypeOK, Vanishes, StartGui, Enters
<1>2. trusted' = trusted /\ dir' = dir
  BY DEF Vanishes, StartGui
<1>3. SameFiles
  BY <1>2 DEF SameFiles
<1>4. \A q \in Guis \ {p} : SameStart(q)
  <2> SUFFICES ASSUME NEW q \in Guis, q # p PROVE SameStart(q)
    OBVIOUS
  <2>1. CASE Vanishes(p)
    BY <2>1 DEF LauncherTypeOK, Vanishes, SameStart
  <2>2. CASE StartGui(p)
    <3>1. options'[q] = options[q]
      BY <2>2 DEF LauncherTypeOK, StartGui
    <3>2. QED
      BY <2>2, <3>1 DEF LauncherTypeOK, StartGui, SameStart, Enters
  <2>3. QED
    BY <2>1, <2>2
<1>5. StartOK(p)'
  BY <1>1 DEF StartOK
<1>6. phase'[p] \notin Preparing
  BY <1>1 DEF Preparing
<1>7. QED
  BY <1>2, <1>3, <1>4, <1>5, <1>6, FilesStay

\* A start that comes to its certificates alone.
LEMMA TrustListener ==
  ASSUME LauncherTypeOK, TrustInv, ~overlapped', NEW p \in Guis, Listener(p)
  PROVE  OnePrepares' /\ TrustKept' /\ \A q \in Guis : StartOK(q)'
<1>1. ~overlapped /\ \A q \in Guis \ {p} : phase[q] \notin Preparing
  BY DEF Listener
<1>2. /\ phase' = [phase EXCEPT ![p] = "tls"] /\ dir' = dir
      /\ UNCHANGED <<trusted, prepared, options, nth, loaded>>
  BY DEF Listener, Enters
<1>3. phase'[p] = "tls" /\ \A q \in Guis \ {p} : phase'[q] = phase[q]
  BY <1>2 DEF LauncherTypeOK
<1>4. OnePrepares'
  BY <1>1, <1>3 DEF OnePrepares
<1>5. SameFiles
  BY <1>2 DEF SameFiles
<1>6. TrustKept'
  BY <1>1, <1>2 DEF TrustInv, TrustKept, CaValid
<1>7. ASSUME NEW q \in Guis PROVE StartOK(q)'
  <2>1. CASE q = p
    BY <1>3, <2>1 DEF StartOK
  <2>2. CASE q # p
    <3>1. SameStart(q)
      BY <1>2, <1>3, <2>2 DEF SameStart
    <3>2. StartOK(q) /\ trusted' = trusted
      BY <1>1, <1>2 DEF TrustInv
    <3>3. QED
      BY <1>5, <3>1, <3>2, StartStays
  <2>3. QED
    BY <2>1, <2>2
<1>8. QED
  BY <1>4, <1>6, <1>7

\* What is on disk is tried, and the new files are made.
LEMMA TrustMakes ==
  ASSUME LauncherTypeOK, NumberInv, TrustInv, ~overlapped, NEW p \in Guis, EnsureTls(p) \/ Generate(p)
  PROVE  OnePrepares' /\ TrustKept' /\ \A q \in Guis : StartOK(q)'
<1>0. prepared \in [Guis -> Staged] /\ phase \in [Guis -> Phases]
  BY DEF LauncherTypeOK
<1>1. /\ phase' = [phase EXCEPT ![p] = phase'[p]] /\ phase[p] \in {"tls", "make"}
      /\ phase'[p] \in {"token", "make", "replace"}
      /\ UNCHANGED <<dir, trusted, options, nth, loaded>>
  BY <1>0 DEF EnsureTls, Generate, Enters
<1>2. SameFiles
  BY <1>1 DEF SameFiles
<1>3. \A q \in Guis \ {p} : prepared'[q] = prepared[q]
  BY <1>0 DEF EnsureTls, Generate
<1>4. \A q \in Guis \ {p} : SameStart(q)
  BY <1>0, <1>1, <1>3 DEF SameStart
<1>5. phase[p] \in Preparing
  BY <1>1 DEF Preparing
<1>6. CaValid' = CaValid /\ AllowedHosts(p)' = AllowedHosts(p)
  BY <1>1 DEF CaValid, AllowedHosts
<1>7. CASE EnsureTls(p)
  <2>1. PICK renew : renew = ~CaValid
    OBVIOUS
  <2>2. prepared' = [prepared EXCEPT ![p] = [prepared[p] EXCEPT !.renew = renew]]
    BY <1>7, <2>1 DEF EnsureTls
  <2>3. prepared'[p].renew = renew
    BY <1>0, <2>2 DEF Staged
  <2>4. phase'[p] = IF CaValid /\ CertUsable /\ CertCovers(AllowedHosts(p)) THEN "token" ELSE "make"
    BY <1>0, <1>7 DEF EnsureTls, Enters
  <2>5. CertCovers(AllowedHosts(p))' = CertCovers(AllowedHosts(p))
    BY <1>1, <1>6 DEF CertCovers
  <2>6. StartOK(p)'
    BY <1>6, <2>1, <2>3, <2>4, <2>5 DEF StartOK
  <2>7. QED
    BY <1>1, <1>2, <1>4, <1>5, <2>6, FilesStay
<1>8. CASE Generate(p)
  <2>1. phase[p] = "make" /\ phase'[p] = "replace" /\ (prepared[p].renew \/ CaValid)
    BY <1>0, <1>8 DEF Generate, Enters
  <2>2. prepared[p].renew = ~CaValid /\ TrustKept
    BY <2>1 DEF TrustInv, StartOK
  <2>3. PICK todo : todo = IF prepared[p].renew THEN <<"cert", "key", "ca", "caKey">> ELSE <<"cert", "key">>
    OBVIOUS
  <2>4. PICK ca : ca = IF prepared[p].renew THEN nth[p] ELSE dir.ca
    OBVIOUS
  <2>5. todo = <<"cert", "key">> \o (IF prepared[p].renew THEN <<"ca", "caKey">> ELSE <<>>)
    <3>1. <<"cert", "key">> \o <<>> = <<"cert", "key">>
      OBVIOUS
    <3>2. QED
      BY <2>3, <3>1, Joined
  <2>6. prepared' = [prepared EXCEPT ![p] = [prepared[p] EXCEPT !.left = todo, !.ca = ca]]
    BY <1>8, <2>4, <2>5 DEF Generate
  <2>7. prepared'[p].left = todo /\ prepared'[p].ca = ca /\ prepared'[p].renew = prepared[p].renew
    BY <1>0, <2>6 DEF Staged
  <2>8. trusted' = trusted /\ dir' = dir /\ nth' = nth /\ CaValid' = CaValid
    BY <1>1, <1>6
  <2>9. Moved(p)'
    <3>1. CASE prepared[p].renew
      <4>1. trusted = {} /\ todo = <<"cert", "key", "ca", "caKey">> /\ ca = nth[p]
        BY <2>2, <2>3, <2>4, <3>1 DEF TrustKept
      <4>2. todo \notin {<<"ca", "caKey">>, <<"caKey">>, <<>>}
        <5>1. todo # <<"ca", "caKey">>
          BY <4>1
        <5>2. todo # <<"caKey">>
          BY <4>1
        <5>3. todo # <<>>
          BY <4>1
        <5>4. QED
          BY <5>1, <5>2, <5>3
      <4>3. prepared'[p].renew /\ prepared'[p].left = todo /\ prepared'[p].ca = nth'[p] /\ trusted' = {}
        BY <2>7, <2>8, <3>1, <4>1
      <4>4. QED
        BY <4>1, <4>2, <4>3 DEF Moved
    <3>2. CASE ~prepared[p].renew
      <4>1. CaValid /\ todo = <<"cert", "key">> /\ ca = dir.ca
        BY <2>1, <2>3, <2>4, <3>2
      <4>2. todo \notin {<<"ca", "caKey">>, <<"caKey">>, <<>>}
        <5>1. todo # <<"ca", "caKey">>
          BY <4>1
        <5>2. todo # <<"caKey">>
          BY <4>1
        <5>3. todo # <<>>
          BY <4>1
        <5>4. QED
          BY <5>1, <5>2, <5>3
      <4>3. ~prepared'[p].renew /\ prepared'[p].left = todo /\ prepared'[p].ca = dir'.ca /\ CaValid'
        BY <2>7, <2>8, <3>2, <4>1
      <4>4. QED
        BY <4>1, <4>2, <4>3 DEF Moved
    <3>3. QED
      BY <3>1, <3>2
  <2>10. StartOK(p)'
    BY <2>1, <2>9 DEF StartOK
  <2>11. QED
    BY <1>1, <1>2, <1>4, <1>5, <2>10, FilesStay
<1>9. QED
  BY <1>7, <1>8

\* The sequences of files are told apart by their lengths and their first files.
LEMMA Different ==
  /\ <<"cert", "key", "ca", "caKey">> \notin {<<"ca", "caKey">>, <<"caKey">>, <<>>}
  /\ <<"key", "ca", "caKey">> \notin {<<"ca", "caKey">>, <<"caKey">>, <<>>, <<"cert", "key">>,
                                      <<"cert", "key", "ca", "caKey">>}
  /\ <<"ca", "caKey">> \notin {<<"caKey">>, <<>>, <<"cert", "key">>, <<"cert", "key", "ca", "caKey">>}
  /\ <<"caKey">> \notin {<<>>, <<"cert", "key">>, <<"cert", "key", "ca", "caKey">>}
  /\ <<"cert", "key">> \notin {<<"ca", "caKey">>, <<"caKey">>, <<>>}
  /\ <<"key">> \notin {<<"ca", "caKey">>, <<"caKey">>, <<>>, <<"cert", "key">>,
                       <<"cert", "key", "ca", "caKey">>}
<1>1. <<"cert", "key", "ca", "caKey">> # <<"ca", "caKey">> /\ <<"cert", "key", "ca", "caKey">> # <<"caKey">>
      /\ <<"cert", "key", "ca", "caKey">> # <<>>
  OBVIOUS
<1>2. <<"key", "ca", "caKey">> # <<"ca", "caKey">> /\ <<"key", "ca", "caKey">> # <<"caKey">>
      /\ <<"key", "ca", "caKey">> # <<>> /\ <<"key", "ca", "caKey">> # <<"cert", "key">>
      /\ <<"key", "ca", "caKey">> # <<"cert", "key", "ca", "caKey">>
  OBVIOUS
<1>3. <<"ca", "caKey">> # <<"caKey">> /\ <<"ca", "caKey">> # <<>>
      /\ <<"ca", "caKey">> # <<"cert", "key">> /\ <<"ca", "caKey">> # <<"cert", "key", "ca", "caKey">>
  OBVIOUS
<1>4. <<"caKey">> # <<>> /\ <<"caKey">> # <<"cert", "key">>
      /\ <<"caKey">> # <<"cert", "key", "ca", "caKey">>
  OBVIOUS
<1>5. <<"cert", "key">> # <<"ca", "caKey">> /\ <<"cert", "key">> # <<"caKey">>
      /\ <<"cert", "key">> # <<>>
  OBVIOUS
<1>6. <<"key">> # <<"ca", "caKey">> /\ <<"key">> # <<"caKey">>
      /\ <<"key">> # <<>> /\ <<"key">> # <<"cert", "key">> /\ <<"key">> # <<"cert", "key", "ca", "caKey">>
  OBVIOUS
<1>7. QED
  BY <1>1, <1>2, <1>3, <1>4, <1>5, <1>6

\* The next file takes its place: the others prepare nothing, and serve the same authority.
LEMMA TrustReplaces ==
  ASSUME LauncherTypeOK, NumberInv, TrustInv, ~overlapped, NEW p \in Guis, ReplaceOne(p),
         prepared[p].left # <<>>
  PROVE  OnePrepares' /\ TrustKept' /\ \A q \in Guis : StartOK(q)'
<1>1. phase[p] = "replace" /\ Moved(p) /\ nth[p] # 0 /\ OnePrepares /\ TrustKept
  <2>1. phase[p] = "replace"
    BY DEF ReplaceOne
  <2>2. QED
    BY <2>1 DEF TrustInv, StartOK, NumberInv
<1>2. PICK todo : todo = prepared[p].left
  OBVIOUS
<1>3. todo \in {<<"cert", "key", "ca", "caKey">>, <<"key", "ca", "caKey">>, <<"ca", "caKey">>,
               <<"caKey">>, <<"cert", "key">>, <<"key">>}
  BY <1>1, <1>2 DEF Moved
<1>4. PICK name : name = Head(todo)
  OBVIOUS
<1>5. /\ todo \in {<<"cert", "key", "ca", "caKey">>, <<"cert", "key">>} => name = "cert"
      /\ todo \in {<<"key", "ca", "caKey">>, <<"key">>} => name = "key"
      /\ todo = <<"ca", "caKey">> => name = "ca"
      /\ todo = <<"caKey">> => name = "caKey"
  BY <1>4
<1>6. name \in Names
  BY <1>3, <1>5 DEF Names
<1>7. /\ dir'.cert = IF name = "cert" THEN NewCertificate(p) ELSE dir.cert
      /\ dir'.key = IF name = "key" THEN nth[p] ELSE dir.key
      /\ dir'.ca = IF name = "ca" THEN nth[p] ELSE dir.ca
      /\ dir'.caKey = IF name = "caKey" THEN nth[p] ELSE dir.caKey
      /\ prepared'[p].left = Tail(todo)
      /\ prepared'[p].renew = prepared[p].renew /\ prepared'[p].ca = prepared[p].ca
      /\ UNCHANGED <<phase, options, nth, loaded, trusted>>
      /\ \A q \in Guis \ {p} : prepared'[q] = prepared[q]
  BY <1>2, <1>4, <1>6, Replaces
<1>8. OnePrepares' /\ AllowedHosts(p)' = AllowedHosts(p)
  BY <1>1, <1>7 DEF OnePrepares, AllowedHosts
<1>9. ~prepared[p].renew => todo \in {<<"cert", "key">>, <<"key">>} /\ name \in {"cert", "key"}
  BY <1>1, <1>2, <1>3, <1>5 DEF Moved
<1>10. CaValid => (CaValid' \/ prepared[p].renew)
  BY <1>7, <1>9 DEF CaValid
<1>11. TrustKept'
  <2>1. CASE prepared[p].renew
    BY <1>1, <1>7, <2>1 DEF Moved, TrustKept
  <2>2. CASE ~prepared[p].renew
    BY <1>1, <1>7, <1>9, <2>2 DEF TrustKept, CaValid
  <2>3. QED
    BY <2>1, <2>2
<1>12. Moved(p)'
  <2>1. /\ Tail(todo) = prepared'[p].left /\ prepared'[p].renew = prepared[p].renew
        /\ prepared'[p].ca = prepared[p].ca /\ nth'[p] = nth[p] /\ trusted' = trusted
    BY <1>7
  <2>2. /\ NewCertificate(p).pair = nth[p] /\ NewCertificate(p).ca = prepared[p].ca
        /\ NewCertificate(p).hosts = AllowedHosts(p)
    BY DEF NewCertificate
  <2>3. CASE prepared[p].renew
    <3>1. /\ todo \in {<<"cert", "key", "ca", "caKey">>, <<"key", "ca", "caKey">>,
                      <<"ca", "caKey">>, <<"caKey">>}
          /\ trusted = {} /\ prepared[p].ca = nth[p]
      BY <1>1, <1>2, <1>3, <2>3 DEF Moved
    <3>2. CASE todo = <<"cert", "key", "ca", "caKey">>
      <4>1. Tail(todo) = <<"key", "ca", "caKey">> /\ name = "cert"
        BY <1>5, <3>2, Tails
      <4>2. Tail(todo) \notin {<<"ca", "caKey">>, <<"caKey">>, <<>>}
        BY <4>1, Different
      <4>3. dir'.cert = NewCertificate(p)
        BY <1>7, <4>1
      <4>4. QED
        BY <1>8, <2>1, <2>2, <2>3, <3>1, <4>1, <4>2, <4>3 DEF Moved
    <3>3. CASE todo = <<"key", "ca", "caKey">>
      <4>1. Tail(todo) = <<"ca", "caKey">> /\ name = "key"
        BY <1>5, <3>3, Tails
      <4>2. /\ Tail(todo) \notin {<<"caKey">>, <<>>}
            /\ todo \notin {<<"cert", "key">>, <<"cert", "key", "ca", "caKey">>}
        BY <3>3, <4>1, Different
      <4>3. dir'.cert = dir.cert /\ dir'.key = nth[p]
        BY <1>7, <4>1
      <4>4. dir.cert.pair = nth[p] /\ dir.cert.ca = prepared[p].ca /\ dir.cert.hosts = AllowedHosts(p)
        BY <1>1, <1>2, <4>2 DEF Moved
      <4>5. QED
        BY <1>8, <2>1, <2>3, <3>1, <4>1, <4>2, <4>3, <4>4 DEF Moved
    <3>4. CASE todo = <<"ca", "caKey">>
      <4>1. Tail(todo) = <<"caKey">> /\ name = "ca"
        BY <1>5, <3>4, Tails
      <4>2. Tail(todo) # <<>> /\ todo \notin {<<"cert", "key">>, <<"cert", "key", "ca", "caKey">>}
        BY <3>4, <4>1, Different
      <4>3. dir'.cert = dir.cert /\ dir'.key = dir.key /\ dir'.ca = nth[p]
        BY <1>7, <4>1
      <4>4. dir.cert.pair = nth[p] /\ dir.cert.ca = prepared[p].ca /\ dir.cert.hosts = AllowedHosts(p)
            /\ dir.key = nth[p]
        BY <1>1, <1>2, <3>4, <4>2 DEF Moved
      <4>5. QED
        BY <1>8, <2>1, <2>3, <3>1, <4>1, <4>2, <4>3, <4>4 DEF Moved
    <3>5. CASE todo = <<"caKey">>
      <4>1. Tail(todo) = <<>> /\ name = "caKey"
        BY <1>5, <3>5, Tails
      <4>2. todo \notin {<<"cert", "key">>, <<"cert", "key", "ca", "caKey">>}
        BY <3>5, Different
      <4>3. dir'.cert = dir.cert /\ dir'.key = dir.key /\ dir'.ca = dir.ca /\ dir'.caKey = nth[p]
        BY <1>7, <4>1
      <4>4. dir.cert.pair = nth[p] /\ dir.cert.ca = prepared[p].ca /\ dir.cert.hosts = AllowedHosts(p)
            /\ dir.key = nth[p] /\ dir.ca = nth[p]
        BY <1>1, <1>2, <2>3, <3>5, <4>2 DEF Moved
      <4>5. QED
        BY <1>8, <2>1, <2>3, <3>1, <4>1, <4>3, <4>4 DEF Moved
    <3>6. QED
      BY <3>1, <3>2, <3>3, <3>4, <3>5
  <2>4. CASE ~prepared[p].renew
    <3>1. CaValid /\ prepared[p].ca = dir.ca
      BY <1>1, <2>4 DEF Moved
    <3>2. CaValid' /\ dir'.ca = dir.ca
      BY <1>7, <1>9, <2>4, <3>1 DEF CaValid
    <3>3. CASE todo = <<"cert", "key">>
      <4>1. Tail(todo) = <<"key">> /\ name = "cert"
        BY <1>5, <3>3, Tails
      <4>2. Tail(todo) \notin {<<"ca", "caKey">>, <<"caKey">>, <<>>}
        BY <4>1, Different
      <4>3. dir'.cert = NewCertificate(p)
        BY <1>7, <4>1
      <4>4. QED
        BY <1>8, <2>1, <2>2, <2>4, <3>1, <3>2, <4>1, <4>2, <4>3 DEF Moved
    <3>4. CASE todo = <<"key">>
      <4>1. Tail(todo) = <<>> /\ name = "key"
        BY <1>5, <3>4, Tails
      <4>2. todo \notin {<<"cert", "key">>, <<"cert", "key", "ca", "caKey">>}
        BY <3>4, Different
      <4>3. dir'.cert = dir.cert /\ dir'.key = nth[p]
        BY <1>7, <4>1
      <4>4. dir.cert.pair = nth[p] /\ dir.cert.ca = prepared[p].ca /\ dir.cert.hosts = AllowedHosts(p)
        BY <1>1, <1>2, <4>2 DEF Moved
      <4>5. QED
        BY <1>8, <2>1, <2>4, <3>1, <3>2, <4>1, <4>3, <4>4 DEF Moved
    <3>5. QED
      BY <1>9, <2>4, <3>3, <3>4
  <2>5. QED
    BY <2>3, <2>4
<1>13. ASSUME NEW q \in Guis PROVE StartOK(q)'
  <2>1. CASE q = p
    BY <1>1, <1>7, <1>12, <2>1 DEF StartOK
  <2>2. CASE q # p
    <3>1. phase'[q] = phase[q] /\ phase[q] \notin Preparing
      BY <1>1, <1>7, <2>2 DEF OnePrepares, Preparing
    <3>2. phase[q] = "serving" => trusted # {}
      BY DEF TrustInv, StartOK
    <3>3. phase[q] = "serving" => /\ trusted' # {} /\ loaded'[q].ca = dir'.ca
                                  /\ AllowedHosts(q)' \subseteq loaded'[q].hosts
      <4> SUFFICES ASSUME phase[q] = "serving"
                   PROVE  /\ trusted' # {} /\ loaded'[q].ca = dir'.ca
                          /\ AllowedHosts(q)' \subseteq loaded'[q].hosts
        OBVIOUS
      <4>1. loaded[q].ca = dir.ca /\ AllowedHosts(q) \subseteq loaded[q].hosts
        BY DEF TrustInv, StartOK
      <4>2. ~prepared[p].renew
        BY <1>1, <3>2 DEF Moved
      <4>3. dir'.ca = dir.ca
        BY <1>7, <1>9, <4>2
      <4>4. QED
        BY <1>7, <3>2, <4>1, <4>3 DEF AllowedHosts
    <3>4. QED
      BY <3>1, <3>3 DEF StartOK, Preparing
  <2>3. QED
    BY <2>1, <2>2
<1>14. QED
  BY <1>8, <1>11, <1>13

\* What is left of a start: everything is in place, the token, the lock.
LEMMA TrustGoesOn ==
  ASSUME LauncherTypeOK, NumberInv, TrustInv, ~overlapped, NEW p \in Guis,
         \/ ReplaceOne(p) /\ prepared[p].left = <<>>
         \/ ReadToken(p) \/ LinkToken(p) \/ TakeLock(p)
  PROVE  OnePrepares' /\ TrustKept' /\ \A q \in Guis : StartOK(q)'
<1>0. prepared \in [Guis -> Staged] /\ phase \in [Guis -> Phases] /\ dir \in Directory
  BY DEF LauncherTypeOK
<1>1. CASE ReplaceOne(p) /\ prepared[p].left = <<>>
  <2>1. /\ phase[p] = "replace" /\ phase' = [phase EXCEPT ![p] = "token"]
        /\ prepared' = [prepared EXCEPT ![p] = NoneLeft]
        /\ UNCHANGED <<dir, trusted, options, nth, loaded>>
    BY <1>1 DEF ReplaceOne, Enters
  <2>2. Moved(p) /\ nth[p] # 0
    BY <2>1 DEF TrustInv, StartOK, NumberInv
  <2>3. prepared[p].left \notin {<<"cert", "key">>, <<"cert", "key", "ca", "caKey">>}
    BY <1>1, Different
  <2>4. CaValid /\ dir.cert.pair = dir.key /\ dir.cert.ca = dir.ca /\ dir.cert.hosts = AllowedHosts(p)
    BY <1>1, <2>2, <2>3 DEF Moved, CaValid
  <2>5. CaValid' /\ CertCovers(AllowedHosts(p))'
    BY <2>1, <2>4 DEF CaValid, CertCovers, AllowedHosts
  <2>6. phase'[p] = "token" /\ phase[p] \in Preparing
    BY <1>0, <2>1 DEF Preparing
  <2>7. SameFiles /\ \A q \in Guis \ {p} : SameStart(q)
    BY <1>0, <2>1 DEF SameFiles, SameStart
  <2>8. StartOK(p)'
    BY <2>5, <2>6 DEF StartOK
  <2>9. QED
    BY <2>1, <2>6, <2>7, <2>8, FilesStay
<1>2. CASE ReadToken(p) \/ LinkToken(p) \/ TakeLock(p)
  <2>1. /\ phase[p] \in {"token", "link", "lock"} /\ phase' = [phase EXCEPT ![p] = phase'[p]]
        /\ phase'[p] \in {"link", "lock", "serve"}
        /\ UNCHANGED <<prepared, trusted, options, nth, loaded>>
    BY <1>0, <1>2 DEF ReadToken, LinkToken, TakeLock, Enters
  <2>2. SameFiles
    <3>1. CASE ReadToken(p) \/ TakeLock(p)
      BY <3>1 DEF ReadToken, TakeLock, SameFiles
    <3>2. CASE LinkToken(p)
      <4>1. PICK new : new = IF dir.token = 0 THEN nth[p] ELSE dir.token
        OBVIOUS
      <4>2. dir' = [dir EXCEPT !.token = new]
        BY <3>2, <4>1 DEF LinkToken
      <4>3. dir'.cert = dir.cert /\ dir'.key = dir.key /\ dir'.ca = dir.ca /\ dir'.caKey = dir.caKey
        BY <1>0, <4>2 DEF Directory
      <4>4. QED
        BY <4>3 DEF SameFiles
    <3>3. QED
      BY <1>2, <3>1, <3>2
  <2>3. \A q \in Guis \ {p} : SameStart(q)
    BY <1>0, <2>1 DEF SameStart
  <2>4. CaValid /\ CertCovers(AllowedHosts(p))
    BY <2>1 DEF TrustInv, StartOK
  <2>5. CaValid' /\ CertCovers(AllowedHosts(p))'
    BY <2>1, <2>2, <2>4 DEF CaValid, CertCovers, AllowedHosts, SameFiles
  <2>6. StartOK(p)'
    BY <2>1, <2>5 DEF StartOK
  <2>7. phase[p] \in Preparing
    BY <2>1 DEF Preparing
  <2>8. QED
    BY <2>1, <2>2, <2>3, <2>6, <2>7, FilesStay
<1>3. QED
  BY <1>1, <1>2

\* The servers start with what is on disk, and its CA is the one that clients trust.
LEMMA TrustServes ==
  ASSUME LauncherTypeOK, TrustInv, ~overlapped, NEW p \in Guis, ServeAll(p)
  PROVE  OnePrepares' /\ TrustKept' /\ \A q \in Guis : StartOK(q)'
<1>0. /\ loaded \in [Guis -> Certificates] /\ phase \in [Guis -> Phases]
      /\ phase[p] = "serve" /\ OnePrepares /\ TrustKept
  BY DEF LauncherTypeOK, ServeAll, TrustInv
<1>1. CaValid /\ CertCovers(AllowedHosts(p))
  BY <1>0 DEF TrustInv, StartOK
<1>2. /\ phase' = [phase EXCEPT ![p] = "serving"] /\ loaded' = [loaded EXCEPT ![p] = dir.cert]
      /\ trusted' = trusted \cup {dir.ca} /\ UNCHANGED <<dir, options, nth, prepared>>
  BY <1>1 DEF ServeAll, Enters, CertCovers
<1>3. trusted' = {dir.ca}
  BY <1>0, <1>2 DEF TrustKept
<1>4. TrustKept'
  BY <1>1, <1>2, <1>3 DEF TrustKept, CaValid
<1>5. /\ phase'[p] = "serving" /\ \A q \in Guis \ {p} : phase'[q] = phase[q]
      /\ loaded'[p] = dir.cert /\ \A q \in Guis \ {p} : loaded'[q] = loaded[q]
  BY <1>0, <1>2
<1>6. OnePrepares'
  BY <1>0, <1>5 DEF OnePrepares, Preparing
<1>7. ASSUME NEW q \in Guis PROVE StartOK(q)'
  <2>1. CASE q = p
    BY <1>1, <1>2, <1>3, <1>5, <2>1 DEF StartOK, CertCovers, AllowedHosts
  <2>2. CASE q # p
    <3>1. phase'[q] = phase[q] /\ phase[q] \notin Preparing
      BY <1>0, <1>5, <2>2 DEF OnePrepares, Preparing
    <3>2. phase[q] = "serving" => /\ trusted' # {} /\ loaded'[q].ca = dir'.ca
                                  /\ AllowedHosts(q)' \subseteq loaded'[q].hosts
      BY <1>2, <1>3, <1>5, <2>2 DEF TrustInv, StartOK, AllowedHosts
    <3>3. QED
      BY <3>1, <3>2 DEF StartOK, Preparing
  <2>3. QED
    BY <2>1, <2>2
<1>8. QED
  BY <1>4, <1>6, <1>7

\* The servers run, and end.
LEMMA TrustEndures ==
  ASSUME LauncherTypeOK, TrustInv, ~overlapped, NEW p \in Guis,
         \/ Links(p) \/ CloseFleet(p) \/ \E server \in up[p] : ServerEnds(p, server)
  PROVE  OnePrepares' /\ TrustKept' /\ \A q \in Guis : StartOK(q)'
<1>1. /\ phase[p] \in {"serving", "closing"} /\ phase' = [phase EXCEPT ![p] = phase'[p]]
      /\ phase'[p] \in {"serving", "closing", "release"} /\ (phase'[p] = "serving" => phase[p] = "serving")
      /\ UNCHANGED <<dir, trusted, prepared, options, nth, loaded>>
  BY DEF LauncherTypeOK, Links, CloseFleet, ServerEnds, Enters
<1>2. SameFiles
  BY <1>1 DEF SameFiles
<1>3. \A q \in Guis \ {p} : SameStart(q)
  BY <1>1 DEF LauncherTypeOK, SameStart
<1>4. StartOK(p)'
  BY <1>1 DEF TrustInv, StartOK, AllowedHosts
<1>5. phase'[p] \notin Preparing
  BY <1>1 DEF Preparing
<1>6. QED
  BY <1>1, <1>2, <1>3, <1>4, <1>5, FilesStay

LEMMA TrustStep == LauncherTypeOK /\ NumberInv /\ TrustInv /\ [LauncherNext]_launcherVars => TrustInv'
<1> SUFFICES ASSUME LauncherTypeOK, NumberInv, TrustInv, [LauncherNext]_launcherVars, ~overlapped'
             PROVE  OnePrepares' /\ TrustKept' /\ \A q \in Guis : StartOK(q)'
  BY DEF TrustInv
<1>1. CASE UNCHANGED launcherVars
  <2>1. ~overlapped
    BY <1>1 DEF launcherVars
  <2>2. SameFiles /\ trusted' = trusted /\ \A q \in Guis : SameStart(q)
    BY <1>1 DEF launcherVars, SameFiles, SameStart
  <2>3. \A q \in Guis : StartOK(q)'
    BY <2>1, <2>2, StartStays DEF TrustInv
  <2>4. OnePrepares'
    BY <1>1, <2>1 DEF launcherVars, TrustInv, OnePrepares
  <2>5. TrustKept'
    BY <1>1, <2>1 DEF launcherVars, TrustInv, TrustKept, CaValid
  <2>6. QED
    BY <2>3, <2>4, <2>5
<1>2. CASE CertificateAges
  <2>1. /\ ~overlapped /\ dir \in Directory
        /\ UNCHANGED <<phase, options, nth, prepared, loaded, trusted, overlapped>>
    BY <1>2 DEF CertificateAges, LauncherTypeOK
  <2>2. dir' = [dir EXCEPT !.cert = [dir.cert EXCEPT !.fresh = FALSE]] /\ dir.cert \in Certificates
    BY <1>2, <2>1 DEF CertificateAges, Directory
  <2>3. dir'.cert = [dir.cert EXCEPT !.fresh = FALSE] /\ dir'.key = dir.key /\ dir'.ca = dir.ca
        /\ dir'.caKey = dir.caKey
    BY <2>1, <2>2 DEF Directory
  <2>4. SameFiles /\ \A q \in Guis : SameStart(q)
    BY <2>1, <2>2, <2>3 DEF SameFiles, SameStart, Certificates
  <2>5. \A q \in Guis : StartOK(q)'
    BY <2>1, <2>4, StartStays DEF TrustInv
  <2>6. OnePrepares'
    BY <2>1 DEF TrustInv, OnePrepares
  <2>7. TrustKept'
    BY <2>1, <2>3 DEF TrustInv, TrustKept, CaValid
  <2>8. QED
    BY <2>5, <2>6, <2>7
<1>3. ASSUME NEW p \in Guis, EndsEarly(p) \/ ReleaseLock(p) \/ StartGui(p)
      PROVE  OnePrepares' /\ TrustKept' /\ \A q \in Guis : StartOK(q)'
  <2>1. (Vanishes(p) \/ StartGui(p)) /\ overlapped' = overlapped
    BY <1>3 DEF EndsEarly, ReleaseLock, Vanishes, StartGui
  <2>2. QED
    BY <2>1, TrustEnds
<1>4. ASSUME NEW p \in Guis,
             \/ EnsureTls(p) \/ Generate(p) \/ ReplaceOne(p)
             \/ ReadToken(p) \/ LinkToken(p) \/ TakeLock(p)
      PROVE  OnePrepares' /\ TrustKept' /\ \A q \in Guis : StartOK(q)'
  <2>1. ~overlapped
    BY <1>4 DEF EnsureTls, Generate, ReplaceOne, ReadToken, LinkToken, TakeLock
  <2>2. QED
    BY <1>4, <2>1, TrustMakes, TrustReplaces, TrustGoesOn
<1>5. ASSUME NEW p \in Guis,
             \/ ServeAll(p) \/ Links(p) \/ CloseFleet(p)
             \/ \E server \in up[p] : ServerEnds(p, server)
      PROVE  OnePrepares' /\ TrustKept' /\ \A q \in Guis : StartOK(q)'
  <2>1. ~overlapped
    BY <1>5 DEF ServeAll, Links, CloseFleet, ServerEnds
  <2>2. QED
    BY <1>5, <2>1, TrustServes, TrustEndures
<1>6. QED
  BY <1>1, <1>2, <1>3, <1>4, <1>5, TrustListener DEF LauncherNext

LEMMA TrustInvariance == LauncherSpec => []TrustInv
<1>1. LauncherInit => TrustInv
  <2> SUFFICES ASSUME LauncherInit PROVE TrustInv
    OBVIOUS
  <2>1. trusted = {} /\ \A p \in Guis : phase[p] = "down"
    BY DEF LauncherInit
  <2>2. QED
    BY <2>1 DEF TrustInv, OnePrepares, TrustKept, StartOK, Preparing
<1>2. IInv => LauncherTypeOK /\ NumberInv
  BY DEF IInv
<1>3. QED
  BY <1>1, <1>2, Invariance, TrustStep, PTL DEF LauncherSpec

\* While starts do not overlap, whatever kills them and wherever in the replacement of the
\* files: the CA that clients were told to trust stays, a start that gets to its servers loads
\* a certificate and its key, and what a GUI serves with is signed by that CA and covers its
\* addresses.
THEOREM ClientsKeepTrustAlways == LauncherSpec => []ClientsKeepTrust
<1>1. TrustInv => ClientsKeepTrust
  BY DEF TrustInv, TrustKept, StartOK, CertCovers, ClientsKeepTrust
<1>2. QED
  BY <1>1, TrustInvariance, PTL

-----------------------------------------------------------------------------
(* The registry: its operations *)

\* Every registered sensor and every pending import is of a site that is there.
Sound(c) ==
  /\ \A d \in Devices : c.sensors[d] # None => c.sensors[d].site \in c.sites
  /\ \A p \in c.pending : p.site \in c.sites

\* An operation of the registry, whichever: from one sound registry to another.
Change(new) == Ready /\ Counted /\ new \in Registries /\ Sound(new) /\ Mutation(new)

LEMMA EmptySound == Empty \in Registries /\ Sound(Empty)
BY DEF Empty, Registries, Sound

LEMMA AddSiteSound ==
  ASSUME TypeOK, Sound(reg), NEW s \in Sites, AddSite(s)
  PROVE  \E new : Change(new)
<1>1. PICK new : new = [reg EXCEPT !.sites = @ \cup {s}]
  OBVIOUS
<1>2. reg \in Registries /\ reg.sites \cup {s} \in SUBSET Sites /\ reg.sensors \in [Devices -> Sensors \cup {None}] /\ reg.pending \in SUBSET Imports
  BY DEF TypeOK, Registries
<1>3. new = [sites |-> reg.sites \cup {s}, sensors |-> reg.sensors, pending |-> reg.pending] /\ new \in Registries
  BY <1>1, <1>2 DEF Registries
<1>4. Sound(new)
  BY <1>3 DEF Sound
<1>5. QED
  BY <1>1, <1>3, <1>4 DEF AddSite, Change

\* A registered sensor gets a record of a site that is there, or none.
LEMMA SensorSound ==
  ASSUME TypeOK, Sound(reg), NEW d \in Devices, NEW sensor \in Sensors \cup {None}, NEW pending \in SUBSET reg.pending,
         sensor # None => sensor.site \in reg.sites,
         NEW new, new = [sites |-> reg.sites, sensors |-> [reg.sensors EXCEPT ![d] = sensor], pending |-> pending]
  PROVE  new \in Registries /\ Sound(new)
<1>1. reg.sites \in SUBSET Sites /\ reg.sensors \in [Devices -> Sensors \cup {None}] /\ reg.pending \in SUBSET Imports
  BY DEF TypeOK, Registries
<1>2. [reg.sensors EXCEPT ![d] = sensor] \in [Devices -> Sensors \cup {None}]
  BY <1>1
<1>3. new \in Registries
  BY <1>1, <1>2 DEF Registries
<1>4. \A e \in Devices : new.sensors[e] = IF e = d THEN sensor ELSE reg.sensors[e]
  BY <1>1
<1>5. QED
  BY <1>3, <1>4 DEF Sound

LEMMA SensorsSound ==
  ASSUME TypeOK, Sound(reg), NEW d \in Devices, NEW s \in Sites, AddSensor(d, s) \/ UpdateSensor(d, s)
  PROVE  \E new : Change(new)
<1>1. reg \in Registries /\ reg.sensors \in [Devices -> Sensors \cup {None}] /\ reg.pending \in SUBSET Imports
  BY DEF TypeOK, Registries
<1>2. CASE AddSensor(d, s)
  <2>1. PICK sensor : sensor = Fresh(s)
    OBVIOUS
  <2>2. sensor \in Sensors /\ sensor.site = s
    BY <2>1 DEF Fresh, Sensors
  <2>3. PICK new : new = [reg EXCEPT !.sensors[d] = sensor]
    OBVIOUS
  <2>4. new = [sites |-> reg.sites, sensors |-> [reg.sensors EXCEPT ![d] = sensor], pending |-> reg.pending]
    BY <2>3, <1>1 DEF Registries
  <2>5. new \in Registries /\ Sound(new)
    BY <2>2, <2>4, <1>2, SensorSound DEF AddSensor
  <2>6. QED
    BY <1>2, <2>1, <2>3, <2>5 DEF AddSensor, Change
<1>3. CASE UpdateSensor(d, s)
  <2>1. PICK sensor : sensor = [site |-> s, addresses |-> reg.sensors[d].addresses]
    OBVIOUS
  <2>2. reg.sensors[d] \in Sensors
    BY <1>1, <1>3 DEF UpdateSensor, Registered
  <2>3. sensor \in Sensors /\ sensor.site = s /\ sensor = [reg.sensors[d] EXCEPT !.site = s]
    BY <2>1, <2>2 DEF Sensors
  <2>4. PICK new : new = [reg EXCEPT !.sensors[d].site = s]
    OBVIOUS
  <2>5. new = [sites |-> reg.sites, sensors |-> [reg.sensors EXCEPT ![d] = sensor], pending |-> reg.pending]
    BY <2>3, <2>4, <1>1 DEF Registries
  <2>6. new \in Registries /\ Sound(new)
    BY <2>3, <2>5, <1>3, SensorSound DEF UpdateSensor
  <2>7. QED
    BY <1>3, <2>4, <2>6 DEF UpdateSensor, Change
<1>4. QED
  BY <1>2, <1>3

LEMMA RemoveSound ==
  ASSUME TypeOK, Sound(reg), NEW d \in Devices, RemoveSensor(d)
  PROVE  \E new : Change(new)
<1>1. reg \in Registries /\ reg.pending \in SUBSET reg.pending
  BY DEF TypeOK
<1>2. PICK new : new = [reg EXCEPT !.sensors[d] = None]
  OBVIOUS
<1>3. new = [sites |-> reg.sites, sensors |-> [reg.sensors EXCEPT ![d] = None], pending |-> reg.pending]
  BY <1>1, <1>2 DEF Registries
<1>4. new \in Registries /\ Sound(new)
  BY <1>1, <1>3, SensorSound
<1>5. QED
  BY <1>2, <1>4 DEF RemoveSensor, Change

LEMMA MatchSound ==
  ASSUME TypeOK, Sound(reg), NEW d \in Devices, NEW a \in Addrs, MatchKnown(d, a) \/ MatchPending(d, a)
  PROVE  \E new : Change(new)
<1>1. reg \in Registries /\ reg.sensors \in [Devices -> Sensors \cup {None}] /\ reg.pending \in SUBSET Imports /\ host \in Hosts
  BY DEF TypeOK, Registries
<1>2. CASE MatchKnown(d, a)
  <2>1. reg.sensors[d] \in Sensors /\ reg.sensors[d] # None
    BY <1>1, <1>2 DEF MatchKnown, Registered
  <2>2. PICK sensor : sensor = [site |-> reg.sensors[d].site, addresses |-> [reg.sensors[d].addresses EXCEPT ![host] = a]]
    OBVIOUS
  <2>3. [reg.sensors[d].addresses EXCEPT ![host] = a] \in [Hosts -> Addrs \cup {None}]
    BY <2>1 DEF Sensors
  <2>4. sensor \in Sensors /\ sensor.site = reg.sensors[d].site
    BY <2>1, <2>2, <2>3 DEF Sensors
  <2>5. PICK new : new = [reg EXCEPT !.sensors[d].addresses[host] = a, !.pending = @ \ PendingAt(a)]
    OBVIOUS
  <2>6. [reg.sensors EXCEPT ![d].addresses[host] = a] = [reg.sensors EXCEPT ![d] = sensor]
    BY <2>1, <2>2 DEF Sensors
  <2>7. new = [sites |-> reg.sites, sensors |-> [reg.sensors EXCEPT ![d] = sensor], pending |-> reg.pending \ PendingAt(a)]
    BY <2>5, <2>6, <1>1 DEF Registries
  <2>8. sensor.site \in reg.sites
    BY <2>1, <2>4 DEF Sound
  <2>9. new \in Registries /\ Sound(new)
    <3>1. PICK pending : pending = reg.pending \ PendingAt(a)
      OBVIOUS
    <3>2. pending \in SUBSET reg.pending
      BY <3>1
    <3>3. QED
      BY <2>4, <2>7, <2>8, <3>1, <3>2, SensorSound
  <2>10. QED
    BY <1>2, <2>5, <2>9 DEF MatchKnown, Change
<1>3. CASE MatchPending(d, a)
  <2>1. PICK p \in PendingAt(a) :
          Mutation([reg EXCEPT !.sensors[d] = [site |-> p.site, addresses |-> [h \in Hosts |-> IF h = host THEN a ELSE None]],
                               !.pending = @ \ {p}])
    BY <1>3 DEF MatchPending
  <2>2. p \in reg.pending /\ p.site \in Sites /\ p.site \in reg.sites
    BY <1>1 DEF PendingAt, Imports, Sound
  <2>3. PICK sensor : sensor = [site |-> p.site, addresses |-> [h \in Hosts |-> IF h = host THEN a ELSE None]]
    OBVIOUS
  <2>4. sensor \in Sensors /\ sensor.site = p.site
    BY <2>2, <2>3 DEF Sensors
  <2>5. PICK new : new = [reg EXCEPT !.sensors[d] = sensor, !.pending = @ \ {p}]
    OBVIOUS
  <2>6. new = [sites |-> reg.sites, sensors |-> [reg.sensors EXCEPT ![d] = sensor], pending |-> reg.pending \ {p}]
    BY <2>5, <1>1 DEF Registries
  <2>7. new \in Registries /\ Sound(new)
    <3>1. PICK pending : pending = reg.pending \ {p}
      OBVIOUS
    <3>2. pending \in SUBSET reg.pending
      BY <3>1
    <3>3. QED
      BY <2>2, <2>4, <2>6, <3>1, <3>2, SensorSound
  <2>8. QED
    BY <1>3, <2>1, <2>3, <2>5, <2>7 DEF MatchPending, Change
<1>4. QED
  BY <1>2, <1>3

LEMMA ImportSound ==
  ASSUME TypeOK, Sound(reg), NEW s \in Sites, NEW as \in SUBSET Addrs, ImportSensorInfo(s, as)
  PROVE  \E new : Change(new)
<1>1. reg \in Registries /\ reg.sites \in SUBSET Sites /\ reg.sensors \in [Devices -> Sensors \cup {None}] /\ reg.pending \in SUBSET Imports /\ host \in Hosts
  BY DEF TypeOK, Registries
<1>2. PICK added : added = {[site |-> s, address |-> a, host |-> host] : a \in as \ KnownAt(s)}
  OBVIOUS
<1>3. added \in SUBSET Imports /\ \A p \in added : p.site = s
  <2>1. PICK new : new = as \ KnownAt(s)
    OBVIOUS
  <2>2. ASSUME NEW p \in added PROVE p \in Imports /\ p.site = s
    <3>1. PICK a \in new : p = [site |-> s, address |-> a, host |-> host]
      BY <1>2, <2>1
    <3>2. a \in Addrs
      BY <2>1
    <3>3. QED
      BY <1>1, <3>1, <3>2 DEF Imports
  <2>3. QED
    BY <2>2
<1>4. PICK new : new = [reg EXCEPT !.sites = @ \cup {s}, !.pending = @ \cup added]
  OBVIOUS
<1>5. new = [sites |-> reg.sites \cup {s}, sensors |-> reg.sensors, pending |-> reg.pending \cup added] /\ new \in Registries
  BY <1>1, <1>3, <1>4 DEF Registries
<1>6. Sound(new)
  BY <1>1, <1>3, <1>5 DEF Sound
<1>7. QED
  BY <1>2, <1>4, <1>5, <1>6 DEF ImportSensorInfo, Change

-----------------------------------------------------------------------------
(* Types *)

LEMMA TypeInitially == Init => TypeOK
<1> SUFFICES ASSUME Init PROVE TypeOK
  OBVIOUS
<1>1. Empty \in Registries
  BY EmptySound
<1>2. \A p \in Paths : disk[p] \in lasting[p] /\ lasting[p] \subseteq {None, Torn} \cup Contents(p)
  BY DEF Init
<1>3. hist \in Seq(Pieces)
  BY EmptySeq DEF Init
<1>4. left \in [ops : Nat, faults : Nat, next : Nat \ {0}] /\ clock \in Nat \ {0} /\ safe \in Nat
  BY RegistryAssumption DEF Init
<1>5. DOMAIN disk = Paths /\ DOMAIN lasting = Paths
  BY DEF Init
<1>6. QED
  BY <1>1, <1>2, <1>3, <1>4, <1>5 DEF Init, TypeOK

\* A snapshot's write, and a registry's.
LEMMA JobTyped ==
  ASSUME TypeOK
  PROVE  /\ Idle.pc = "idle" /\ Idle.path = 0 /\ ~Idle.synced
         /\ job.pc # "idle" <=> job # Idle
         /\ job # Idle => /\ job.path \in Paths /\ job.data \in Contents(job.path)
                          /\ job.path = 0 => job \in Saves
                          /\ job.path # 0 => job \in Snapshots
<1>1. Idle.pc = "idle" /\ Idle.path = 0 /\ ~Idle.synced
  <2>1. PICK w : w = Writing(0, None, None)
    OBVIOUS
  <2>2. w = [pc |-> "write", path |-> 0, data |-> None, before |-> None, synced |-> FALSE]
    BY <2>1 DEF Writing
  <2>3. w \in [pc : {"write"}, path : {0}, data : {None}, before : {None}, synced : {FALSE}]
    BY <2>2
  <2>4. QED
    BY <2>1, <2>3 DEF Idle
<1>2. ASSUME job # Idle, job.path = 0
      PROVE  job.pc # "idle" /\ job.path \in Paths /\ job.data \in Contents(job.path) /\ job \in Saves
  BY <1>2, RegistryAssumption DEF TypeOK, Saves, Steps, Contents, Paths
<1>3. ASSUME job # Idle, job.path # 0
      PROVE  job.pc # "idle" /\ job.path \in Paths /\ job.data \in Contents(job.path) /\ job \in Snapshots
  BY <1>3 DEF TypeOK, Snapshots, Steps, Contents
<1>4. QED
  BY <1>1, <1>2, <1>3

LEMMA Written ==
  ASSUME NEW path \in Paths, NEW data \in Contents(path), NEW before, IF path = 0 THEN before \in Registries ELSE before = None
  PROVE  /\ Writing(path, data, before).pc = "write" /\ Writing(path, data, before).path = path
         /\ Writing(path, data, before).data = data /\ Writing(path, data, before).before = before
         /\ ~Writing(path, data, before).synced
         /\ path = 0 => Writing(path, data, before) \in Saves
         /\ path # 0 => Writing(path, data, before) \in Snapshots
BY DEF Writing, Saves, Snapshots, Steps, Contents

LEMMA LeftTyped ==
  ASSUME TypeOK
  PROVE  /\ left.ops > 0 /\ Counted => left' \in [ops : Nat, faults : Nat, next : Nat \ {0}] /\ left'.next = left.next
         /\ left.ops > 0 /\ Numbered => left' \in [ops : Nat, faults : Nat, next : Nat \ {0}] /\ left'.next = left.next + 1
         /\ Faulty => left' \in [ops : Nat, faults : Nat, next : Nat \ {0}] /\ left'.next = left.next
         /\ left.faults > 0 /\ left' = [left EXCEPT !.faults = @ - 1, !.next = @ + 1] =>
              left' \in [ops : Nat, faults : Nat, next : Nat \ {0}] /\ left'.next = left.next + 1
<1>1. left \in [ops : Nat, faults : Nat, next : Nat \ {0}]
  BY DEF TypeOK
<1>2. PICK o, f, n : o = left.ops /\ f = left.faults /\ n = left.next /\ o \in Nat /\ f \in Nat /\ n \in Nat \ {0}
  BY <1>1
<1>3. o > 0 /\ Counted => left' \in [ops : Nat, faults : Nat, next : Nat \ {0}] /\ left'.next = n
  BY <1>1, <1>2 DEF Counted
<1>4. o > 0 /\ Numbered => left' \in [ops : Nat, faults : Nat, next : Nat \ {0}] /\ left'.next = n + 1
  <2>1. Numbered => left' = [left EXCEPT !.ops = o - 1, !.next = n + 1]
    BY <1>2 DEF Numbered
  <2>2. o > 0 => o - 1 \in Nat
    BY <1>2
  <2>3. PICK l : l = [left EXCEPT !.ops = o - 1]
    OBVIOUS
  <2>4. o > 0 => l \in [ops : Nat, faults : Nat, next : Nat \ {0}]
    BY <1>1, <2>2, <2>3
  <2>5. Numbered => left' = [l EXCEPT !.next = n + 1]
    BY <2>1, <2>3
  <2>6. QED
    BY <1>2, <2>4, <2>5
<1>5. Faulty => left' \in [ops : Nat, faults : Nat, next : Nat \ {0}] /\ left'.next = n
  BY <1>1, <1>2 DEF Faulty
<1>6. ASSUME f > 0, left' = [left EXCEPT !.faults = @ - 1, !.next = @ + 1]
      PROVE  left' \in [ops : Nat, faults : Nat, next : Nat \ {0}] /\ left'.next = n + 1
  <2>1. left' = [left EXCEPT !.faults = f - 1, !.next = n + 1]
    BY <1>2, <1>6
  <2>2. PICK l : l = [left EXCEPT !.faults = f - 1]
    OBVIOUS
  <2>3. l \in [ops : Nat, faults : Nat, next : Nat \ {0}]
    BY <1>1, <1>2, <1>6, <2>2
  <2>4. left' = [l EXCEPT !.next = n + 1]
    BY <2>1, <2>2
  <2>5. QED
    BY <1>2, <2>3, <2>4
<1>7. QED
  BY <1>2, <1>3, <1>4, <1>5, <1>6

LEMMA TypeChange ==
  ASSUME TypeOK, NEW new, Change(new)
  PROVE  TypeOK'
<1>1. left' \in [ops : Nat, faults : Nat, next : Nat \ {0}]
  BY LeftTyped DEF Change, Ready
<1>2. reg \in Registries /\ new \in Registries /\ 0 \in Paths
  BY RegistryAssumption DEF TypeOK, Change, Paths
<1>3. job' \in Saves /\ job'.path = 0 /\ reg' \in Registries
  BY <1>2, Written DEF Change, Mutation, Contents
<1>4. QED
  BY <1>1, <1>3 DEF TypeOK, Change, Mutation, files, history, time

LEMMA TypeWrite ==
  ASSUME TypeOK, WriteTemp \/ Fsync
  PROVE  TypeOK'
<1>1. job # Idle
  BY JobTyped DEF WriteTemp, Fsync
<1>2. PICK pc \in Steps, b \in BOOLEAN : job' = [job EXCEPT !.pc = pc, !.synced = b]
  <2>1. CASE WriteTemp
    <3>1. job.synced \in BOOLEAN
      BY <1>1, JobTyped DEF Saves, Snapshots
    <3>2. job' = [job EXCEPT !.pc = "sync", !.synced = job.synced]
      BY <1>1, <2>1, JobTyped DEF WriteTemp, Saves, Snapshots
    <3>3. QED
      BY <3>1, <3>2 DEF Steps
  <2>2. CASE Fsync
    BY <2>2 DEF Fsync, Steps
  <2>3. QED
    BY <2>1, <2>2
<1>3. /\ job.path = 0 => job' \in Saves
      /\ job.path # 0 => job' \in Snapshots
      /\ job'.path = job.path
  BY <1>1, <1>2, JobTyped DEF Saves, Snapshots
<1>4. QED
  BY <1>3 DEF TypeOK, WriteTemp, Fsync, files, history, time

LEMMA TypeReplace ==
  ASSUME TypeOK, Replace
  PROVE  TypeOK'
<1>1. job # Idle
  BY JobTyped DEF Replace
<1>2. job.path \in Paths /\ job.data \in Contents(job.path)
  BY <1>1, JobTyped
<1>3. DOMAIN disk' = Paths /\ DOMAIN lasting' = Paths
  BY DEF TypeOK, Replace
<1>4. ASSUME NEW p \in Paths PROVE disk'[p] \in lasting'[p] /\ lasting'[p] \subseteq {None, Torn} \cup Contents(p)
  BY <1>2 DEF TypeOK, Replace
<1>5. saved' \subseteq [name : Paths \ {0}, id : Nat]
  BY <1>1, <1>2 DEF TypeOK, Replace, Contents
<1>6. QED
  BY <1>3, <1>4, <1>5 DEF TypeOK, Replace, history, time

LEMMA TypeShot ==
  ASSUME TypeOK, SaveSnapshot
  PROVE  TypeOK'
<1>1. left' \in [ops : Nat, faults : Nat, next : Nat \ {0}]
  BY LeftTyped DEF SaveSnapshot, Ready
<1>2. PICK n \in FreeName : job' = Writing(n, left.next, None)
  BY DEF SaveSnapshot
<1>3. n \in Paths \ {0} /\ left.next \in Nat
  BY RegistryAssumption DEF FreeName, TypeOK, Paths
<1>4. job' \in Snapshots /\ job'.path # 0
  BY <1>2, <1>3, Written DEF Contents
<1>5. QED
  BY <1>1, <1>4 DEF TypeOK, SaveSnapshot, files, history, time

LEMMA TypeHistory ==
  ASSUME TypeOK, NEW id \in Devices \cup {None}, NEW a \in Addrs, NEW n, AppendHistory(id, a) \/ AppendFails(id, a, n)
  PROVE  /\ TypeOK' /\ left'.next = left.next + 1
         /\ \E piece \in Pieces :
              /\ hist' = Append(hist, piece) /\ piece.n \in {0, left.next}
              /\ piece.end => piece.n = left.next
              /\ kept' = IF Clean /\ piece.end THEN kept \cup {left.next} ELSE kept
<1>1. left' \in [ops : Nat, faults : Nat, next : Nat \ {0}] /\ left'.next = left.next + 1 /\ left.next \in Nat
  BY LeftTyped DEF AppendHistory, AppendFails, Ready, TypeOK
<1>2. PICK piece \in Pieces :
        /\ hist' = Append(hist, piece) /\ piece.n \in {0, left.next}
        /\ piece.end => piece.n = left.next
        /\ kept' = IF Clean /\ piece.end THEN kept \cup {left.next} ELSE kept
  <2>1. CASE AppendHistory(id, a)
    <3>1. PICK piece : piece = Piece(left.next, id, a, TRUE)
      OBVIOUS
    <3>2. piece \in Pieces /\ piece.n = left.next /\ piece.end
      BY <1>1, <3>1 DEF Piece, Pieces
    <3>3. QED
      BY <2>1, <3>1, <3>2 DEF AppendHistory
  <2>2. CASE AppendFails(id, a, n)
    <3>1. n \in {0, left.next} /\ n \in Nat /\ kept' = kept
      BY <1>1, <2>2 DEF AppendFails
    <3>2. PICK piece \in Beginnings(Piece(n, id, a, FALSE), n) : hist' = Append(hist, piece)
      BY <2>2 DEF AppendFails
    <3>3. PICK c \in BOOLEAN : piece = [Piece(n, id, a, FALSE) EXCEPT !.n = n, !.end = FALSE, !.cut = c]
      BY <3>2 DEF Beginnings
    <3>4. piece = [n |-> n, id |-> id, address |-> a, end |-> FALSE, cut |-> c]
      BY <3>3 DEF Piece
    <3>5. piece \in Pieces /\ piece.n = n /\ ~piece.end
      BY <3>1, <3>4 DEF Pieces
    <3>6. QED
      BY <3>1, <3>2, <3>5
  <2>3. QED
    BY <2>1, <2>2
<1>3. kept' \subseteq Nat
  BY <1>1, <1>2 DEF TypeOK
<1>4. hist' \in Seq(Pieces)
  <2>1. hist \in Seq(Pieces)
    BY DEF TypeOK
  <2>2. QED
    BY <1>2, <2>1
<1>5. UNCHANGED <<power, host, reg, job, files, safe, saved, time>>
  BY DEF AppendHistory, AppendFails
<1>6. TypeOK'
  BY <1>1, <1>3, <1>4, <1>5 DEF TypeOK, files, time
<1>7. QED
  BY <1>1, <1>2, <1>6

LEMMA TypeClock ==
  ASSUME TypeOK, Tick \/ SetBack \/ Crash \/ PowerCut \/ WriteFails
  PROVE  TypeOK'
<1>1. CASE Tick \/ SetBack
  <2>1. clock' \in Nat \ {0} /\ back' \in BOOLEAN
    <3>1. clock \in Nat \ {0} /\ back \in BOOLEAN
      BY DEF TypeOK
    <3>2. Tick => clock' = clock + 1 /\ back' = back
      BY DEF Tick
    <3>3. SetBack => clock' = 1 /\ back' = TRUE
      BY DEF SetBack
    <3>4. clock' \in Nat \ {0}
      BY <1>1, <3>1, <3>2, <3>3
    <3>5. back' \in BOOLEAN
      BY <1>1, <3>1, <3>2, <3>3, Zenon
    <3>6. QED
      BY <3>4, <3>5
  <2>2. UNCHANGED <<power, host, reg, job, files, history, saved, left>>
    BY <1>1 DEF Tick, SetBack
  <2>3. QED
    BY <2>1, <2>2 DEF TypeOK, files, history
<1>2. Empty \in Registries
  BY EmptySound
<1>3. CASE Crash \/ PowerCut
  <2>1. left' \in [ops : Nat, faults : Nat, next : Nat \ {0}]
    BY <1>3, LeftTyped DEF Crash, PowerCut
  <2>2. clock' \in Nat \ {0} /\ back' \in BOOLEAN
    BY <1>3, RegistryAssumption DEF Crash, PowerCut, TypeOK, time
  <2>3. QED
    BY <1>2, <1>3, <2>1, <2>2 DEF Crash, PowerCut, TypeOK, files, history
<1>4. CASE WriteFails
  <2>1. left' \in [ops : Nat, faults : Nat, next : Nat \ {0}]
    BY <1>4, LeftTyped DEF WriteFails
  <2>2. reg' \in Registries
    BY <1>4, JobTyped DEF WriteFails, TypeOK, Saves
  <2>3. QED
    BY <1>4, <2>1, <2>2 DEF WriteFails, TypeOK, files, history, time
<1>5. QED
  BY <1>1, <1>3, <1>4

LEMMA TypeForget ==
  ASSUME TypeOK, NEW p \in Paths, NEW c \in lasting[p], Forget(p, c)
  PROVE  TypeOK'
<1>1. c \in {None, Torn} \cup Contents(p)
  BY DEF TypeOK
<1>2. DOMAIN disk' = Paths /\ DOMAIN lasting' = Paths
  BY DEF TypeOK, Forget
<1>3. ASSUME NEW q \in Paths PROVE disk'[q] \in lasting'[q] /\ lasting'[q] \subseteq {None, Torn} \cup Contents(q)
  BY <1>1 DEF TypeOK, Forget
<1>4. QED
  BY <1>2, <1>3 DEF TypeOK, Forget, history, time

\* A file that lost its end is a beginning of it, and perhaps a piece of the next record.
LEMMA Shortened ==
  ASSUME hist \in Seq(Pieces), NEW i, Shorten(i), i \in 0..Len(hist)
  PROVE  /\ hist' \in Seq(Pieces) /\ Len(hist') \in {i, i + 1} /\ Len(hist') <= Len(hist)
         /\ \A k \in 1..i : hist'[k] = hist[k]
         /\ Len(hist') = i + 1 => hist'[i + 1].n \in {0, hist[i + 1].n} /\ ~hist'[i + 1].end
<1>1. i \in 0..(Len(hist) - 1) /\ Len(hist) \in Nat
  BY DEF Shorten
<1>2. PICK first : first = SubSeq(hist, 1, i)
  OBVIOUS
<1>3. first \in Seq(Pieces) /\ Len(first) = i /\ \A k \in 1..i : first[k] = hist[k]
  BY <1>1, <1>2
<1>4. CASE hist' = first
  BY <1>1, <1>3, <1>4
<1>5. CASE \E n \in {0, hist[i + 1].n} : \E piece \in Beginnings(hist[i + 1], n) : hist' = Append(first, piece)
  <2>1. PICK n \in {0, hist[i + 1].n} : \E piece \in Beginnings(hist[i + 1], n) : hist' = Append(first, piece)
    BY <1>5
  <2>2. PICK piece \in Beginnings(hist[i + 1], n) : hist' = Append(first, piece)
    BY <2>1
  <2>3. PICK c \in BOOLEAN : piece = [hist[i + 1] EXCEPT !.n = n, !.end = FALSE, !.cut = c]
    BY <2>2 DEF Beginnings
  <2>4. hist[i + 1] \in Pieces
    BY <1>1
  <2>5. piece \in Pieces /\ piece.n = n /\ ~piece.end
    <3>1. n \in Nat
      BY <2>3, <2>4 DEF Pieces
    <3>2. QED
      BY <2>3, <2>4, <3>1 DEF Pieces
  <2>6. hist' \in Seq(Pieces) /\ Len(hist') = i + 1 /\ hist'[i + 1] = piece /\ \A k \in 1..i : hist'[k] = first[k]
    BY <1>1, <1>3, <2>2, <2>5
  <2>7. QED
    BY <1>1, <1>3, <2>5, <2>6, <2>1
<1>6. QED
  BY <1>2, <1>4, <1>5 DEF Shorten

LEMMA TypeShorten ==
  ASSUME TypeOK, NEW i, Shorten(i), i \in 0..Len(hist)
  PROVE  TypeOK'
<1>1. hist' \in Seq(Pieces) /\ safe' \in Nat
  <2>1. hist \in Seq(Pieces)
    BY DEF TypeOK
  <2>2. hist' \in Seq(Pieces)
    BY <2>1, Shortened
  <2>3. QED
    BY <2>2 DEF Shorten
<1>2. QED
  BY <1>1 DEF TypeOK, Shorten, files, time

LEMMA TypeBegins ==
  ASSUME TypeOK, NEW h \in Hosts, Start(h)
  PROVE  TypeOK'
<1>1. reg' \in Registries
  <2>1. 0 \in Paths
    BY RegistryAssumption DEF Paths
  <2>2. disk[0] \in {None, Torn} \cup Registries
    BY <2>1 DEF TypeOK, Contents
  <2>3. QED
    BY <2>2, EmptySound DEF Start, Loads, Stored
<1>2. DOMAIN lasting' = Paths /\ \A p \in Paths : disk'[p] \in lasting'[p] /\ lasting'[p] \subseteq {None, Torn} \cup Contents(p)
  BY DEF TypeOK, Start
<1>3. safe' \in Nat /\ kept' \subseteq Nat /\ saved' \subseteq [name : Paths \ {0}, id : Nat]
  <2>1. safe' \in {safe, Len(hist)}
    BY DEF Start
  <2>2. kept' \subseteq kept
    BY DEF Start
  <2>3. saved' \subseteq saved
    BY DEF Start
  <2>4. QED
    BY <2>1, <2>2, <2>3 DEF TypeOK
<1>4. QED
  BY <1>1, <1>2, <1>3 DEF TypeOK, Start, time

-----------------------------------------------------------------------------
(* The registry and its file *)

Saving == job # Idle /\ job.path = 0
Shot == job # Idle /\ job.path # 0

\* What is in memory and what a start may find are sound; the file says what memory says, or,
\* while a change is saved, what it said before.
RegInv ==
  /\ Sound(reg)
  /\ \A c \in lasting[0] : c # None => c \in Registries /\ Sound(c)
  /\ power # "up" => job = Idle
  /\ Saving => Sound(job.before) /\ reg = job.data /\ Stored(disk[0]) = job.before
  /\ power = "up" /\ ~Saving => Stored(disk[0]) = reg
  /\ job.pc = "replace" => job.synced

\* The step is one of these.
LEMMA Cases ==
  ASSUME TypeOK, Sound(reg), [Next]_vars
  PROVE  \/ \E new : Change(new)
         \/ WriteTemp \/ Fsync \/ Replace \/ WriteFails \/ SaveSnapshot
         \/ Tick \/ SetBack \/ Crash \/ PowerCut
         \/ \E id \in Devices \cup {None}, a \in Addrs : AppendHistory(id, a) \/ \E n \in 0..left.next : AppendFails(id, a, n)
         \/ \E p \in Paths : \E c \in lasting[p] : Forget(p, c)
         \/ \E i \in 0..Len(hist) : Shorten(i)
         \/ \E h \in Hosts : Start(h)
         \/ UNCHANGED vars
<1>1. ASSUME NEW s \in Sites, AddSite(s) \/ \E as \in SUBSET Addrs : ImportSensorInfo(s, as)
      PROVE  \E new : Change(new)
  BY <1>1, AddSiteSound, ImportSound
<1>2. ASSUME NEW d \in Devices, RemoveSensor(d)
      PROVE  \E new : Change(new)
  BY <1>2, RemoveSound
<1>3. ASSUME NEW d \in Devices, NEW s \in Sites, AddSensor(d, s) \/ UpdateSensor(d, s)
      PROVE  \E new : Change(new)
  BY <1>3, SensorsSound
<1>4. ASSUME NEW d \in Devices, NEW a \in Addrs, MatchKnown(d, a) \/ MatchPending(d, a)
      PROVE  \E new : Change(new)
  BY <1>4, MatchSound
<1>5. QED
  BY <1>1, <1>2, <1>3, <1>4 DEF Next

LEMMA RegistryTypeStep == TypeOK /\ Sound(reg) /\ [Next]_vars => TypeOK'
<1> SUFFICES ASSUME TypeOK, Sound(reg), [Next]_vars PROVE TypeOK'
  OBVIOUS
<1>1. ASSUME NEW new, Change(new) PROVE TypeOK'
  BY <1>1, TypeChange
<1>2. CASE WriteTemp \/ Fsync
  BY <1>2, TypeWrite
<1>3. CASE Replace
  BY <1>3, TypeReplace
<1>4. CASE SaveSnapshot
  BY <1>4, TypeShot
<1>5. CASE WriteFails \/ Tick \/ SetBack \/ Crash \/ PowerCut
  BY <1>5, TypeClock
<1>6. ASSUME NEW id \in Devices \cup {None}, NEW a \in Addrs, NEW n, AppendHistory(id, a) \/ AppendFails(id, a, n)
      PROVE  TypeOK'
  BY <1>6, TypeHistory
<1>7. ASSUME NEW p \in Paths, NEW c \in lasting[p], Forget(p, c)
      PROVE  TypeOK'
  BY <1>7, TypeForget
<1>8. ASSUME NEW i \in 0..Len(hist), Shorten(i)
      PROVE  TypeOK'
  BY <1>8, TypeShorten
<1>9. ASSUME NEW h \in Hosts, Start(h)
      PROVE  TypeOK'
  BY <1>9, TypeBegins
<1>10. CASE UNCHANGED vars
  BY <1>10 DEF TypeOK, vars, files, history, time
<1>11. ASSUME NEW id \in Devices \cup {None}, NEW a \in Addrs, AppendHistory(id, a)
       PROVE  TypeOK'
  BY <1>6, <1>11
<1>12. QED
  BY <1>1, <1>2, <1>3, <1>4, <1>5, <1>6, <1>7, <1>8, <1>9, <1>10, <1>11, Cases

LEMMA RegInitially == Init => RegInv
<1> SUFFICES ASSUME Init PROVE RegInv
  OBVIOUS
<1>1. lasting[0] = {None} /\ power = "down" /\ job = Idle /\ reg = Empty
  BY RegistryAssumption DEF Init, Paths
<1>2. Idle.pc = "idle"
  BY DEF Idle, Writing
<1>3. QED
  BY <1>1, <1>2, EmptySound DEF RegInv, Saving

\* Steps that leave the registry, its file and the write under way as they are.
LEMMA RegKept ==
  ASSUME RegInv, UNCHANGED <<power, reg, job, files>>
  PROVE  RegInv'
<1>1. reg' = reg /\ job' = job /\ disk' = disk /\ lasting' = lasting /\ power' = power
  BY DEF files
<1>2. Saving' <=> Saving
  BY <1>1 DEF Saving
<1>3. Sound(reg)' /\ Sound(reg') /\ (Saving => Sound(job.before)')
  BY <1>1 DEF RegInv, Sound
<1>4. \A c \in lasting'[0] : c # None => c \in Registries /\ Sound(c)
  BY <1>1 DEF RegInv
<1>5. QED
  BY <1>1, <1>2, <1>3, <1>4 DEF RegInv, Stored

LEMMA RegChange ==
  ASSUME TypeOK, RegInv, NEW new, Change(new)
  PROVE  RegInv'
<1>1. reg \in Registries /\ new \in Registries /\ 0 \in Paths /\ job = Idle
  BY RegistryAssumption, JobTyped DEF TypeOK, Change, Ready, Paths
<1>2. /\ job'.pc = "write" /\ job'.path = 0 /\ job'.data = new /\ job'.before = reg /\ reg' = new
      /\ power' = "up" /\ power = "up" /\ disk' = disk /\ lasting' = lasting
  BY <1>1, Written DEF Change, Mutation, Contents, Ready, files
<1>3. job' # Idle
  BY <1>2, JobTyped
<1>4. Stored(disk[0]) = reg
  BY <1>1, <1>2 DEF RegInv, Saving
<1>5. QED
  BY <1>2, <1>3, <1>4 DEF RegInv, Saving, Change, Stored

LEMMA RegWrite ==
  ASSUME TypeOK, RegInv, WriteTemp \/ Fsync \/ Replace \/ WriteFails \/ SaveSnapshot
  PROVE  RegInv'
<1>1. 0 \in Paths /\ disk[0] \in lasting[0]
  BY RegistryAssumption DEF TypeOK, Paths
<1>2. CASE WriteTemp \/ Fsync
  <2>1. job # Idle /\ power' = power /\ reg' = reg /\ disk' = disk /\ lasting' = lasting /\ power = "up"
    BY <1>2, JobTyped DEF WriteTemp, Fsync, files
  <2>2. /\ job'.path = job.path /\ job'.data = job.data /\ job'.before = job.before
        /\ job'.pc \in {"sync", "replace"} /\ (job'.pc = "replace" => job'.synced)
    BY <1>2, <2>1, JobTyped DEF WriteTemp, Fsync, Saves, Snapshots
  <2>3. job' # Idle
    BY <2>2, JobTyped
  <2>4. QED
    BY <2>1, <2>2, <2>3 DEF RegInv, Saving, Stored
<1>3. CASE Replace
  <2>1. job # Idle /\ job.synced /\ job.path \in Paths /\ job.data \in Contents(job.path) /\ power = "up"
    BY <1>3, JobTyped DEF Replace, RegInv
  <2>2. job' = Idle /\ reg' = reg /\ power' = power
    BY <1>3 DEF Replace
  <2>3. CASE job.path = 0
    <3>1. disk'[0] = job.data /\ lasting'[0] = lasting[0] \cup {job.data}
      BY <1>1, <1>3, <2>1, <2>3 DEF Replace, TypeOK
    <3>2. job.data = reg /\ Sound(reg) /\ job.data \in Registries /\ job.data # None
      BY <2>1, <2>3, RegistryAssumption DEF RegInv, Saving, Contents
    <3>3. \A c \in lasting'[0] : c # None => c \in Registries /\ Sound(c)
      BY <3>1, <3>2 DEF RegInv
    <3>4. Stored(disk'[0]) = reg
      BY <3>1, <3>2 DEF Stored
    <3>5. QED
      BY <2>1, <2>2, <3>2, <3>3, <3>4, JobTyped DEF RegInv, Saving, Stored
  <2>4. CASE job.path # 0
    <3>1. disk'[0] = disk[0] /\ lasting'[0] = lasting[0]
      BY <1>1, <1>3, <2>1, <2>4 DEF Replace, TypeOK
    <3>2. QED
      BY <2>1, <2>2, <2>4, <3>1, JobTyped DEF RegInv, Saving, Stored
  <2>5. QED
    BY <2>3, <2>4
<1>4. CASE WriteFails
  <2>1. job # Idle /\ power = "up" /\ power' = power /\ job' = Idle /\ disk' = disk /\ lasting' = lasting
        /\ reg' = IF job.path = 0 THEN job.before ELSE reg
    BY <1>4, JobTyped DEF WriteFails, files
  <2>2. Sound(reg') /\ Stored(disk[0]) = reg'
    BY <2>1 DEF RegInv, Saving
  <2>3. QED
    BY <2>1, <2>2, JobTyped DEF RegInv, Saving, Stored
<1>5. CASE SaveSnapshot
  <2>1. PICK n \in FreeName : job' = Writing(n, left.next, None)
    BY <1>5 DEF SaveSnapshot
  <2>2. n \in Paths /\ n # 0 /\ left.next \in Contents(n)
    BY RegistryAssumption DEF FreeName, TypeOK, Paths, Contents
  <2>3. job'.path # 0 /\ job'.pc = "write"
    BY <2>1, <2>2, Written
  <2>4. job = Idle /\ power' = power /\ reg' = reg /\ disk' = disk /\ lasting' = lasting /\ power = "up"
    BY <1>5, JobTyped DEF SaveSnapshot, Ready, files
  <2>5. QED
    BY <2>3, <2>4 DEF RegInv, Saving, Stored
<1>6. QED
  BY <1>2, <1>3, <1>4, <1>5

LEMMA RegStops ==
  ASSUME TypeOK, RegInv, Crash \/ PowerCut
  PROVE  RegInv'
<1>1. power' # "up" /\ job' = Idle /\ reg' = Empty /\ lasting' = lasting
  BY DEF Crash, PowerCut, files
<1>2. QED
  BY <1>1, EmptySound, JobTyped DEF RegInv, Saving

LEMMA RegForget ==
  ASSUME TypeOK, RegInv, NEW p \in Paths, NEW c \in lasting[p], Forget(p, c)
  PROVE  RegInv'
<1>1. power = "cut" /\ power' = power /\ job' = job /\ reg' = reg /\ job = Idle
  BY DEF Forget, RegInv
<1>2. lasting'[0] \subseteq lasting[0]
  BY RegistryAssumption DEF Forget, TypeOK, Paths
<1>3. QED
  BY <1>1, <1>2, JobTyped DEF RegInv, Saving

LEMMA RegBegins ==
  ASSUME TypeOK, RegInv, NEW h \in Hosts, Start(h)
  PROVE  RegInv'
<1>1. 0 \in Paths /\ disk[0] \in lasting[0]
  BY RegistryAssumption DEF TypeOK, Paths
<1>2. power # "up" /\ job = Idle /\ job' = job /\ reg' = Stored(disk[0]) /\ disk' = disk
  BY DEF Start, RegInv
<1>3. lasting'[0] \subseteq lasting[0]
  BY <1>1 DEF Start
<1>4. Sound(reg')
  BY <1>1, <1>2, EmptySound DEF RegInv, Stored
<1>5. QED
  BY <1>2, <1>3, <1>4, JobTyped DEF RegInv, Saving, Stored

LEMMA RegStep == TypeOK /\ RegInv /\ [Next]_vars => RegInv'
<1> SUFFICES ASSUME TypeOK, RegInv, [Next]_vars PROVE RegInv'
  OBVIOUS
<1>1. ASSUME NEW new, Change(new) PROVE RegInv'
  BY <1>1, RegChange
<1>2. CASE WriteTemp \/ Fsync \/ Replace \/ WriteFails \/ SaveSnapshot
  BY <1>2, RegWrite
<1>3. CASE Crash \/ PowerCut
  BY <1>3, RegStops
<1>4. CASE Tick \/ SetBack
  BY <1>4, RegKept DEF Tick, SetBack
<1>5. ASSUME NEW id, NEW a, NEW n, AppendHistory(id, a) \/ AppendFails(id, a, n)
      PROVE  RegInv'
  BY <1>5, RegKept DEF AppendHistory, AppendFails
<1>6. ASSUME NEW p \in Paths, NEW c \in lasting[p], Forget(p, c)
      PROVE  RegInv'
  BY <1>6, RegForget
<1>7. ASSUME NEW i, Shorten(i)
      PROVE  RegInv'
  BY <1>7, RegKept DEF Shorten
<1>8. ASSUME NEW h \in Hosts, Start(h)
      PROVE  RegInv'
  BY <1>8, RegBegins
<1>9. CASE UNCHANGED vars
  BY <1>9, RegKept DEF vars, files
<1>10. Sound(reg)
  BY DEF RegInv
<1>11. QED
  BY <1>1, <1>2, <1>3, <1>4, <1>5, <1>6, <1>7, <1>8, <1>9, <1>10, Cases

LEMMA LoadsWhatIsSound == TypeOK /\ RegInv => RegistryLoads
<1>1. ASSUME RegInv, NEW c \in lasting[0] PROVE Loads(c)
  BY <1>1, RegistryAssumption DEF RegInv, Loads, Sound
<1>2. QED
  BY <1>1 DEF RegistryLoads

LEMMA SaysBeforeOrAfter == TypeOK /\ RegInv => OldOrNew
<1> SUFFICES ASSUME TypeOK, RegInv PROVE OldOrNew
  OBVIOUS
<1>1. job.pc # "idle" /\ job.path = 0 <=> Saving
  BY JobTyped DEF Saving
<1>2. QED
  BY <1>1 DEF OldOrNew, RegInv

-----------------------------------------------------------------------------
(* The history *)

\* Piece i begins a line and ends it.
Whole(i) == hist[i].end /\ (i > 1 => hist[i - 1].end)

\* Records are numbered in the order they are appended in, and what must be read back is on a
\* line of its own.
HistInv ==
  /\ \A i \in DOMAIN hist : hist[i].n < left.next
  /\ \A i, k \in DOMAIN hist : i < k /\ hist[i].n # 0 /\ hist[k].n # 0 => hist[i].n < hist[k].n
  /\ power # "cut" => \A n \in kept : n # 0 /\ \E i \in DOMAIN hist : hist[i].n = n /\ Whole(i)

LEMMA HistTyped ==
  ASSUME TypeOK
  PROVE  /\ hist \in Seq(Pieces) /\ Len(hist) \in Nat /\ DOMAIN hist = 1..Len(hist)
         /\ \A i \in 1..Len(hist) : hist[i] \in Pieces /\ hist[i].n \in Nat
         /\ left.next \in Nat \ {0} /\ kept \subseteq Nat
<1>1. hist \in Seq(Pieces) /\ left.next \in Nat \ {0} /\ kept \subseteq Nat
  BY DEF TypeOK
<1>2. \A i \in 1..Len(hist) : hist[i] \in Pieces
  BY <1>1
<1>3. \A piece \in Pieces : piece.n \in Nat
  BY DEF Pieces
<1>4. QED
  BY <1>1, <1>2, <1>3

LEMMA HistInitially == Init => HistInv
<1> SUFFICES ASSUME Init PROVE HistInv
  OBVIOUS
<1>1. DOMAIN hist = {} /\ kept = {}
  BY DEF Init
<1>2. QED
  BY <1>1 DEF HistInv

\* Steps that leave the file as it is; some take a number.
LEMMA HistKept ==
  ASSUME TypeOK, HistInv, UNCHANGED hist, left'.next >= left.next, left'.next \in Nat, kept' \subseteq kept,
         power' # "cut" => power # "cut"
  PROVE  HistInv'
<1>1. ASSUME NEW i \in DOMAIN hist' PROVE hist'[i].n < left'.next
  BY HistTyped DEF HistInv
<1>2. ASSUME power' # "cut", NEW n \in kept' PROVE n # 0 /\ \E i \in DOMAIN hist' : hist'[i].n = n /\ Whole(i)'
  BY <1>2 DEF HistInv, Whole
<1>3. QED
  BY <1>1, <1>2 DEF HistInv

LEMMA HistAppend ==
  ASSUME TypeOK, HistInv, NEW id \in Devices \cup {None}, NEW a \in Addrs, NEW n, AppendHistory(id, a) \/ AppendFails(id, a, n)
  PROVE  HistInv'
<1>1. PICK piece \in Pieces :
        /\ hist' = Append(hist, piece) /\ piece.n \in {0, left.next}
        /\ piece.end => piece.n = left.next
        /\ kept' = IF Clean /\ piece.end THEN kept \cup {left.next} ELSE kept
  BY TypeHistory
<1>2. PICK m \in {0, left.next}, end \in BOOLEAN : m = piece.n /\ end = piece.end
  BY <1>1 DEF Pieces
<1>3. /\ piece.n = m /\ piece.end = end /\ (end => m = left.next)
      /\ kept' = IF Clean /\ end THEN kept \cup {left.next} ELSE kept
  BY <1>1, <1>2
<1>4. left'.next = left.next + 1 /\ power # "cut"
  BY TypeHistory DEF AppendHistory, AppendFails, Ready
<1>5. PICK len \in Nat : len = Len(hist)
  BY HistTyped
<1>6. DOMAIN hist' = 1..(len + 1) /\ hist'[len + 1] = piece /\ \A i \in 1..len : hist'[i] = hist[i]
  BY <1>1, <1>2, <1>5, HistTyped
<1>7. ASSUME NEW i \in DOMAIN hist' PROVE hist'[i].n < left'.next
  BY <1>3, <1>4, <1>5, <1>6, HistTyped DEF HistInv
<1>8. ASSUME NEW i \in DOMAIN hist', NEW k \in DOMAIN hist', i < k, hist'[i].n # 0, hist'[k].n # 0
      PROVE  hist'[i].n < hist'[k].n
  <2>1. i \in 1..len /\ hist'[i] = hist[i] /\ i \in DOMAIN hist
    BY <1>5, <1>6, <1>8, HistTyped
  <2>2. CASE k = len + 1
    <3>1. hist'[k].n = left.next
      BY <1>3, <1>6, <1>8, <2>2
    <3>2. QED
      BY <2>1, <3>1 DEF HistInv
  <2>3. CASE k # len + 1
    <3>1. k \in 1..len /\ hist'[k] = hist[k] /\ k \in DOMAIN hist
      BY <1>5, <1>6, <2>3, HistTyped
    <3>2. QED
      BY <1>8, <2>1, <3>1 DEF HistInv
  <2>4. QED
    BY <2>2, <2>3
<1>9. ASSUME NEW k \in kept' PROVE k # 0 /\ \E i \in DOMAIN hist' : hist'[i].n = k /\ Whole(i)'
  <2>1. CASE k \in kept
    <3>1. k # 0 /\ \E i \in DOMAIN hist : hist[i].n = k /\ Whole(i)
      BY <1>4, <2>1 DEF HistInv
    <3>2. PICK i \in 1..len : hist[i].n = k /\ Whole(i)
      BY <1>5, <3>1, HistTyped
    <3>3. i \in 1..(len + 1) /\ (i > 1 => i - 1 \in 1..len)
      BY <3>2
    <3>4. QED
      BY <1>6, <3>1, <3>2, <3>3 DEF Whole
  <2>2. CASE k \notin kept
    <3>1. Clean /\ end /\ k = left.next
      BY <1>3, <1>9, <2>2
    <3>2. len > 0 => hist[len].end
      BY <1>5, <3>1, HistTyped DEF Clean
    <3>3. k # 0 /\ len + 1 \in 1..(len + 1) /\ (len + 1 > 1 => len \in 1..len /\ len > 0) /\ len + 1 - 1 = len
      BY <1>5, <3>1, HistTyped
    <3>4. hist'[len + 1].n = k /\ hist'[len + 1].end
      BY <1>1, <1>3, <1>6, <3>1
    <3>5. Whole(len + 1)'
      BY <1>6, <3>2, <3>3, <3>4 DEF Whole
    <3>6. QED
      BY <1>6, <3>3, <3>4, <3>5
  <2>3. QED
    BY <2>1, <2>2
<1>10. QED
  BY <1>7, <1>8, <1>9 DEF HistInv

LEMMA HistShorten ==
  ASSUME TypeOK, HistInv, NEW i \in 0..Len(hist), Shorten(i)
  PROVE  HistInv'
<1>1. PICK len \in Nat : len = Len(hist)
  BY HistTyped
<1>2. /\ hist' \in Seq(Pieces) /\ Len(hist') \in {i, i + 1} /\ Len(hist') <= len
      /\ \A k \in 1..i : hist'[k] = hist[k]
      /\ Len(hist') = i + 1 => hist'[i + 1].n \in {0, hist[i + 1].n}
  BY <1>1, Shortened, HistTyped
<1>3. DOMAIN hist' = 1..Len(hist')
  BY <1>2
<1>4. ASSUME NEW k \in DOMAIN hist'
      PROVE  k \in 1..len /\ hist'[k].n \in {0, hist[k].n}
  <2>1. PICK m \in Nat : m = Len(hist') /\ k \in 1..m /\ m \in {i, i + 1} /\ m <= len
    <3>1. i \in Nat
      BY <1>1
    <3>2. Len(hist') \in Nat
      BY <1>2, <3>1
    <3>3. QED
      BY <1>2, <1>3, <3>2
  <2>2. k \in 1..len /\ (k \in 1..i \/ (k = i + 1 /\ m = i + 1))
    BY <1>1, <2>1
  <2>3. QED
    BY <1>2, <2>1, <2>2
<1>5. left' = left /\ power' = "cut"
  BY DEF Shorten
<1>6. ASSUME NEW k \in DOMAIN hist' PROVE hist'[k].n < left'.next
  BY <1>1, <1>4, <1>5, HistTyped DEF HistInv
<1>7. ASSUME NEW k \in DOMAIN hist', NEW l \in DOMAIN hist', k < l, hist'[k].n # 0, hist'[l].n # 0
      PROVE  hist'[k].n < hist'[l].n
  <2>1. hist'[k].n = hist[k].n /\ hist'[l].n = hist[l].n /\ k \in DOMAIN hist /\ l \in DOMAIN hist
    BY <1>1, <1>4, <1>7, HistTyped
  <2>2. QED
    BY <1>7, <2>1 DEF HistInv
<1>8. QED
  BY <1>5, <1>6, <1>7 DEF HistInv

LEMMA HistBegins ==
  ASSUME TypeOK, HistInv, NEW h \in Hosts, Start(h)
  PROVE  HistInv'
<1>1. hist' = hist /\ left' = left
  BY DEF Start
<1>2. CASE power # "cut"
  <2>1. kept' \subseteq kept
    BY DEF Start
  <2>2. QED
    BY <1>1, <1>2, <2>1, HistKept, HistTyped
<1>3. CASE power = "cut"
  <2>1. ASSUME NEW n \in kept' PROVE n # 0 /\ \E i \in DOMAIN hist' : hist'[i].n = n /\ Whole(i)'
    <3>1. PICK i \in DOMAIN hist : IsRecord(i) /\ hist[i].n = n /\ hist[i].end
      BY <1>3, <2>1 DEF Start
    <3>2. QED
      BY <1>1, <3>1 DEF IsRecord, Whole
  <2>2. QED
    BY <1>1, <2>1 DEF HistInv
<1>4. QED
  BY <1>2, <1>3

LEMMA HistStep == TypeOK /\ Sound(reg) /\ HistInv /\ [Next]_vars => HistInv'
<1> SUFFICES ASSUME TypeOK, Sound(reg), HistInv, [Next]_vars PROVE HistInv'
  OBVIOUS
<1>1. left.next \in Nat
  BY HistTyped
<1>2. ASSUME NEW new, Change(new) PROVE HistInv'
  BY <1>1, <1>2, HistKept, LeftTyped DEF Change, Mutation, Ready, history
<1>3. CASE WriteTemp \/ Fsync \/ Replace \/ Tick \/ SetBack
  BY <1>1, <1>3, HistKept DEF WriteTemp, Fsync, Replace, Tick, SetBack, history
<1>4. CASE WriteFails \/ Crash \/ PowerCut
  <2>1. left'.next = left.next /\ hist' = hist /\ kept' = kept
    BY <1>4, LeftTyped DEF WriteFails, Crash, PowerCut, history
  <2>2. power # "cut"
    BY <1>4 DEF WriteFails, Crash, PowerCut
  <2>3. QED
    BY <1>1, <2>1, <2>2, HistKept
<1>5. CASE SaveSnapshot
  <2>1. left'.next = left.next + 1 /\ hist' = hist /\ kept' = kept /\ power' = power
    BY <1>5, LeftTyped DEF SaveSnapshot, Ready, history
  <2>2. QED
    BY <1>1, <2>1, HistKept
<1>6. ASSUME NEW id \in Devices \cup {None}, NEW a \in Addrs, NEW n, AppendHistory(id, a) \/ AppendFails(id, a, n)
      PROVE  HistInv'
  BY <1>6, HistAppend
<1>7. ASSUME NEW p, NEW c, Forget(p, c)
      PROVE  HistInv'
  BY <1>1, <1>7, HistKept DEF Forget, history
<1>8. ASSUME NEW i \in 0..Len(hist), Shorten(i)
      PROVE  HistInv'
  BY <1>8, HistShorten
<1>9. ASSUME NEW h \in Hosts, Start(h)
      PROVE  HistInv'
  BY <1>9, HistBegins
<1>10. CASE UNCHANGED vars
  BY <1>1, <1>10, HistKept DEF vars, history
<1>11. ASSUME NEW id \in Devices \cup {None}, NEW a \in Addrs, AppendHistory(id, a)
       PROVE  HistInv'
  BY <1>6, <1>11
<1>12. QED
  BY <1>2, <1>3, <1>4, <1>5, <1>6, <1>7, <1>8, <1>9, <1>10, <1>11, Cases

LEMMA KeepsWhatIsWhole == TypeOK /\ HistInv => HistoryKept
<1> SUFFICES ASSUME TypeOK, HistInv, power = "up" PROVE
      /\ \A n \in kept : \E i \in DOMAIN hist : IsRecord(i) /\ hist[i].n = n
      /\ \A i, k \in DOMAIN hist : i < k /\ IsRecord(i) /\ IsRecord(k) => hist[i].n < hist[k].n
  BY DEF HistoryKept
<1>1. ASSUME NEW n \in kept PROVE \E i \in DOMAIN hist : IsRecord(i) /\ hist[i].n = n
  <2>1. PICK i \in DOMAIN hist : n # 0 /\ hist[i].n = n /\ Whole(i)
    BY DEF HistInv
  <2>2. QED
    BY <2>1 DEF Whole, IsRecord
<1>2. ASSUME NEW i \in DOMAIN hist, NEW k \in DOMAIN hist, i < k, IsRecord(i), IsRecord(k)
      PROVE  hist[i].n < hist[k].n
  BY <1>2 DEF IsRecord, HistInv
<1>3. QED
  BY <1>1, <1>2

-----------------------------------------------------------------------------
(* The index of the history *)

\* A set of numbers up to a bound has a last one.
LEMMA LastOne ==
  ASSUME NEW b \in Nat, NEW S \in SUBSET (1..b), S # {}
  PROVE  \E i \in S : \A k \in S : k <= i
<1>1. PICK T : T = {b - i : i \in S}
  OBVIOUS
<1>2. T \subseteq Nat /\ T # {}
  <2>1. \A i \in S : b - i \in Nat
    OBVIOUS
  <2>2. QED
    BY <1>1, <2>1
<1>3. PICK R : R = OpToRel(<, Nat)
  OBVIOUS
<1>4. IsWellFoundedOn(R, Nat)
  BY <1>3, NatLessThanWellFounded
<1>5. PICK x \in T : \A y \in T : <<y, x>> \notin R
  BY <1>2, <1>4, WFMin
<1>6. \A y \in T : ~(y < x)
  BY <1>2, <1>3, <1>5 DEF OpToRel
<1>7. PICK i \in S : x = b - i
  BY <1>1
<1>8. ASSUME NEW k \in S PROVE k <= i
  BY <1>1, <1>6, <1>7
<1>9. QED
  BY <1>8

LEMMA IndexFindsTheLast == TypeOK => IndexIsRead
<1> SUFFICES ASSUME TypeOK, NEW d \in Devices, NEW as \in SUBSET Addrs
             PROVE  LastCalibration(d, as) = LastRead(d, as)
  BY DEF IndexIsRead
<1>1. PICK b \in Nat : b = Len(hist) /\ DOMAIN hist = 1..b
  BY HistTyped
<1>2. PICK read : read = ReadHistory(d, as)
  OBVIOUS
<1>3. PICK found : found = IndexById(d) \cup UNION {IndexByAddress(a) : a \in as}
  OBVIOUS
<1>4. d # None
  BY RegistryAssumption
<1>5. ASSUME NEW i \in found PROVE i \in read
  <2>1. CASE i \in IndexById(d)
    BY <1>2, <1>4, <2>1 DEF IndexById, ReadHistory
  <2>2. CASE \E a \in as : i \in IndexByAddress(a)
    BY <1>2, <2>2 DEF IndexByAddress, ReadHistory
  <2>3. QED
    BY <1>3, <2>1, <2>2
<1>6. ASSUME NEW i \in read, \A k \in read : k <= i
      PROVE  i \in found
  <2>1. i \in 1..b /\ IsRecord(i)
    BY <1>1, <1>2 DEF ReadHistory
  <2>2. ASSUME NEW k \in (i + 1)..b PROVE k \notin read /\ k \in DOMAIN hist
    BY <1>1, <1>6, <2>1
  <2>3. CASE hist[i].id = None
    <3>1. i \in IndexByAddress(hist[i].address) /\ hist[i].address \in as
      BY <1>1, <1>2, <2>1, <2>2, <2>3 DEF IndexByAddress, ReadHistory
    <3>2. QED
      BY <1>3, <3>1
  <2>4. CASE hist[i].id # None
    <3>1. i \in IndexById(d)
      BY <1>1, <1>2, <1>4, <2>1, <2>2, <2>4 DEF IndexById, ReadHistory
    <3>2. QED
      BY <1>3, <3>1
  <2>5. QED
    BY <2>3, <2>4
<1>7. read \in SUBSET (1..b)
  BY <1>1, <1>2 DEF ReadHistory
<1>8. LastCalibration(d, as) = {i \in found : \A k \in found : k <= i}
  BY <1>3 DEF LastCalibration
<1>9. LastRead(d, as) = {i \in read : \A k \in read : k <= i}
  BY <1>2 DEF LastRead
<1>10. ASSUME NEW i \in found, \A k \in found : k <= i
       PROVE  \A k \in read : k <= i
  <2>1. read # {}
    BY <1>5
  <2>2. PICK last \in read : \A k \in read : k <= last
    BY <1>7, <2>1, LastOne
  <2>3. last \in found
    BY <1>6, <2>2
  <2>4. last <= i /\ i \in read
    BY <1>5, <1>10, <2>3
  <2>5. i \in 1..b /\ last \in 1..b
    BY <1>7, <2>2, <2>4
  <2>6. ASSUME NEW k \in read PROVE k <= i
    <3>1. k \in 1..b /\ k <= last
      BY <1>7, <2>2
    <3>2. QED
      BY <2>4, <2>5, <3>1
  <2>7. QED
    BY <2>6
<1>11. QED
  BY <1>5, <1>6, <1>8, <1>9, <1>10

-----------------------------------------------------------------------------
(* The snapshots *)

SnapshotPaths == Paths \ {0}
\* The snapshots a start may find under a name.
Held(p) == lasting[p] \ {None}
Taken(p) == disk[p] # None

\* What was saved is in place, and the name that is about to be written is free, on the disk
\* and in what a power cut may leave.
PlaceInv ==
  /\ power # "cut" => /\ \A x \in saved : disk[x.name] = x.id
                      /\ \A p \in SnapshotPaths : ~Taken(p) => lasting[p] = {None}
  /\ Shot => ~Taken(job.path)

\* A new snapshot has a number of its own.
FreshInv ==
  /\ \A p \in SnapshotPaths : Held(p) \subseteq Nat /\ \A c \in Held(p) : c < left.next
  /\ Shot => job.data < left.next /\ \A p \in SnapshotPaths : \A c \in Held(p) : c < job.data

\* A name higher than any taken, and the first that was free.
FollowsAll(n) == \A p \in SnapshotPaths : (Taken(p) => p < n) /\ (clock <= p /\ p < n => Taken(p))

\* Unless the clock was set back: names are in the order of the numbers, those from now on are
\* taken without a gap, and after a power cut there is none of them.
OrderInv ==
  ~back =>
    /\ \A p, q \in SnapshotPaths : p < q => \A b \in Held(p), c \in Held(q) : b < c
    /\ \A p \in SnapshotPaths : Taken(p) => \A q \in clock..p : Taken(q)
    /\ Shot => FollowsAll(job.path)
    /\ power = "cut" => \A p \in SnapshotPaths : Held(p) # {} => p < clock

SnapInv == PlaceInv /\ FreshInv /\ OrderInv

LEMMA NamesTyped ==
  ASSUME TypeOK
  PROVE  /\ clock \in Nat \ {0} /\ MaxTime \in Nat /\ left.next \in Nat \ {0} /\ None \notin Nat
         /\ \A p \in SnapshotPaths : p \in Paths /\ p \in Nat \ {0} /\ disk[p] \in lasting[p] /\ lasting[p] \subseteq {None, Torn} \cup Nat
         /\ Shot => job.path \in SnapshotPaths /\ job.data \in Nat
<1>1. /\ clock \in Nat \ {0} /\ MaxTime \in Nat /\ left.next \in Nat \ {0} /\ None \notin Nat
  BY RegistryAssumption DEF TypeOK
<1>2. \A p \in SnapshotPaths : p \in Paths /\ p \in Nat \ {0} /\ disk[p] \in lasting[p] /\ lasting[p] \subseteq {None, Torn} \cup Nat
  BY <1>1 DEF TypeOK, SnapshotPaths, Paths, Contents
<1>3. Shot => job.path \in SnapshotPaths /\ job.data \in Nat
  BY JobTyped DEF Shot, SnapshotPaths, Contents
<1>4. QED
  BY <1>1, <1>2, <1>3

LEMMA SnapInitially == Init => SnapInv
<1> SUFFICES ASSUME Init PROVE SnapInv
  OBVIOUS
<1>1. TypeOK /\ job = Idle /\ saved = {} /\ power = "down"
  BY TypeInitially DEF Init
<1>2. \A p \in SnapshotPaths : ~Taken(p) /\ lasting[p] = {None} /\ Held(p) = {}
  BY <1>1, NamesTyped DEF Init, Taken, Held
<1>3. QED
  BY <1>1, <1>2 DEF SnapInv, PlaceInv, FreshInv, OrderInv, Shot

\* Steps that leave the files, and what is found saved, as they are, and begin no snapshot.
LEMMA SnapKept ==
  ASSUME TypeOK, SnapInv, UNCHANGED <<files, saved>>, left'.next >= left.next, left'.next \in Nat,
         ~Shot' \/ (Shot /\ job'.path = job.path /\ job'.data = job.data),
         power' = power \/ (power = "up" /\ power' = "down"),
         clock' >= clock, clock' \in Nat, back' \/ back' = back
  PROVE  SnapInv'
<1>1. disk' = disk /\ lasting' = lasting /\ saved' = saved
  BY DEF files
<1>2. \A p : Taken(p)' = Taken(p) /\ Held(p)' = Held(p)
  BY <1>1 DEF Taken, Held
<1>3. Shot' => Shot /\ job'.path = job.path /\ job'.data = job.data /\ job.path \in SnapshotPaths /\ job.data \in Nat
  BY NamesTyped
<1>4. power' = "cut" => power = "cut"
  OBVIOUS
<1>5. PlaceInv'
  BY <1>1, <1>2, <1>3 DEF SnapInv, PlaceInv, Taken
<1>6. FreshInv'
  <2>1. \A p \in SnapshotPaths : \A c \in Held(p) : c \in Nat /\ c < left.next
    BY DEF SnapInv, FreshInv
  <2>2. \A p \in SnapshotPaths : \A c \in Held(p) : c < left'.next
    BY <2>1, NamesTyped
  <2>3. \A p \in SnapshotPaths : Held(p)' \subseteq Nat /\ \A c \in Held(p)' : c < left'.next
    BY <1>2, <2>1, <2>2
  <2>4. ASSUME Shot' PROVE job'.data < left'.next /\ \A p \in SnapshotPaths : \A c \in Held(p)' : c < job'.data
    <3>1. job.data < left.next /\ \A p \in SnapshotPaths : \A c \in Held(p) : c < job.data
      BY <1>3, <2>4 DEF SnapInv, FreshInv
    <3>2. QED
      BY <1>2, <1>3, <2>4, <3>1, NamesTyped
  <2>5. QED
    BY <2>3, <2>4 DEF FreshInv
<1>7. OrderInv'
  <2> SUFFICES ASSUME ~back' PROVE OrderInv'
    BY DEF OrderInv
  <2>1. /\ \A p, q \in SnapshotPaths : p < q => \A b \in Held(p), c \in Held(q) : b < c
        /\ \A p \in SnapshotPaths : Taken(p) => \A q \in clock..p : Taken(q)
        /\ Shot => FollowsAll(job.path)
        /\ power = "cut" => \A p \in SnapshotPaths : Held(p) # {} => p < clock
    BY DEF SnapInv, OrderInv
  <2>2. \A p, q \in SnapshotPaths : p < q => \A b \in Held(p)', c \in Held(q)' : b < c
    BY <1>2, <2>1
  <2>3. ASSUME NEW p \in SnapshotPaths, Taken(p)', NEW q \in clock'..p PROVE Taken(q)'
    BY <1>2, <2>1, <2>3, NamesTyped
  <2>4. ASSUME Shot' PROVE FollowsAll(job.path)'
    <3>1. FollowsAll(job.path) /\ job'.path = job.path
      BY <1>3, <2>1, <2>4
    <3>2. ASSUME NEW p \in SnapshotPaths PROVE clock' <= p => clock <= p
      BY NamesTyped
    <3>3. QED
      BY <1>2, <3>1, <3>2 DEF FollowsAll
  <2>5. ASSUME power' = "cut", NEW p \in SnapshotPaths, Held(p)' # {} PROVE p < clock'
    <3>1. p < clock
      BY <1>2, <1>4, <2>1, <2>5
    <3>2. QED
      BY <3>1, NamesTyped
  <2>6. QED
    BY <2>2, <2>3, <2>4, <2>5 DEF OrderInv
<1>8. QED
  BY <1>5, <1>6, <1>7 DEF SnapInv

LEMMA SnapTaken ==
  ASSUME TypeOK, SnapInv, RegInv, SaveSnapshot
  PROVE  SnapInv'
<1>1. PICK n \in FreeName : job' = Writing(n, left.next, None)
  BY DEF SaveSnapshot
<1>2. n \in SnapshotPaths /\ n \in clock..MaxTime /\ ~Taken(n) /\ \A k \in clock..(n - 1) : Taken(k)
  BY <1>1, NamesTyped DEF FreeName, SnapshotPaths, Paths, Taken
<1>3. job'.path = n /\ job'.data = left.next /\ n # 0
  BY <1>1, <1>2, Written, NamesTyped DEF SnapshotPaths, Contents
<1>4. /\ power = "up" /\ power' = power /\ disk' = disk /\ lasting' = lasting /\ saved' = saved /\ clock' = clock /\ back' = back
      /\ left'.next = left.next + 1
  BY LeftTyped DEF SaveSnapshot, Ready, files, time
<1>5. \A p : Taken(p)' = Taken(p) /\ Held(p)' = Held(p)
  BY <1>4 DEF Taken, Held
<1>6. PlaceInv'
  BY <1>2, <1>3, <1>4, <1>5 DEF SnapInv, PlaceInv
<1>7. FreshInv'
  <2>1. ASSUME NEW p \in SnapshotPaths, NEW c \in Held(p) PROVE c \in Nat /\ c < left.next /\ c < left'.next
    BY <1>4, NamesTyped DEF SnapInv, FreshInv
  <2>2. left.next < left'.next
    BY <1>4, NamesTyped
  <2>3. QED
    BY <1>3, <1>5, <2>1, <2>2 DEF FreshInv
<1>8. OrderInv'
  <2> SUFFICES ASSUME ~back PROVE OrderInv'
    BY <1>4 DEF OrderInv
  <2>1. /\ \A p, q \in SnapshotPaths : p < q => \A b \in Held(p), c \in Held(q) : b < c
        /\ \A p \in SnapshotPaths : Taken(p) => \A q \in clock..p : Taken(q)
    BY DEF SnapInv, OrderInv
  <2>2. ASSUME NEW p \in SnapshotPaths, Taken(p) PROVE p < n
    <3>1. p # n
      BY <1>2, <2>2
    <3>2. ~(n < p)
      BY <1>2, <2>1, <2>2, NamesTyped
    <3>3. QED
      BY <1>2, <3>1, <3>2, NamesTyped
  <2>3. ASSUME NEW p \in SnapshotPaths, clock <= p, p < n PROVE Taken(p)
    BY <1>2, <2>3, NamesTyped
  <2>4. FollowsAll(n)'
    BY <1>4, <1>5, <2>2, <2>3 DEF FollowsAll
  <2>5. QED
    BY <1>3, <1>4, <1>5, <2>1, <2>4 DEF OrderInv
<1>9. QED
  BY <1>6, <1>7, <1>8 DEF SnapInv

\* The snapshot comes into its place.
LEMMA SnapPlaced ==
  ASSUME TypeOK, SnapInv, RegInv, Replace, Shot
  PROVE  SnapInv'
<1>1. PICK n : n = job.path
  OBVIOUS
<1>2. PICK id : id = job.data
  OBVIOUS
<1>3. n \in SnapshotPaths /\ n # 0 /\ id \in Nat /\ id # None /\ job.synced /\ ~Taken(n) /\ lasting[n] = {None} /\ power = "up"
  BY <1>1, <1>2, NamesTyped DEF SnapInv, PlaceInv, RegInv, Replace, Shot
<1>4. /\ \A p \in SnapshotPaths : disk'[p] = (IF p = n THEN id ELSE disk[p]) /\ lasting'[p] = (IF p = n THEN {None, id} ELSE lasting[p])
      /\ saved' = saved \cup {[name |-> n, id |-> id]}
      /\ job' = Idle /\ power' = power /\ clock' = clock /\ back' = back /\ left' = left
  BY <1>1, <1>2, <1>3, NamesTyped DEF Replace, TypeOK, time
<1>5. \A p \in SnapshotPaths : /\ Taken(p)' <=> Taken(p) \/ p = n
                               /\ Held(p)' = IF p = n THEN {id} ELSE Held(p)
  BY <1>3, <1>4 DEF Taken, Held
<1>6. ~Shot'
  BY <1>4 DEF Shot
<1>7. PlaceInv'
  <2>1. ASSUME NEW x \in saved' PROVE disk'[x.name] = x.id
    <3>1. CASE x \in saved
      <4>1. x.name \in SnapshotPaths /\ x.id # None /\ disk[x.name] = x.id
        BY <1>3, <3>1, NamesTyped DEF SnapInv, PlaceInv, TypeOK, SnapshotPaths
      <4>2. x.name # n
        BY <1>3, <4>1 DEF Taken
      <4>3. QED
        BY <1>4, <4>1, <4>2
    <3>2. CASE x = [name |-> n, id |-> id]
      BY <1>3, <1>4, <3>2
    <3>3. QED
      BY <1>4, <3>1, <3>2
  <2>2. ASSUME NEW p \in SnapshotPaths, ~Taken(p)' PROVE lasting'[p] = {None}
    BY <1>3, <1>4, <1>5, <2>2 DEF SnapInv, PlaceInv
  <2>3. QED
    BY <1>6, <2>1, <2>2 DEF PlaceInv
<1>8. /\ id < left.next
      /\ \A p \in SnapshotPaths : \A c \in Held(p) : c \in Nat /\ c < id
  BY <1>2, NamesTyped DEF SnapInv, FreshInv
<1>9. FreshInv'
  <2>1. ASSUME NEW p \in SnapshotPaths PROVE Held(p)' \subseteq Nat /\ \A c \in Held(p)' : c < left'.next
    BY <1>3, <1>4, <1>5, <1>8 DEF SnapInv, FreshInv
  <2>2. QED
    BY <1>6, <2>1 DEF FreshInv
<1>10. OrderInv'
  <2> SUFFICES ASSUME ~back PROVE OrderInv'
    BY <1>4 DEF OrderInv
  <2>1. /\ \A p, q \in SnapshotPaths : p < q => \A b \in Held(p), c \in Held(q) : b < c
        /\ \A p \in SnapshotPaths : Taken(p) => \A q \in clock..p : Taken(q)
        /\ Shot => FollowsAll(job.path)
    BY DEF SnapInv, OrderInv
  <2>2. \A p \in SnapshotPaths : (Taken(p) => p < n) /\ (clock <= p /\ p < n => Taken(p))
    BY <1>1, <2>1 DEF FollowsAll
  <2>3. ASSUME NEW p \in SnapshotPaths, n < p PROVE Held(p) = {}
    <3>1. ~Taken(p)
      BY <1>3, <2>3, <2>2, NamesTyped
    <3>2. QED
      BY <1>3, <3>1 DEF SnapInv, PlaceInv, Held
  <2>4. ASSUME NEW p \in SnapshotPaths, NEW q \in SnapshotPaths, p < q, NEW b \in Held(p)', NEW c \in Held(q)' PROVE b < c
    <3>1. CASE p = n
      BY <1>5, <2>3, <2>4, <3>1, NamesTyped
    <3>2. CASE q = n
      BY <1>5, <1>8, <2>4, <3>2, NamesTyped
    <3>3. CASE p # n /\ q # n
      BY <1>5, <2>1, <2>4, <3>3
    <3>4. QED
      BY <3>1, <3>2, <3>3
  <2>5. ASSUME NEW p \in SnapshotPaths, Taken(p)', NEW q \in clock..p PROVE Taken(q)'
    <3>1. q \in SnapshotPaths /\ clock <= q /\ q <= p
      BY NamesTyped DEF SnapshotPaths, Paths
    <3>2. CASE Taken(p)
      BY <1>5, <2>1, <3>1, <3>2
    <3>3. CASE p = n
      BY <1>5, <2>2, <3>1, <3>3, NamesTyped
    <3>4. QED
      BY <1>5, <2>5, <3>2, <3>3
  <2>6. QED
    BY <1>3, <1>4, <1>6, <2>4, <2>5 DEF OrderInv
<1>11. QED
  BY <1>7, <1>9, <1>10 DEF SnapInv

\* The registry comes into its place: no snapshot changes.
LEMMA SnapApart ==
  ASSUME TypeOK, SnapInv, RegInv, Replace, ~Shot
  PROVE  SnapInv'
<1>1. job.path = 0
  BY JobTyped DEF Shot, Replace
<1>2. /\ \A p \in SnapshotPaths : disk'[p] = disk[p] /\ lasting'[p] = lasting[p]
      /\ saved' = saved /\ power = "up" /\ power' = power /\ clock' = clock /\ back' = back /\ left' = left
  BY <1>1, NamesTyped DEF Replace, TypeOK, SnapshotPaths, time
<1>3. \A p \in SnapshotPaths : (Taken(p)' <=> Taken(p)) /\ Held(p)' = Held(p)
  BY <1>2 DEF Taken, Held
<1>4. ~Shot'
  BY DEF Replace, Shot
<1>5. PlaceInv'
  <2>1. \A x \in saved : x.name \in SnapshotPaths
    BY DEF TypeOK, SnapshotPaths
  <2>2. QED
    BY <1>2, <1>3, <1>4, <2>1 DEF SnapInv, PlaceInv
<1>6. FreshInv'
  BY <1>2, <1>3, <1>4 DEF SnapInv, FreshInv
<1>7. OrderInv'
  <2> SUFFICES ASSUME ~back PROVE OrderInv'
    BY <1>2 DEF OrderInv
  <2>1. /\ \A p, q \in SnapshotPaths : p < q => \A b \in Held(p)', c \in Held(q)' : b < c
    BY <1>3 DEF SnapInv, OrderInv
  <2>2. ASSUME NEW p \in SnapshotPaths, Taken(p)', NEW q \in clock..p PROVE Taken(q)'
    <3>1. q \in SnapshotPaths
      BY NamesTyped DEF SnapshotPaths, Paths
    <3>2. QED
      BY <1>3, <2>2, <3>1 DEF SnapInv, OrderInv
  <2>3. QED
    BY <1>2, <1>4, <2>1, <2>2 DEF OrderInv
<1>8. QED
  BY <1>5, <1>6, <1>7 DEF SnapInv

\* Once the clock is set back nothing is said of the order.
LEMMA SnapSetBack ==
  ASSUME TypeOK, SnapInv, SetBack
  PROVE  SnapInv'
<1>1. disk' = disk /\ lasting' = lasting /\ saved' = saved /\ job' = job /\ power' = power /\ left' = left /\ back'
  BY DEF SetBack, files
<1>2. PlaceInv'
  BY <1>1 DEF SnapInv, PlaceInv, Taken, Shot
<1>3. FreshInv'
  BY <1>1 DEF SnapInv, FreshInv, Held, Shot
<1>4. OrderInv'
  BY <1>1 DEF OrderInv
<1>5. QED
  BY <1>2, <1>3, <1>4 DEF SnapInv

LEMMA SnapCut ==
  ASSUME TypeOK, SnapInv, RegInv, PowerCut
  PROVE  SnapInv'
<1>1. /\ disk' = disk /\ lasting' = lasting /\ saved' = saved /\ back' = back /\ left'.next = left.next
      /\ power' = "cut" /\ job' = Idle
      /\ clock' \in {t \in clock..(MaxTime + 1) : \A p \in Paths \ {0} : lasting[p] # {None} => p < t}
  BY LeftTyped DEF PowerCut, files
<1>2. \A p : Taken(p)' = Taken(p) /\ Held(p)' = Held(p)
  BY <1>1 DEF Taken, Held
<1>3. clock' \in Nat /\ clock' >= clock /\ \A p \in SnapshotPaths : Held(p) # {} => p < clock'
  BY <1>1, NamesTyped DEF SnapshotPaths, Held
<1>4. ~Shot'
  BY <1>1 DEF Shot
<1>5. PlaceInv'
  BY <1>1, <1>4 DEF PlaceInv
<1>6. FreshInv'
  BY <1>1, <1>2, <1>4 DEF SnapInv, FreshInv
<1>7. OrderInv'
  <2> SUFFICES ASSUME ~back PROVE OrderInv'
    BY <1>1 DEF OrderInv
  <2>1. \A p, q \in SnapshotPaths : p < q => \A b \in Held(p)', c \in Held(q)' : b < c
    BY <1>2 DEF SnapInv, OrderInv
  <2>2. ASSUME NEW p \in SnapshotPaths, Taken(p)', NEW q \in clock'..p PROVE Taken(q)'
    <3>1. q \in clock..p
      BY <1>3, NamesTyped
    <3>2. QED
      BY <1>2, <2>2, <3>1 DEF SnapInv, OrderInv
  <2>3. QED
    BY <1>2, <1>3, <1>4, <2>1, <2>2 DEF OrderInv
<1>8. QED
  BY <1>5, <1>6, <1>7 DEF SnapInv

LEMMA SnapForget ==
  ASSUME TypeOK, SnapInv, RegInv, NEW p \in Paths, NEW c \in lasting[p], Forget(p, c)
  PROVE  SnapInv'
<1>1. /\ power = "cut" /\ power' = power /\ saved' = saved /\ back' = back /\ left' = left /\ job' = job /\ clock' = clock /\ job = Idle
  BY DEF Forget, RegInv, time
<1>2. \A q \in SnapshotPaths : /\ disk'[q] = (IF q = p THEN c ELSE disk[q])
                               /\ lasting'[q] = (IF q = p THEN {c} ELSE lasting[q])
  BY NamesTyped DEF Forget, TypeOK, SnapshotPaths
<1>3. ASSUME NEW q \in SnapshotPaths
      PROVE  Held(q)' \subseteq Held(q) /\ (Taken(q)' => Held(q) # {})
  BY <1>2, NamesTyped DEF Held, Taken
<1>4. ~Shot'
  BY <1>1 DEF Shot
<1>5. PlaceInv'
  BY <1>1, <1>4 DEF PlaceInv
<1>6. FreshInv'
  BY <1>1, <1>3, <1>4 DEF SnapInv, FreshInv
<1>7. OrderInv'
  <2> SUFFICES ASSUME ~back PROVE OrderInv'
    BY <1>1 DEF OrderInv
  <2>1. \A q, r \in SnapshotPaths : q < r => \A b \in Held(q)', d \in Held(r)' : b < d
    BY <1>3 DEF SnapInv, OrderInv
  <2>2. \A q \in SnapshotPaths : Held(q)' # {} => q < clock
    BY <1>1, <1>3 DEF SnapInv, OrderInv
  <2>3. ASSUME NEW q \in SnapshotPaths, Taken(q)' PROVE q < clock
    BY <1>1, <1>3, <2>3 DEF SnapInv, OrderInv
  <2>4. ASSUME NEW q \in SnapshotPaths, Taken(q)', NEW r \in clock..q PROVE Taken(r)'
    BY <2>3, <2>4, NamesTyped
  <2>5. QED
    BY <1>1, <1>4, <2>1, <2>2, <2>4 DEF OrderInv
<1>8. QED
  BY <1>5, <1>6, <1>7 DEF SnapInv

LEMMA SnapBegins ==
  ASSUME TypeOK, SnapInv, RegInv, NEW h \in Hosts, Start(h)
  PROVE  SnapInv'
<1>1. /\ power # "up" /\ power' = "up" /\ job' = job /\ job = Idle /\ disk' = disk /\ back' = back /\ left' = left /\ clock' = clock
  BY DEF Start, RegInv, time
<1>2. \A p : Taken(p)' = Taken(p)
  BY <1>1 DEF Taken
<1>3. \A p \in SnapshotPaths : Held(p)' \subseteq Held(p)
  BY NamesTyped DEF Start, Held
<1>4. ~Shot'
  BY <1>1 DEF Shot
<1>5. PlaceInv'
  <2>1. CASE power = "cut"
    <3>1. saved' = {x \in saved : disk[x.name] = x.id} /\ \A p \in SnapshotPaths : lasting'[p] = {disk[p]}
      BY <2>1, NamesTyped DEF Start
    <3>2. QED
      BY <1>1, <1>4, <3>1 DEF PlaceInv, Taken
  <2>2. CASE power # "cut"
    <3>1. saved' = saved /\ lasting' = lasting
      BY <2>2 DEF Start
    <3>2. QED
      BY <1>1, <1>2, <1>4, <2>2, <3>1 DEF SnapInv, PlaceInv
  <2>3. QED
    BY <2>1, <2>2
<1>6. FreshInv'
  BY <1>1, <1>3, <1>4 DEF SnapInv, FreshInv
<1>7. OrderInv'
  <2> SUFFICES ASSUME ~back PROVE OrderInv'
    BY <1>1 DEF OrderInv
  <2>1. \A q, r \in SnapshotPaths : q < r => \A b \in Held(q)', d \in Held(r)' : b < d
    BY <1>3 DEF SnapInv, OrderInv
  <2>2. \A p \in SnapshotPaths : Taken(p)' => \A q \in clock'..p : Taken(q)'
    BY <1>1, <1>2 DEF SnapInv, OrderInv
  <2>3. QED
    BY <1>1, <1>4, <2>1, <2>2 DEF OrderInv
<1>8. QED
  BY <1>5, <1>6, <1>7 DEF SnapInv

LEMMA SnapStep == TypeOK /\ RegInv /\ SnapInv /\ [Next]_vars => SnapInv'
<1> SUFFICES ASSUME TypeOK, RegInv, SnapInv, [Next]_vars PROVE SnapInv'
  OBVIOUS
<1>1. left.next \in Nat /\ clock \in Nat /\ back \in BOOLEAN
  BY DEF TypeOK
<1>2. ASSUME NEW new, Change(new) PROVE SnapInv'
  <2>1. reg \in Registries /\ new \in Registries /\ 0 \in Paths
    BY <1>2, NamesTyped DEF TypeOK, Change, Paths
  <2>2. ~Shot'
    BY <1>2, <2>1, Written DEF Change, Mutation, Shot, Contents
  <2>3. left'.next = left.next /\ UNCHANGED <<files, saved, clock, back, power>>
    BY <1>2, LeftTyped DEF Change, Mutation, Ready, time
  <2>4. QED
    BY <1>1, <2>2, <2>3, SnapKept
<1>3. CASE WriteTemp \/ Fsync
  <2>1. job # Idle /\ UNCHANGED <<files, saved, clock, back, power, left>>
    BY <1>3, JobTyped DEF WriteTemp, Fsync, time
  <2>2. job'.path = job.path /\ job'.data = job.data
    BY <1>3, <2>1, JobTyped DEF WriteTemp, Fsync, Saves, Snapshots
  <2>3. QED
    BY <1>1, <2>1, <2>2, SnapKept DEF Shot
<1>4. CASE Replace
  BY <1>4, SnapPlaced, SnapApart
<1>5. CASE WriteFails \/ Crash
  <2>1. left'.next = left.next /\ UNCHANGED <<files, saved, clock, back>> /\ job' = Idle
        /\ (power' = power \/ (power = "up" /\ power' = "down"))
    BY <1>5, LeftTyped DEF WriteFails, Crash, time
  <2>2. QED
    BY <1>1, <2>1, SnapKept DEF Shot
<1>6. CASE SaveSnapshot
  BY <1>6, SnapTaken
<1>7. CASE Tick
  <2>1. UNCHANGED <<files, saved, left, job, power, back>> /\ clock' = clock + 1
    BY <1>7 DEF Tick
  <2>2. QED
    BY <1>1, <2>1, SnapKept DEF Shot
<1>8. CASE SetBack
  BY <1>8, SnapSetBack
<1>9. CASE PowerCut
  BY <1>9, SnapCut
<1>10. ASSUME NEW id \in Devices \cup {None}, NEW a \in Addrs, NEW n, AppendHistory(id, a) \/ AppendFails(id, a, n)
      PROVE  SnapInv'
  <2>1. left'.next = left.next + 1 /\ UNCHANGED <<files, saved, job, clock, back, power>>
    BY <1>10, TypeHistory DEF AppendHistory, AppendFails, time
  <2>2. QED
    BY <1>1, <2>1, SnapKept DEF Shot
<1>11. ASSUME NEW p \in Paths, NEW c \in lasting[p], Forget(p, c)
      PROVE  SnapInv'
  BY <1>11, SnapForget
<1>12. ASSUME NEW i, Shorten(i)
      PROVE  SnapInv'
  <2>1. UNCHANGED <<files, saved, job, clock, back, power, left>>
    BY <1>12 DEF Shorten, time
  <2>2. QED
    BY <1>1, <2>1, SnapKept DEF Shot
<1>13. ASSUME NEW h \in Hosts, Start(h)
      PROVE  SnapInv'
  BY <1>13, SnapBegins
<1>14. CASE UNCHANGED vars
  <2>1. UNCHANGED <<files, saved, job, clock, back, power, left>>
    BY <1>14 DEF vars, time
  <2>2. QED
    BY <1>1, <2>1, SnapKept DEF Shot
<1>15. ASSUME NEW id \in Devices \cup {None}, NEW a \in Addrs, AppendHistory(id, a)
       PROVE  SnapInv'
  BY <1>10, <1>15
<1>16. Sound(reg)
  BY DEF RegInv
<1>17. QED
  BY <1>2, <1>3, <1>4, <1>5, <1>6, <1>7, <1>8, <1>9, <1>10, <1>11, <1>12, <1>13, <1>14, <1>15, <1>16, Cases

\* Of a finite set of numbers, one has as many above it as there are places before its own.
LEMMA Ranked ==
  ASSUME NEW S \in SUBSET Nat, IsFiniteSet(S), NEW i \in 1..Cardinality(S)
  PROVE  \E n \in S : Cardinality({k \in S : k > n}) = i - 1
<1>1. PICK f : f = [n \in S |-> Cardinality({k \in S : k > n})]
  OBVIOUS
<1>2. PICK size \in Nat : size = Cardinality(S)
  BY FS_CardinalityType
<1>3. ASSUME NEW n \in S
      PROVE  IsFiniteSet({k \in S : k > n}) /\ f[n] \in 0..(size - 1)
  <2>1. PICK above : above = {k \in S : k > n}
    OBVIOUS
  <2>2. above \in SUBSET S /\ above # S
    BY <2>1
  <2>3. IsFiniteSet(above) /\ Cardinality(above) <= size /\ Cardinality(above) # size
    BY <1>2, <2>2, FS_Subset
  <2>4. Cardinality(above) \in Nat
    BY <2>3, FS_CardinalityType
  <2>5. f[n] = Cardinality(above)
    BY <1>1, <2>1
  <2>6. QED
    BY <1>2, <2>1, <2>3, <2>4, <2>5
<1>4. ASSUME NEW m \in S, NEW n \in S, m < n
      PROVE  f[m] # f[n]
  <2>1. PICK above : above = {k \in S : k > m}
    OBVIOUS
  <2>2. PICK higher : higher = {k \in S : k > n}
    OBVIOUS
  <2>3. higher \in SUBSET above /\ n \in above /\ n \notin higher
    <3>1. \A k \in S : k > n => k > m
      BY <1>4
    <3>2. ~(n > n) /\ n > m
      BY <1>4
    <3>3. QED
      BY <2>1, <2>2, <3>1, <3>2
  <2>4. IsFiniteSet(above)
    BY <1>3, <2>1
  <2>5. Cardinality(above) # Cardinality(higher)
    BY <2>3, <2>4, FS_Subset
  <2>6. QED
    BY <1>1, <2>1, <2>2, <2>5
<1>5. PICK T : T = 0..(size - 1)
  OBVIOUS
<1>6. IsFiniteSet(T) /\ Cardinality(T) = size
  BY <1>2, <1>5, FS_Interval
<1>7. f \in [S -> T]
  BY <1>1, <1>3, <1>5
<1>8. \A m, n \in S : f[m] = f[n] => m = n
  BY <1>4
<1>9. f \in Injection(S, T)
  BY <1>7, <1>8 DEF Injection, IsInjective
<1>10. f \in Surjection(S, T)
  BY <1>2, <1>6, <1>9, FS_Injection
<1>11. i - 1 \in T
  BY <1>2, <1>5
<1>12. PICK n \in S : f[n] = i - 1
  BY <1>10, <1>11 DEF Surjection
<1>13. QED
  BY <1>1, <1>12

\* What list_snapshots() lists: names of snapshots, the higher first.
LEMMA ListsHigherFirst ==
  ASSUME TypeOK, NEW i \in DOMAIN Listed, NEW k \in DOMAIN Listed, i < k
  PROVE  /\ Listed[i] \in SnapshotPaths /\ disk[Listed[i]] \notin {None, Torn}
         /\ Listed[k] \in SnapshotPaths /\ disk[Listed[k]] \notin {None, Torn}
         /\ Listed[k] < Listed[i]
<1>1. PICK S : S = {n \in Paths \ {0} : disk[n] \notin {None, Torn}}
  OBVIOUS
<1>2. S \in SUBSET Nat /\ S \subseteq SnapshotPaths /\ IsFiniteSet(S)
  <2>1. Paths \subseteq Nat /\ IsFiniteSet(Paths)
    BY NamesTyped, FS_Interval DEF Paths
  <2>2. S \in SUBSET Paths
    BY <1>1
  <2>3. QED
    BY <1>1, <2>1, <2>2, FS_Subset DEF SnapshotPaths
<1>3. PICK size \in Nat : size = Cardinality(S)
  BY <1>2, FS_CardinalityType
<1>4. Listed = [j \in 1..size |-> CHOOSE n \in S : Cardinality({m \in S : m > n}) = j - 1]
  BY <1>1, <1>3 DEF Listed
<1>5. i \in 1..size /\ k \in 1..size
  BY <1>4
<1>6. ASSUME NEW j \in 1..size
      PROVE  Listed[j] \in S /\ Cardinality({m \in S : m > Listed[j]}) = j - 1
  <2>1. \E n \in S : Cardinality({m \in S : m > n}) = j - 1
    BY <1>2, <1>3, Ranked
  <2>2. Listed[j] = CHOOSE n \in S : Cardinality({m \in S : m > n}) = j - 1
    BY <1>4
  <2>3. QED
    BY <2>1, <2>2
<1>7. PICK x \in S : x = Listed[i] /\ Cardinality({m \in S : m > x}) = i - 1
  BY <1>5, <1>6
<1>8. PICK y \in S : y = Listed[k] /\ Cardinality({m \in S : m > y}) = k - 1
  BY <1>5, <1>6
<1>9. y < x
  <2> SUFFICES ASSUME ~(y < x) PROVE FALSE
    OBVIOUS
  <2>1. PICK above : above = {m \in S : m > x}
    OBVIOUS
  <2>2. PICK higher : higher = {m \in S : m > y}
    OBVIOUS
  <2>3. higher \in SUBSET above /\ above \in SUBSET S
    <3>1. \A m \in S : m > y => m > x
      BY <1>2
    <3>2. QED
      BY <2>1, <2>2, <3>1
  <2>4. IsFiniteSet(above)
    BY <1>2, <2>3, FS_Subset
  <2>5. Cardinality(higher) <= Cardinality(above)
    BY <2>3, <2>4, FS_Subset
  <2>6. Cardinality(above) = i - 1 /\ Cardinality(higher) = k - 1
    BY <1>7, <1>8, <2>1, <2>2
  <2>7. QED
    BY <1>5, <2>5, <2>6
<1>10. QED
  BY <1>1, <1>2, <1>7, <1>8, <1>9

LEMMA KeepsSnapshots == TypeOK /\ SnapInv => SnapshotsKept
<1> SUFFICES ASSUME TypeOK, SnapInv, power = "up"
             PROVE  /\ \A x \in saved : disk[x.name] = x.id
                    /\ ~back => \A i, k \in DOMAIN Listed : i < k => disk[Listed[i]] > disk[Listed[k]]
  BY DEF SnapshotsKept
<1>1. \A x \in saved : disk[x.name] = x.id
  BY DEF SnapInv, PlaceInv
<1>2. ASSUME ~back, NEW i \in DOMAIN Listed, NEW k \in DOMAIN Listed, i < k
      PROVE  disk[Listed[i]] > disk[Listed[k]]
  <2>1. PICK m \in SnapshotPaths : m = Listed[i] /\ disk[m] \notin {None, Torn}
    BY <1>2, ListsHigherFirst
  <2>2. PICK n \in SnapshotPaths : n = Listed[k] /\ disk[n] \notin {None, Torn} /\ n < m
    BY <1>2, <2>1, ListsHigherFirst
  <2>3. disk[m] \in Held(m) /\ disk[n] \in Held(n) /\ disk[m] \in Nat /\ disk[n] \in Nat
    BY <2>1, <2>2, NamesTyped DEF Held
  <2>4. disk[n] < disk[m]
    BY <1>2, <2>2, <2>3 DEF SnapInv, OrderInv
  <2>5. QED
    BY <2>1, <2>2, <2>3, <2>4
<1>3. QED
  BY <1>1, <1>2

-----------------------------------------------------------------------------
RegistryInv == TypeOK /\ RegInv /\ HistInv /\ SnapInv

LEMMA RegistryInvariance == Spec => []RegistryInv
<1>1. Init => RegistryInv
  BY TypeInitially, RegInitially, HistInitially, SnapInitially DEF RegistryInv
<1>2. RegistryInv /\ [Next]_vars => RegistryInv'
  <2>1. RegInv => Sound(reg)
    BY DEF RegInv
  <2>2. QED
    BY <2>1, RegistryTypeStep, RegStep, HistStep, SnapStep DEF RegistryInv
<1>3. QED
  BY <1>1, <1>2, PTL DEF Spec

\* The data directory keeps its type: registry.json holds registries or nothing, a snapshot's
\* file the snapshot or nothing, at any number of sites, devices, hosts, operations and faults.
THEOREM RegistryTyped == Spec => []TypeOK
<1>1. RegistryInv => TypeOK
  BY DEF RegistryInv
<1>2. QED
  BY <1>1, RegistryInvariance, PTL

\* Whatever stops the process or the machine, wherever, the next start finds a registry it
\* accepts (write_json_atomic(), _load()).
THEOREM RegistryLoadsAlways == Spec => []RegistryLoads
<1>1. RegistryInv => RegistryLoads
  BY LoadsWhatIsSound DEF RegistryInv
<1>2. QED
  BY <1>1, RegistryInvariance, PTL

\* A reader finds the registry as it was before the change under way, or after it, and between
\* changes what memory says, also after one that failed (_mutation()).
THEOREM OldOrNewAlways == Spec => []OldOrNew
<1>1. RegistryInv => OldOrNew
  BY SaysBeforeOrAfter DEF RegistryInv
<1>2. QED
  BY <1>1, RegistryInvariance, PTL

\* A record appended to a file that ends with a newline keeps a line of its own, in its place,
\* whatever failed or stopped later, but for what a power cut takes (append_history(),
\* read_history(), which needs a file it can decode).
THEOREM HistoryKeptAlways == Spec => []HistoryKept
<1>1. RegistryInv => HistoryKept
  BY KeepsWhatIsWhole DEF RegistryInv
<1>2. QED
  BY <1>1, RegistryInvariance, PTL

\* No snapshot is replaced by a later one, and unless the clock was set back they are listed
\* newest first (save_snapshot(), list_snapshots()).
THEOREM SnapshotsKeptAlways == Spec => []SnapshotsKept
<1>1. RegistryInv => SnapshotsKept
  BY KeepsSnapshots DEF RegistryInv
<1>2. QED
  BY <1>1, RegistryInvariance, PTL

\* The hub's index finds the record that read_history() lists last, whatever was appended, torn
\* or lost, for a device and any addresses (Hub._last_calibration()).
THEOREM IndexIsReadAlways == Spec => []IndexIsRead
<1>1. RegistryInv => IndexIsRead
  BY IndexFindsTheLast DEF RegistryInv
<1>2. QED
  BY <1>1, RegistryInvariance, PTL
=============================================================================
