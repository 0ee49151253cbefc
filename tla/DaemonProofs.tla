---------------------------- MODULE DaemonProofs ----------------------------
(***************************************************************************)
(* What the search for the next connection promises, for any number of     *)
(* phones and of their appearances, any Bluetooth clients and whatever is  *)
(* plugged and unplugged meanwhile; and what the Bluetooth record lists,   *)
(* for any list of uuids.                                                  *)
(***************************************************************************)
EXTENDS Daemon, FiniteSetTheorems, SequenceTheorems, WellFoundedInduction, TLAPS

USE ConnectAssumption
-----------------------------------------------------------------------------
(* The invariants.                                                         *)

Modes   == {"away", "phone", "audio", "switching", "accessory"}
Entries == [dev : Phones, plug : Nat, mode : Modes]

\* A device on the bus has appeared there.
BusInv ==
  /\ usb \in [Phones -> Modes] /\ plug \in [Phones -> Nat]
  /\ \A d \in Phones : Present(d) => plug[d] > 0

\* A handle is of a device as it was plugged in at some time.
Known(h) == h.plug \in Nat /\ (h.dev \in Phones => h.plug <= plug[h.dev])

Holding == {"check", "setup", "endpoints"}
\* Main holds a handle outside a connection between openUsb and what ends with it;
SearchInv ==
  /\ list \in Seq(Entries) /\ (step = "check" => list # << >>)
  /\ Known(handle)
  /\ handle = NoHandle <=> step \notin Holding

\* it has a connection when its loop is left, and while it still looks at Bluetooth.
SessionInv ==
  /\ conn.kind \in {"none", "bt", "usb"}
  /\ conn.kind = "none" => conn = NoConnection
  /\ conn.kind = "usb" => Known(conn.handle)
  /\ step \notin {"bt", "session"} => conn = NoConnection

\* Every open handle is held, or has been lost.
OpenInv == open \in Int /\ lost \in Int /\ HandlesAccounted

ConnectInv ==
  /\ BusInv /\ SearchInv /\ SessionInv
  /\ OpenInv /\ EndpointsOfPhone /\ NeverSwitchedTwice
-----------------------------------------------------------------------------
(* The bus.                                                                *)

\* A step of the bus, or of main, as far as a handle can tell: no device comes back
\* as what it was, and a device changes its mode only by going away.
BusStep ==
  /\ BusInv'
  /\ \A d \in Phones :
       \/ plug'[d] = plug[d] /\ usb'[d] = usb[d]
       \/ plug'[d] = plug[d] /\ usb'[d] \in {"away", "switching"}
       \/ plug'[d] = plug[d] + 1

\* Then a handle of a device that has gone never comes to life again.
LEMMA NeverRevived ==
  ASSUME BusInv, BusStep, NEW h, Known(h)
  PROVE  /\ Known(h)'
         /\ Alive(h)' => Alive(h) /\ usb'[h.dev] = usb[h.dev]
BY DEF BusInv, BusStep, Known, Alive, Present

\* The bus itself takes such steps, and changes nothing that main holds.
LEMMA EnvironmentFrame ==
  ASSUME BusInv, Environment
  PROVE  BusStep /\ UNCHANGED <<service, search, conn, open, lost, step>>
<1>1. CASE ClientCalls \/ ClientGivesUp
  BY <1>1 DEF ClientCalls, ClientGivesUp, bus, search, BusStep, BusInv, Present
<1>2. ASSUME NEW d \in Phones, PlugIn(d) \/ Unplug(d) \/ Reenumerate(d)
      PROVE  BusStep /\ UNCHANGED <<service, search, conn, open, lost, step>>
  <2>1. BusInv'
    BY <1>2 DEF PlugIn, Unplug, Reenumerate, BusInv, Present, Modes
  <2>2. QED
    BY <1>2, <2>1 DEF PlugIn, Unplug, Reenumerate, BusStep, BusInv, search
<1>3. QED
  BY <1>1, <1>2 DEF Environment

\* A step that leaves the bus alone.
LEMMA BusRests ==
  ASSUME BusInv, UNCHANGED bus
  PROVE  BusStep
BY DEF BusInv, BusStep, bus, Present

\* The device list has an entry for each device that is there.
LEMMA ListType ==
  ASSUME BusInv, Enumerate
  PROVE  list' \in Seq(Entries)
<1> DEFINE S == {d \in Phones : Present(d)}
<1>1. Cardinality(S) \in Nat
  <2>1. IsFiniteSet(S)
    BY FS_Subset
  <2>2. QED
    BY <2>1, FS_CardinalityType
<1>2. PICK s \in SetToSeqs(S) :
        list' = [i \in 1 .. Len(s) |-> [dev |-> s[i], plug |-> plug[s[i]], mode |-> usb[s[i]]]]
  BY DEF Enumerate
<1>3. s \in [1 .. Cardinality(S) -> S]
  BY <1>2 DEF SetToSeqs
<1>4. s \in Seq(S) /\ Len(s) \in Nat /\ \A i \in 1 .. Len(s) : s[i] \in S
  <2> HIDE DEF S
  <2> DEFINE n == Cardinality(S)
  <2>1. s = [i \in 1 .. n |-> s[i]] /\ \A i \in 1 .. n : s[i] \in S
    BY <1>3
  <2>2. [i \in 1 .. n |-> s[i]] \in Seq(S) /\ Len([i \in 1 .. n |-> s[i]]) = n
    BY <1>1, <2>1
  <2>3. QED
    BY <1>1, <2>1, <2>2
<1>5. \A i \in 1 .. Len(s) : [dev |-> s[i], plug |-> plug[s[i]], mode |-> usb[s[i]]] \in Entries
  BY <1>4 DEF BusInv, Entries
<1>6. QED
  BY <1>2, <1>4, <1>5

\* What follows the end of a search.
LEMMA AfterUsbCases ==
  /\ conn' = NoConnection => AfterUsb \in {"bt", "poll"}
  /\ conn' # NoConnection => AfterUsb \in {"bt", "session"}
BY DEF AfterUsb
-----------------------------------------------------------------------------
(* The main thread.                                                        *)

\* The search, as far as it has found nothing: it holds at most one handle, and
\* closes it or loses it.
LEMMA SearchKeeps ==
  ASSUME ConnectInv, Poll \/ tryGetNextUSB \/ Enumerate \/ NothingFound \/ Skip \/ checkAndroid
  PROVE  ConnectInv'
<1>1. BusStep
  BY BusRests DEF ConnectInv, Poll, tryGetNextUSB, Enumerate, NothingFound, Skip, checkAndroid
<1>2. /\ Known(handle)' /\ list' \in Seq(Entries)
      /\ step' # "check"
  <2>1. step' # "check"
    BY AfterUsbCases DEF ConnectInv, SessionInv, Poll, tryGetNextUSB, Enumerate, NothingFound, Skip,
       checkAndroid
  <2>2. CASE Enumerate
    BY <2>2, <2>1, ListType DEF ConnectInv, SearchInv, Enumerate, bus, Known
  <2>3. list # << >> => Tail(list) \in Seq(Entries)
    BY DEF ConnectInv, SearchInv
  <2>4. CASE ~Enumerate
    <3>1. /\ UNCHANGED plug
          /\ handle' \in {handle, NoHandle} /\ list' \in {list, Tail(list)}
          /\ list' = Tail(list) => list # << >> \/ list' = list
      BY <2>4 DEF ConnectInv, SearchInv, Poll, tryGetNextUSB, NothingFound, Skip, checkAndroid, search, bus
    <3>2. Known(NoHandle)'
      BY <3>1 DEF ConnectInv, BusInv, Known, NoHandle
    <3>3. Known(handle)'
      BY <3>1, <3>2 DEF ConnectInv, SearchInv, Known
    <3>4. list' \in Seq(Entries)
      BY <2>3, <3>1 DEF ConnectInv, SearchInv
    <3>5. QED
      BY <2>1, <3>3, <3>4
  <2>5. QED
    BY <2>2, <2>4
<1>3. (handle = NoHandle <=> step \notin Holding)'
  BY AfterUsbCases DEF ConnectInv, SearchInv, Holding, Poll, tryGetNextUSB, Enumerate, NothingFound, Skip,
     checkAndroid, search, SessionInv
<1>4. SessionInv'
  BY AfterUsbCases DEF ConnectInv, SessionInv, Known, bus, Poll, tryGetNextUSB, Enumerate, NothingFound,
     Skip, checkAndroid, search
<1>5. OpenInv'
  BY AfterUsbCases DEF ConnectInv, OpenInv, HandlesAccounted, Held, SearchInv, Holding, NoHandle,
     Poll, tryGetNextUSB, Enumerate, NothingFound, Skip, checkAndroid, search
<1>6. EndpointsOfPhone'
  BY DEF ConnectInv, EndpointsOfPhone, Alive, Present, bus, search,
     Poll, tryGetNextUSB, Enumerate, NothingFound, Skip, checkAndroid
<1>7. NeverSwitchedTwice'
  BY AfterUsbCases DEF ConnectInv, SessionInv, NeverSwitchedTwice, Alive, Present, bus, search,
     Poll, tryGetNextUSB, Enumerate, NothingFound, Skip, checkAndroid
<1>8. QED
  BY <1>1, <1>2, <1>3, <1>4, <1>5, <1>6, <1>7 DEF ConnectInv, SearchInv, BusStep

\* Whichever device openUsb opens, it has the numbers of a phone, and so is one.
LEMMA OpenKeeps ==
  ASSUME ConnectInv, openUsb
  PROVE  ConnectInv'
<1> DEFINE e == Head(list)
<1>1. BusStep
  BY BusRests DEF ConnectInv, openUsb
<1>2. e \in Entries /\ list # << >>
  BY DEF ConnectInv, SearchInv, openUsb
<1>3. PICK d \in Phones :
        /\ Present(d) /\ Numbers(d, usb[d]) = Numbers(e.dev, e.mode)
        /\ handle' = [dev |-> d, plug |-> plug[d]]
  BY DEF openUsb
<1>4. usb[d] = "phone"
  <2>1. Numbers(e.dev, e.mode) \notin {"audio", "accessory"}
    BY <1>2 DEF openUsb, Eligible, Numbers, Entries
  <2>2. QED
    BY <1>3, <2>1 DEF Numbers, Present
<1>5. Known(handle)' /\ handle' # NoHandle
  BY <1>3 DEF ConnectInv, BusInv, Known, NoHandle, openUsb, bus
<1>6. handle = NoHandle /\ conn = NoConnection
  BY DEF ConnectInv, SearchInv, SessionInv, Holding, openUsb
<1>7. NeverSwitchedTwice'
  BY <1>3, <1>4 DEF NeverSwitchedTwice, openUsb, bus
<1>8. OpenInv'
  BY <1>5, <1>6 DEF ConnectInv, OpenInv, HandlesAccounted, Held, openUsb, NoConnection
<1>9. SearchInv' /\ SessionInv' /\ EndpointsOfPhone'
  BY <1>5, <1>6 DEF ConnectInv, SearchInv, SessionInv, EndpointsOfPhone, Holding, openUsb, NoConnection
<1>10. QED
  BY <1>1, <1>7, <1>8, <1>9 DEF ConnectInv, BusStep

\* The phone goes away, or has gone; its handle is closed, or lost.
LEMMA SetupKeeps ==
  ASSUME ConnectInv, setupAccessory
  PROVE  ConnectInv'
<1>1. conn = NoConnection /\ handle # NoHandle
  BY DEF ConnectInv, SearchInv, SessionInv, Holding, setupAccessory
<1>2. BusInv'
  BY DEF ConnectInv, BusInv, Present, Modes, setupAccessory
<1>3. SearchInv'
  BY <1>1, AfterUsbCases DEF SearchInv, Holding, Known, NoHandle, setupAccessory, ConnectInv, BusInv
<1>4. SessionInv' /\ EndpointsOfPhone'
  BY <1>1, AfterUsbCases DEF SessionInv, EndpointsOfPhone, NoConnection, setupAccessory
<1>5. OpenInv'
  BY <1>1 DEF ConnectInv, OpenInv, HandlesAccounted, Held, NoConnection, setupAccessory
<1>6. NeverSwitchedTwice'
  BY <1>1, AfterUsbCases DEF NeverSwitchedTwice, setupAccessory
<1>7. QED
  BY <1>2, <1>3, <1>4, <1>5, <1>6 DEF ConnectInv

\* A device in accessory mode becomes a connection.
LEMMA ConnectKeeps ==
  ASSUME ConnectInv, OpenAccessory \/ determineEndpoints
  PROVE  ConnectInv'
<1>1. BusStep
  BY BusRests DEF ConnectInv, OpenAccessory, determineEndpoints
<1>2. CASE OpenAccessory
  <2> DEFINE e == Head(list)
  <2>1. e \in Entries
    BY <1>2 DEF ConnectInv, SearchInv, OpenAccessory
  <2>2. handle = NoHandle /\ conn = NoConnection /\ step' \notin {"check", "setup", "bt", "session"}
    BY <1>2 DEF ConnectInv, SearchInv, SessionInv, Holding, OpenAccessory
  <2>3. IF Alive(e) THEN handle' # NoHandle /\ Known(handle)' /\ open' = open + 1 /\ step' = "endpoints"
        ELSE handle' = NoHandle /\ open' = open /\ step' = "crashed"
    BY <1>2, <2>1, <2>2 DEF ConnectInv, BusInv, Alive, NoHandle, Known, Entries, OpenAccessory, bus
  <2>4. SearchInv'
    BY <1>2, <2>2, <2>3 DEF ConnectInv, SearchInv, Holding, OpenAccessory, Known, bus, NoHandle
  <2>5. SessionInv' /\ EndpointsOfPhone' /\ NeverSwitchedTwice'
    BY <1>2, <2>2 DEF ConnectInv, SessionInv, EndpointsOfPhone, NeverSwitchedTwice, NoConnection, OpenAccessory
  <2>6. OpenInv'
    BY <1>2, <2>2, <2>3 DEF ConnectInv, OpenInv, HandlesAccounted, Held, NoConnection, OpenAccessory
  <2>7. QED
    BY <1>1, <2>4, <2>5, <2>6 DEF ConnectInv, BusStep
<1>3. CASE determineEndpoints
  <2>1. handle # NoHandle /\ conn = NoConnection /\ Known(handle)
    BY <1>3 DEF ConnectInv, SearchInv, SessionInv, Holding, determineEndpoints
  <2>2. /\ conn' = USBConnection(handle, endpoints') /\ handle' = NoHandle
        /\ conn' # NoConnection /\ conn'.kind = "usb" /\ conn'.handle = handle
        /\ conn'.endpoints = endpoints'
    BY <1>3 DEF determineEndpoints, USBConnection, NoConnection
  <2>3. step' \in {"bt", "session"}
    BY <1>3, <2>2, AfterUsbCases DEF determineEndpoints
  <2>4. SearchInv'
    BY <1>3, <2>2, <2>3 DEF ConnectInv, SearchInv, Holding, Known, NoHandle, determineEndpoints, BusInv, bus
  <2>5. SessionInv' /\ NeverSwitchedTwice'
    BY <1>3, <2>1, <2>2, <2>3 DEF SessionInv, NeverSwitchedTwice, Known, determineEndpoints, bus
  <2>6. EndpointsOfPhone'
    BY <1>3, <2>2 DEF EndpointsOfPhone, Alive, Present, determineEndpoints, bus
  <2>7. OpenInv'
    BY <1>3, <2>1, <2>2 DEF ConnectInv, OpenInv, HandlesAccounted, Held, NoConnection, determineEndpoints
  <2>8. QED
    BY <1>1, <2>4, <2>5, <2>6, <2>7 DEF ConnectInv, BusStep
<1>4. QED
  BY <1>2, <1>3

\* A Bluetooth client is accepted, or a connection ends.
LEMMA SessionKeeps ==
  ASSUME ConnectInv, Accept \/ closeAndroidConnection
  PROVE  ConnectInv'
<1>1. BusStep
  BY BusRests DEF ConnectInv, Accept, closeAndroidConnection
<1>2. /\ handle = NoHandle /\ UNCHANGED <<list, handle, plug>> /\ step' \notin {"check", "setup", "endpoints", "bt"}
      /\ \/ conn' = NoConnection
         \/ conn' = BTConnection /\ step' = "session"
  BY DEF ConnectInv, SearchInv, Holding, Accept, closeAndroidConnection, search, bus
<1>3. SearchInv'
  BY <1>2 DEF ConnectInv, SearchInv, Holding, Known, NoHandle, BusInv
<1>4. SessionInv' /\ EndpointsOfPhone' /\ NeverSwitchedTwice'
  BY <1>2 DEF SessionInv, EndpointsOfPhone, NeverSwitchedTwice, NoConnection, BTConnection,
     Accept, closeAndroidConnection
<1>5. OpenInv'
  BY <1>2 DEF ConnectInv, OpenInv, HandlesAccounted, Held, NoConnection, BTConnection,
     Accept, closeAndroidConnection, closeAccessoryUSB
<1>6. QED
  BY <1>1, <1>3, <1>4, <1>5 DEF ConnectInv, BusStep
-----------------------------------------------------------------------------
(* The theorems.                                                           *)

\* Nothing is held before the start, nor after the end.
LEMMA InitConnect == DaemonInit => ConnectInv
<1> SUFFICES ASSUME DaemonInit PROVE ConnectInv
  OBVIOUS
<1> USE DEF DaemonInit, ConnectInit, NothingHeld
<1>1. BusInv
  BY DEF BusInv, Modes, Present
<1>2. SearchInv /\ SessionInv
  BY DEF SearchInv, SessionInv, Known, NoHandle, NoConnection, Holding
<1>3. OpenInv /\ EndpointsOfPhone /\ NeverSwitchedTwice
  BY DEF OpenInv, HandlesAccounted, Held, NoConnection, EndpointsOfPhone, NeverSwitchedTwice
<1>4. QED
  BY <1>1, <1>2, <1>3 DEF ConnectInv

\* The bus may change under the feet of every step.
LEMMA EnvironmentKeeps ==
  ASSUME ConnectInv, Environment
  PROVE  ConnectInv'
<1>1. BusStep /\ UNCHANGED <<search, conn, open, lost, step>>
  BY EnvironmentFrame DEF ConnectInv
<1>2. \A h : Known(h) => Known(h)' /\ (Alive(h)' => Alive(h) /\ usb'[h.dev] = usb[h.dev])
  BY <1>1, NeverRevived DEF ConnectInv
<1>3. SearchInv' /\ SessionInv'
  BY <1>1, <1>2 DEF ConnectInv, SearchInv, SessionInv, Known, search
<1>4. OpenInv'
  BY <1>1 DEF ConnectInv, OpenInv, HandlesAccounted, Held, search
<1>5. EndpointsOfPhone' /\ NeverSwitchedTwice'
  BY <1>1, <1>2 DEF ConnectInv, SearchInv, SessionInv, EndpointsOfPhone, NeverSwitchedTwice, search, Alive
<1>6. QED
  BY <1>1, <1>3, <1>4, <1>5 DEF ConnectInv, BusStep

\* Nor does the start or the end of the process leave anything held.
LEMMA ProcessKeeps ==
  ASSUME ConnectInv, Start \/ stop
  PROVE  ConnectInv'
<1>1. BusInv'
  BY DEF ConnectInv, Start, stop, bus, BusInv, Present
<1>2. CASE Start
  <2>1. step = "off" /\ step' \in {"crashed", "exited", "poll"} /\ UNCHANGED <<bus, search, conn, open, lost>>
    BY <1>2 DEF Start, InitAccessory
  <2>2. SearchInv' /\ SessionInv' /\ EndpointsOfPhone' /\ NeverSwitchedTwice'
    BY <2>1 DEF ConnectInv, SearchInv, SessionInv, EndpointsOfPhone, NeverSwitchedTwice, Known, Holding,
       search, bus, NoConnection, NoHandle
  <2>3. OpenInv'
    BY <2>1 DEF ConnectInv, OpenInv, HandlesAccounted, Held, search
  <2>4. QED
    BY <1>1, <2>2, <2>3 DEF ConnectInv
<1>3. CASE stop
  <2>1. /\ handle' = NoHandle /\ conn' = NoConnection /\ open' = 0 /\ lost' = 0 /\ list' = << >>
        /\ step' = "exited"
    BY <1>3 DEF stop
  <2>2. SearchInv' /\ SessionInv' /\ EndpointsOfPhone' /\ NeverSwitchedTwice'
    BY <1>1, <2>1 DEF SearchInv, SessionInv, EndpointsOfPhone, NeverSwitchedTwice, Known, Holding,
       NoConnection, NoHandle, BusInv
  <2>3. OpenInv'
    BY <2>1 DEF OpenInv, HandlesAccounted, Held, NoConnection
  <2>4. QED
    BY <1>1, <2>2, <2>3 DEF ConnectInv
<1>4. QED
  BY <1>2, <1>3

\* The invariant of the daemon's connections.
THEOREM ConnectInvariant == DaemonSpec => []ConnectInv
<1>1. ASSUME ConnectInv, DaemonNext PROVE ConnectInv'
  BY <1>1, SearchKeeps, OpenKeeps, SetupKeeps, ConnectKeeps, SessionKeeps, EnvironmentKeeps, ProcessKeeps
     DEF DaemonNext, Loop, getNextAndroidConnection, findAndInitAccessory
<1>2. ASSUME ConnectInv, UNCHANGED daemonVars PROVE ConnectInv'
  BY <1>2 DEF daemonVars, connectVars, ConnectInv, BusInv, SearchInv, SessionInv, OpenInv, HandlesAccounted,
     Held, EndpointsOfPhone, NeverSwitchedTwice, Known, Alive, Present
<1>3. QED
  BY <1>1, <1>2, InitConnect, PTL DEF DaemonSpec

\* Every handle that is open is held by main or by the connection, or is one of those
\* counted as lost: the error paths close what they must, once, whenever a device goes
\* away (findAndInitAccessory, checkAndroid, closeUsb).
THEOREM HandlesAccountedHolds == DaemonSpec => []HandlesAccounted
BY ConnectInvariant, PTL DEF ConnectInv, OpenInv

\* The endpoints of a connection are those of its phone as long as that is there,
\* although they pass through global variables that keep those of an earlier phone
\* when a descriptor cannot be read (determineEndpoints).
THEOREM EndpointsOfPhoneHolds == DaemonSpec => []EndpointsOfPhone
BY ConnectInvariant, PTL DEF ConnectInv

\* A device that is told to enter accessory mode is not in it, whichever of several
\* devices of one model openUsb has opened, and whatever has happened since to it.
THEOREM NeverSwitchedTwiceHolds == DaemonSpec => []NeverSwitchedTwice
BY ConnectInvariant, PTL DEF ConnectInv
-----------------------------------------------------------------------------
(* The uuids.                                                              *)

\* A set of natural numbers that is not empty has a least element.
LEMMA LeastNatural ==
  ASSUME NEW S \in SUBSET Nat, S # {}
  PROVE  \E m \in S : \A n \in S : m <= n
<1>1. \E m \in S : \A n \in S : <<n, m>> \notin OpToRel(<, Nat)
  BY NatLessThanWellFounded, WFMin
<1>2. ASSUME NEW n \in Nat, NEW m \in Nat, n < m
      PROVE  <<n, m>> \in OpToRel(<, Nat)
  BY <1>2 DEF OpToRel
<1>3. PICK m \in S : \A n \in S : <<n, m>> \notin OpToRel(<, Nat)
  BY <1>1
<1>4. \A n \in S : ~(n < m)
  BY <1>2, <1>3
<1>5. QED
  BY <1>4

\* The function of Parsed, for the first n texts.
ParsedTo(f, texts, n) ==
  f = [i \in 0 .. n |->
         IF i = 0 THEN << >>
         ELSE IF sdp_strn2uuid(texts[i]) = 0 THEN Append(f[i - 1], texts[i].uuid)
         ELSE f[i - 1]]

\* It is there,
LEMMA ParsedExists ==
  ASSUME NEW texts, Len(texts) \in Nat
  PROVE  \E f : ParsedTo(f, texts, Len(texts)) /\ Parsed(texts) = f[Len(texts)]
<1> DEFINE Bad == {n \in Nat : ~\E f : ParsedTo(f, texts, n)}
<1>1. ASSUME Bad # {} PROVE FALSE
  <2>1. PICK n \in Bad : \A k \in Bad : n <= k
    <3>1. Bad \in SUBSET Nat
      OBVIOUS
    <3>2. QED
      BY <1>1, <3>1, LeastNatural
  <2>2. CASE n = 0
    <3>1. PICK f : f = [i \in 0 .. 0 |-> << >>]
      OBVIOUS
    <3>2. ParsedTo(f, texts, 0)
      <4>1. \A i \in 0 .. 0 : i = 0
        OBVIOUS
      <4>2. QED
        BY <3>1, <4>1 DEF ParsedTo
    <3>3. QED
      BY <2>1, <2>2, <3>2
  <2>3. CASE n # 0
    <3>1. n - 1 \in Nat /\ ~(n <= n - 1) /\ n \in Nat
      BY <2>1, <2>3
    <3>2. PICK f : ParsedTo(f, texts, n - 1)
      BY <2>1, <3>1
    <3>3. PICK x : x = IF sdp_strn2uuid(texts[n]) = 0 THEN Append(f[n - 1], texts[n].uuid) ELSE f[n - 1]
      OBVIOUS
    <3>4. PICK g : g = [i \in 0 .. n |-> IF i = n THEN x ELSE f[i]]
      OBVIOUS
    <3>5. \A i \in 0 .. n - 1 : i \in 0 .. n /\ i # n /\ g[i] = f[i]
      BY <3>1, <3>4
    <3>6. ASSUME NEW i \in 0 .. n
          PROVE  g[i] = IF i = 0 THEN << >>
                        ELSE IF sdp_strn2uuid(texts[i]) = 0 THEN Append(g[i - 1], texts[i].uuid)
                        ELSE g[i - 1]
      <4>1. CASE i = n
        <5>1. n - 1 \in 0 .. n - 1 /\ g[i] = x
          BY <3>1, <3>4, <4>1
        <5>2. g[n - 1] = f[n - 1]
          BY <3>5, <5>1
        <5>3. QED
          BY <2>3, <3>3, <4>1, <5>1, <5>2
      <4>2. CASE i # n /\ i = 0
        <5>1. 0 \in 0 .. n - 1
          BY <3>1
        <5>2. f[0] = << >>
          BY <3>2, <5>1 DEF ParsedTo
        <5>3. QED
          BY <3>5, <4>2, <5>1, <5>2
      <4>3. CASE i # n /\ i # 0
        <5>1. i \in 0 .. n - 1 /\ i - 1 \in 0 .. n - 1
          BY <3>1, <4>3
        <5>2. f[i] = IF sdp_strn2uuid(texts[i]) = 0 THEN Append(f[i - 1], texts[i].uuid) ELSE f[i - 1]
          BY <3>2, <4>3, <5>1 DEF ParsedTo
        <5>3. g[i] = f[i] /\ g[i - 1] = f[i - 1]
          BY <3>5, <5>1
        <5>4. QED
          BY <4>3, <5>2, <5>3
      <4>4. QED
        BY <4>1, <4>2, <4>3
    <3>7. DOMAIN g = 0 .. n /\ g = [i \in 0 .. n |-> g[i]]
      BY <3>4
    <3>8. ParsedTo(g, texts, n)
      BY <3>6, <3>7 DEF ParsedTo
    <3>9. QED
      BY <2>1, <3>8
  <2>4. QED
    BY <2>2, <2>3
<1>2. \E f : ParsedTo(f, texts, Len(texts))
  BY <1>1
<1>3. PICK f : f = CHOOSE g : ParsedTo(g, texts, Len(texts))
  OBVIOUS
<1>4. ParsedTo(f, texts, Len(texts))
  BY <1>2, <1>3
<1>5. Parsed(texts) = f[Len(texts)]
  BY <1>3 DEF Parsed, ParsedTo
<1>6. QED
  BY <1>4, <1>5
\* Names of uuids, those of the file and the three that are always there.
Names == STRING \union {"generic", "libAndroidAccessory", "serial port"}
Texts == [uuid : Names, chars : Nat, dashes : Nat]

\* A text is parsed if it is a uuid (sdp_strn2uuid).
LEMMA UuidsAreParsed ==
  ASSUME NEW t \in Texts,
         t = WellFormed(t.uuid) \/ t.chars < 32 \/ t.chars - t.dashes <= 30
  PROVE  sdp_strn2uuid(t) = 0 <=> t = WellFormed(t.uuid)
<1>1. CASE t = WellFormed(t.uuid)
  <2>1. t.chars = 36 /\ t.dashes = 4
    BY <1>1 DEF WellFormed
  <2>2. QED
    BY <1>1, <2>1 DEF sdp_strn2uuid
<1>2. CASE t # WellFormed(t.uuid)
  BY <1>2 DEF sdp_strn2uuid
<1>3. QED
  BY <1>1, <1>2

\* The names of one text more: one that is no uuid leaves them as they are,
LEMMA NamesStay ==
  ASSUME NEW texts, NEW n \in Nat \ {0}, NEW names, NamesWellFormed(texts, n - 1, names),
         texts[n] # WellFormed(texts[n].uuid)
  PROVE  NamesWellFormed(texts, n, names)
<1>1. WellFormedPlaces(texts, n) = WellFormedPlaces(texts, n - 1)
  BY DEF WellFormedPlaces
<1>2. QED
  BY <1>1 DEF NamesWellFormed

\* and a uuid is the last of them.
LEMMA NamesGrow ==
  ASSUME NEW texts, NEW n \in Nat \ {0}, NEW S, NEW names \in Seq(S),
         NamesWellFormed(texts, n - 1, names),
         texts[n] = WellFormed(texts[n].uuid), texts[n].uuid \in S
  PROVE  NamesWellFormed(texts, n, Append(names, texts[n].uuid))
<1>1. PICK P, Q : P = WellFormedPlaces(texts, n - 1) /\ Q = WellFormedPlaces(texts, n)
  OBVIOUS
<1>2. n \in Q /\ P \subseteq Q /\ P \subseteq 1 .. n - 1 /\ \A i \in Q : i = n \/ i \in P
  BY <1>1 DEF WellFormedPlaces
<1>3. PICK l \in Nat : l = Len(names)
  OBVIOUS
<1>4. PICK at \in [1 .. l -> P] :
        /\ \A k \in 1 .. l : names[k] = texts[at[k]].uuid
        /\ \A j, k \in 1 .. l : j < k => at[j] < at[k]
        /\ \A i \in P : \E k \in 1 .. l : at[k] = i
  BY <1>1, <1>3 DEF NamesWellFormed
<1>5. PICK new : new = Append(names, texts[n].uuid)
  OBVIOUS
<1>6. Len(new) = l + 1 /\ new[l + 1] = texts[n].uuid /\ \A k \in 1 .. l : new[k] = names[k]
  BY <1>3, <1>5
<1>7. PICK to : to = [k \in 1 .. l + 1 |-> IF k = l + 1 THEN n ELSE at[k]]
  OBVIOUS
<1>8. \A k \in 1 .. l + 1 : k = l + 1 \/ k \in 1 .. l
  BY <1>3
<1>9. /\ to[l + 1] = n /\ \A k \in 1 .. l : k \in 1 .. l + 1 /\ to[k] = at[k] /\ at[k] \in P
      /\ l + 1 \in 1 .. l + 1
  BY <1>3, <1>4, <1>7
<1>10. to \in [1 .. l + 1 -> Q]
  <2>1. \A k \in 1 .. l + 1 : to[k] \in Q
    BY <1>2, <1>8, <1>9
  <2>2. QED
    BY <1>7, <2>1
<1>11. \A k \in 1 .. l + 1 : new[k] = texts[to[k]].uuid
  BY <1>4, <1>6, <1>8, <1>9
<1>12. ASSUME NEW j \in 1 .. l + 1, NEW k \in 1 .. l + 1, j < k
       PROVE  to[j] < to[k]
  <2>1. j \in 1 .. l
    BY <1>3, <1>12
  <2>2. CASE k = l + 1
    <3>1. at[j] \in 1 .. n - 1 /\ to[j] = at[j] /\ to[k] = n
      BY <1>2, <1>9, <2>1, <2>2
    <3>2. QED
      BY <3>1
  <2>3. CASE k \in 1 .. l
    BY <1>4, <1>9, <1>12, <2>1, <2>3
  <2>4. QED
    BY <1>8, <2>2, <2>3
<1>13. ASSUME NEW i \in Q PROVE \E k \in 1 .. l + 1 : to[k] = i
  <2>1. CASE i = n
    BY <1>9, <2>1
  <2>2. CASE i \in P
    <3>1. PICK k \in 1 .. l : at[k] = i
      BY <1>4, <2>2
    <3>2. QED
      BY <1>9, <3>1
  <2>3. QED
    BY <1>2, <2>1, <2>2
<1>14. QED
  <2>1. Len(new) = l + 1
    BY <1>6
  <2>2. \E a \in [1 .. Len(new) -> Q] :
          /\ \A k \in 1 .. Len(new) : new[k] = texts[a[k]].uuid
          /\ \A j, k \in 1 .. Len(new) : j < k => a[j] < a[k]
          /\ \A i \in Q : \E k \in 1 .. Len(new) : a[k] = i
    <3>1. \A j, k \in 1 .. Len(new) : j < k => to[j] < to[k]
      BY <1>12, <2>1
    <3>2. to \in [1 .. Len(new) -> Q]
      BY <1>10, <2>1
    <3>3. \A k \in 1 .. Len(new) : new[k] = texts[to[k]].uuid
      BY <1>11, <2>1
    <3>4. \A i \in Q : \E k \in 1 .. Len(new) : to[k] = i
      BY <1>13, <2>1
    <3>5. QED
      BY <3>1, <3>2, <3>3, <3>4
  <2>3. NamesWellFormed(texts, n, new)
    BY <1>1, <2>2 DEF NamesWellFormed
  <2>4. QED
    BY <1>5, <2>3

\* So the loop has, behind each text, the names of those before it.
LEMMA ParsedNames ==
  ASSUME NEW texts, NEW n \in Nat, NEW f, ParsedTo(f, texts, n), NEW m \in 0 .. n,
         \A i \in 1 .. m : /\ texts[i] \in Texts
                           /\ \/ texts[i] = WellFormed(texts[i].uuid)
                              \/ texts[i].chars < 32 \/ texts[i].chars - texts[i].dashes <= 30
  PROVE  f[m] \in Seq(Names) /\ NamesWellFormed(texts, m, f[m])
<1> DEFINE Right(k) == f[k] \in Seq(Names) /\ NamesWellFormed(texts, k, f[k])
           Bad == {k \in 0 .. m : ~Right(k)}
<1> SUFFICES ASSUME Bad # {} PROVE FALSE
  OBVIOUS
<1>1. PICK k \in Bad : \A j \in Bad : k <= j
  <2>1. Bad \in SUBSET Nat
    OBVIOUS
  <2>2. QED
    BY <2>1, LeastNatural
<1>2. k # 0
  <2>1. f[0] = << >>
    BY DEF ParsedTo
  <2>2. << >> \in Seq(Names) /\ Len(<< >>) = 0
    OBVIOUS
  <2>3. NamesWellFormed(texts, 0, << >>)
    <3>1. PICK at : at = [k1 \in 1 .. 0 |-> 0]
      OBVIOUS
    <3>2. \A i \in 1 .. 0 : FALSE
      OBVIOUS
    <3>3. WellFormedPlaces(texts, 0) = {}
      BY <3>2 DEF WellFormedPlaces
    <3>4. at \in [1 .. 0 -> {}]
      BY <3>1, <3>2
    <3>5. QED
      BY <2>2, <3>2, <3>3, <3>4 DEF NamesWellFormed
  <2>4. Right(0)
    BY <2>1, <2>2, <2>3
  <2>5. QED
    BY <1>1, <2>4
<1>3. k \in 1 .. m /\ k \in Nat \ {0} /\ k - 1 \in 0 .. m /\ ~(k <= k - 1) /\ k \in 0 .. n
  BY <1>1, <1>2
<1>4. Right(k - 1)
  BY <1>1, <1>3
<1>5. f[k] = IF sdp_strn2uuid(texts[k]) = 0 THEN Append(f[k - 1], texts[k].uuid) ELSE f[k - 1]
  BY <1>2, <1>3 DEF ParsedTo
<1>6. sdp_strn2uuid(texts[k]) = 0 <=> texts[k] = WellFormed(texts[k].uuid)
  BY <1>3, UuidsAreParsed
<1>7. texts[k].uuid \in Names
  BY <1>3 DEF Texts
<1>8. CASE texts[k] = WellFormed(texts[k].uuid)
  <2>1. f[k] = Append(f[k - 1], texts[k].uuid)
    BY <1>5, <1>6, <1>8
  <2>2. NamesWellFormed(texts, k, Append(f[k - 1], texts[k].uuid))
    BY <1>3, <1>4, <1>7, <1>8, NamesGrow
  <2>3. Append(f[k - 1], texts[k].uuid) \in Seq(Names)
    BY <1>4, <1>7
  <2>4. Right(k)
    BY <2>1, <2>2, <2>3
  <2>5. QED
    BY <1>1, <2>4
<1>9. CASE texts[k] # WellFormed(texts[k].uuid)
  <2>1. f[k] = f[k - 1]
    BY <1>5, <1>6, <1>9
  <2>2. NamesWellFormed(texts, k, f[k - 1])
    BY <1>3, <1>4, <1>9, NamesStay
  <2>3. Right(k)
    BY <1>4, <2>1, <2>2
  <2>4. QED
    BY <1>1, <2>3
<1>10. QED
  BY <1>8, <1>9
\* The texts of a configuration file, or none.
Readable(u) ==
  /\ u \in Seq(Texts)
  /\ \A i \in 1 .. Len(u) :
       u[i] = WellFormed(u[i].uuid) \/ u[i].chars < 32 \/ u[i].chars - u[i].dashes <= 30

\* Lists of names can be grouped in any way.
LEMMA ConcatNames == \A a, b, c \in Seq(Names) : (a \o b) \o c = a \o (b \o c)
BY ConcatAssociative

\* What register_service makes of them and of the generic uuid: their names, then the
\* three that are always there.
LEMMA ClassesCascade ==
  ASSUME NEW u, Readable(u)
  PROVE  \E a \in Seq(Names) :
           /\ ServiceClasses(UuidList(u)) = a \o <<"generic", "libAndroidAccessory", "serial port">>
           /\ NamesWellFormed(u, Len(u), a)
<1>1. PICK t \in Seq(Texts), m \in Nat, g \in Texts : t = u /\ m = Len(t) /\ g = WellFormed("generic")
  <2>1. WellFormed("generic") \in Texts
    <3>1. "generic" \in Names
      BY DEF Names
    <3>2. QED
      BY <3>1 DEF WellFormed, Texts
  <2>2. QED
    BY <2>1 DEF Readable
<1>2. PICK w \in Seq(Texts) : w = Append(t, g)
  <2>1. Append(t, g) \in Seq(Texts)
    BY <1>1
  <2>2. QED
    BY <2>1
<1>3. Len(w) = m + 1 /\ w[m + 1] = g /\ \A i \in 1 .. m : w[i] = t[i]
  BY <1>1, <1>2
<1>4. Len(w) \in Nat
  BY <1>1, <1>3
<1>5. PICK f : ParsedTo(f, w, Len(w)) /\ Parsed(w) = f[Len(w)]
  BY <1>4, ParsedExists
<1>6. ASSUME NEW i \in 1 .. m
      PROVE  /\ w[i] \in Texts
             /\ \/ w[i] = WellFormed(w[i].uuid)
                \/ w[i].chars < 32 \/ w[i].chars - w[i].dashes <= 30
  <2>1. t[i] \in Texts
    BY <1>1
  <2>2. t[i] = WellFormed(t[i].uuid) \/ t[i].chars < 32 \/ t[i].chars - t[i].dashes <= 30
    BY <1>1 DEF Readable
  <2>3. QED
    BY <1>3, <2>1, <2>2
<1>7. f[m] \in Seq(Names) /\ NamesWellFormed(w, m, f[m])
  <2>1. m \in 0 .. Len(w)
    BY <1>1, <1>3
  <2>2. QED
    BY <1>4, <1>5, <1>6, <2>1, ParsedNames
<1>8. NamesWellFormed(t, m, f[m])
  <2>1. WellFormedPlaces(w, m) = WellFormedPlaces(t, m)
    BY <1>3 DEF WellFormedPlaces
  <2>2. \A i \in WellFormedPlaces(t, m) : w[i] = t[i]
    BY <1>3 DEF WellFormedPlaces
  <2>3. PICK P : P = WellFormedPlaces(t, m)
    OBVIOUS
  <2>4. PICK a \in Seq(Names), l \in Nat : a = f[m] /\ l = Len(a)
    BY <1>7
  <2>5. PICK at :
          /\ at \in [1 .. l -> P]
          /\ \A k \in 1 .. l : a[k] = w[at[k]].uuid
          /\ \A j, k \in 1 .. l : j < k => at[j] < at[k]
          /\ \A i \in P : \E k \in 1 .. l : at[k] = i
    <3>1. NamesWellFormed(w, m, a)
      BY <1>7, <2>4
    <3>2. P = WellFormedPlaces(w, m)
      BY <2>1, <2>3
    <3>3. PICK b \in [1 .. Len(a) -> P] :
            /\ \A k \in 1 .. Len(a) : a[k] = w[b[k]].uuid
            /\ \A j, k \in 1 .. Len(a) : j < k => b[j] < b[k]
            /\ \A i \in P : \E k \in 1 .. Len(a) : b[k] = i
      BY <3>1, <3>2 DEF NamesWellFormed
    <3>4. Len(a) = l
      BY <2>4
    <3>5. QED
      BY <3>3, <3>4, Zenon
  <2>6. \A k \in 1 .. l : a[k] = t[at[k]].uuid
    BY <2>2, <2>3, <2>5
  <2>7. NamesWellFormed(t, m, a)
    BY <2>3, <2>4, <2>5, <2>6 DEF NamesWellFormed
  <2>8. QED
    BY <2>4, <2>7
<1>9. Parsed(w) = Append(f[m], "generic")
  <2>1. sdp_strn2uuid(g) = 0 /\ g.uuid = "generic"
    BY <1>1 DEF sdp_strn2uuid, WellFormed
  <2>2. PICK n \in Nat : n = m + 1 /\ n = Len(w) /\ n \in 0 .. n /\ n # 0 /\ n - 1 = m
    BY <1>1, <1>3
  <2>3. ParsedTo(f, w, n)
    BY <1>5, <2>2
  <2>4. f[n] = IF sdp_strn2uuid(w[n]) = 0 THEN Append(f[n - 1], w[n].uuid) ELSE f[n - 1]
    BY <2>2, <2>3 DEF ParsedTo
  <2>5. QED
    BY <1>3, <1>5, <2>1, <2>2, <2>4
<1>10. PICK a \in Seq(Names) : a = f[m]
  BY <1>7
<1>11. Append(a, "generic") \o <<"libAndroidAccessory", "serial port">>
         = a \o <<"generic", "libAndroidAccessory", "serial port">>
  <2>1. ASSUME NEW x \in Names, NEW y \in Names, NEW z \in Names
        PROVE  Append(a, x) \o <<y, z>> = a \o <<x, y, z>>
    <3>0. <<x>> \in Seq(Names) /\ <<y, z>> \in Seq(Names)
      OBVIOUS
    <3>1. PICK b \in Seq(Names), h \in Seq(Names) : b = <<x>> /\ h = <<y, z>>
      BY <3>0, Zenon
    <3>2. Append(a, x) = a \o b
      BY <3>1, AppendIsConcat
    <3>3. (a \o b) \o h = a \o (b \o h)
      BY ConcatNames, Zenon
    <3>4. b \o h = <<x, y, z>>
      <4>1. PICK d \in Seq(Names) : d = b \o h
        BY ConcatProperties, Zenon
      <4>2. Len(b) = 1 /\ Len(h) = 2 /\ b[1] = x /\ h[1] = y /\ h[2] = z
        BY <3>1
      <4>3. /\ Len(d) = Len(b) + Len(h)
            /\ \A i \in 1 .. Len(b) + Len(h) : d[i] = IF i <= Len(b) THEN b[i] ELSE h[i - Len(b)]
        <5>1. /\ Len(b \o h) = Len(b) + Len(h)
              /\ \A i \in 1 .. Len(b) + Len(h) :
                   (b \o h)[i] = IF i <= Len(b) THEN b[i] ELSE h[i - Len(b)]
          BY ConcatProperties
        <5>2. QED
          BY <4>1, <5>1, Zenon
      <4>4. Len(d) = 3 /\ d[1] = x /\ d[2] = y /\ d[3] = z
        BY <4>2, <4>3
      <4>5. PICK v \in Seq(Names) : v = <<x, y, z>>
        <5>1. <<x, y, z>> \in Seq(Names)
          OBVIOUS
        <5>2. QED
          BY <5>1, Zenon
      <4>6. Len(v) = 3 /\ v[1] = x /\ v[2] = y /\ v[3] = z
        BY <4>5
      <4>7. \A i \in 1 .. Len(d) : d[i] = v[i]
        BY <4>4, <4>6
      <4>8. d = v
        BY <4>4, <4>6, <4>7, SeqEqual
      <4>9. QED
        BY <4>1, <4>5, <4>8
    <3>5. QED
      BY <3>1, <3>2, <3>3, <3>4
  <2>2. "generic" \in Names /\ "libAndroidAccessory" \in Names /\ "serial port" \in Names
    BY DEF Names
  <2>3. QED
    BY <2>1, <2>2
<1>12. ServiceClasses(UuidList(u)) = a \o <<"generic", "libAndroidAccessory", "serial port">>
  BY <1>1, <1>2, <1>9, <1>10, <1>11 DEF ServiceClasses, UuidList
<1>13. NamesWellFormed(u, Len(u), a)
  BY <1>1, <1>8, <1>10
<1>14. QED
  BY <1>12, <1>13

\* The names are what is before those three.
LEMMA CascadeFound ==
  ASSUME NEW S, NEW a \in Seq(S), NEW g \in Seq(S)
  PROVE  SubSeq(a \o g, 1, Len(a \o g) - Len(g)) = a
<1>1. PICK s \in Seq(S), l \in Nat, k \in Nat : s = a \o g /\ l = Len(a) /\ k = Len(g)
  <2>1. a \o g \in Seq(S) /\ Len(a) \in Nat /\ Len(g) \in Nat
    OBVIOUS
  <2>2. QED
    BY <2>1
<1>2. Len(s) = l + k /\ \A i \in 1 .. l : s[i] = a[i]
  BY <1>1
<1>3. l + k - k = l
  BY <1>1
<1>4. SubSeq(s, 1, l) = a
  BY <1>1, <1>2
<1>5. QED
  BY <1>1, <1>2, <1>3, <1>4

\* What a record without a file, or of a file, lists.
UuidInv == files \in Places /\ CascadingUuids

InUse == IF files.here = {} THEN files.etc ELSE files.here

\* The configuration is one of those, and can be read.
LEMMA ConfigReadable ==
  ASSUME files \in Places, NEW u \in readConfig
  PROVE  Readable(u) /\ u \in (IF InUse = {} THEN {<< >>} ELSE InUse)
<1>1. /\ files.here = {} \/ \E v \in Uuids : files.here = {v}
      /\ files.etc = {} \/ \E v \in Uuids : files.etc = {v}
  BY DEF Places
<1>2. u \in (IF InUse = {} THEN {<< >>} ELSE InUse)
  BY DEF readConfig, InUse
<1>3. u = << >> \/ u \in Uuids
  BY <1>1, <1>2 DEF InUse
<1>4. CASE u = << >>
  <2>1. << >> \in Seq(Texts) /\ Len(<< >>) = 0 /\ \A i \in 1 .. 0 : FALSE
    OBVIOUS
  <2>2. QED
    BY <1>2, <1>4, <2>1 DEF Readable
<1>5. CASE u \in Uuids
  <2>1. [uuid : STRING, chars : Nat, dashes : Nat] \subseteq Texts
    BY DEF Texts, Names
  <2>2. u \in Seq([uuid : STRING, chars : Nat, dashes : Nat])
    BY <1>5, DaemonAssumption
  <2>3. u \in Seq(Texts)
    BY <2>1, <2>2, SeqMonotonic
  <2>4. QED
    BY <1>2, <1>5, <2>3, DaemonAssumption DEF Readable
<1>6. QED
  BY <1>3, <1>4, <1>5

\* The start registers what the configuration has.
LEMMA StartCascades ==
  ASSUME UuidInv, Start
  PROVE  UuidInv'
<1>1. files' = files /\ files \in Places
  BY DEF Start, UuidInv
<1>2. PICK u \in readConfig : service' \in {service, NoService, ServiceClasses(UuidList(u))}
  BY DEF Start, InitAccessory, bt_listen, register_service
<1>3. CASE service' = service
  <2>1. CascadingUuids' <=> CascadingUuids
    BY <1>1, <1>3 DEF CascadingUuids, NamesWellFormed
  <2>2. QED
    BY <1>1, <2>1 DEF UuidInv
<1>4. CASE service' = NoService
  BY <1>1, <1>4 DEF UuidInv, CascadingUuids
<1>5. CASE service' = ServiceClasses(UuidList(u))
  <2>1. PICK a \in Seq(Names), g \in Seq(Names) :
          /\ g = <<"generic", "libAndroidAccessory", "serial port">>
          /\ service' = a \o g /\ NamesWellFormed(u, Len(u), a)
    <3>1. PICK a \in Seq(Names) :
            /\ service' = a \o <<"generic", "libAndroidAccessory", "serial port">>
            /\ NamesWellFormed(u, Len(u), a)
      BY <1>1, <1>5, ConfigReadable, ClassesCascade
    <3>2. "generic" \in Names /\ "libAndroidAccessory" \in Names /\ "serial port" \in Names
      BY DEF Names
    <3>3. \A x \in Names, y \in Names, z \in Names : <<x, y, z>> \in Seq(Names)
      OBVIOUS
    <3>4. <<"generic", "libAndroidAccessory", "serial port">> \in Seq(Names)
      BY <3>2, <3>3
    <3>5. QED
      BY <3>1, <3>4
  <2>2. SubSeq(service', 1, Len(service') - Len(g)) = a
    BY <2>1, CascadeFound
  <2>3. u \in (IF InUse' = {} THEN {<< >>} ELSE InUse')
    BY <1>1, ConfigReadable DEF InUse
  <2>4. CascadingUuids'
    BY <2>1, <2>2, <2>3 DEF CascadingUuids, InUse
  <2>5. QED
    BY <1>1, <2>4 DEF UuidInv
<1>6. QED
  BY <1>2, <1>3, <1>4, <1>5

\* Nothing else touches the record, but the end of the process.
LEMMA RecordStays ==
  ASSUME [DaemonNext]_daemonVars
  PROVE  Start \/ (files' = files /\ service' \in {service, NoService})
<1>1. CASE stop
  BY <1>1 DEF stop
<1>2. CASE Environment /\ UNCHANGED files
  BY <1>2 DEF Environment, PlugIn, Unplug, Reenumerate, ClientCalls, ClientGivesUp
<1>3. CASE Loop /\ UNCHANGED files
  <2>1. CASE getNextAndroidConnection
    BY <1>3, <2>1 DEF getNextAndroidConnection, Poll, tryGetNextUSB, findAndInitAccessory, Accept,
       Enumerate, NothingFound, Skip, openUsb, checkAndroid, setupAccessory, OpenAccessory,
       determineEndpoints
  <2>2. CASE closeAndroidConnection
    BY <1>3, <2>2 DEF closeAndroidConnection
  <2>3. QED
    BY <1>3, <2>1, <2>2 DEF Loop
<1>4. CASE UNCHANGED daemonVars
  BY <1>4 DEF daemonVars, connectVars
<1>5. QED
  BY <1>1, <1>2, <1>3, <1>4 DEF DaemonNext

\* The record of the running daemon lists the uuids of the file in use, in their order and
\* without the malformed ones, then the generic one, the library's and that of a serial
\* port (register_service), so a phone that looks for the first it knows finds the most
\* specific.
THEOREM CascadingUuidsHolds == DaemonSpec => []CascadingUuids
<1>1. ASSUME DaemonInit PROVE UuidInv
  BY <1>1 DEF DaemonInit, ConnectInit, NothingHeld, UuidInv, CascadingUuids
<1>2. ASSUME UuidInv, [DaemonNext]_daemonVars PROVE UuidInv'
  <2>1. CASE Start
    BY <1>2, <2>1, StartCascades
  <2>2. CASE files' = files /\ service' = service
    <3>1. CascadingUuids' <=> CascadingUuids
      BY <2>2 DEF CascadingUuids, NamesWellFormed
    <3>2. QED
      BY <1>2, <2>2, <3>1 DEF UuidInv
  <2>3. CASE files' = files /\ service' = NoService
    BY <1>2, <2>3 DEF UuidInv, CascadingUuids
  <2>4. QED
    BY <1>2, <2>1, <2>2, <2>3, RecordStays
<1>3. UuidInv => CascadingUuids
  BY DEF UuidInv
<1>4. QED
  BY <1>1, <1>2, <1>3, PTL DEF DaemonSpec
=============================================================================
