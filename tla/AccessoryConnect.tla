--------------------------- MODULE AccessoryConnect ---------------------------
(***************************************************************************)
(* libAndroidAccessory: how the next connection with an Android phone      *)
(* comes about (accessory.c, initialize.c, usb.c and bt.c).                *)
(*                                                                         *)
(* A phone that is plugged in appears with the numbers of its vendor.  The *)
(* library puts it into accessory mode; it then goes away and comes back   *)
(* with Google's numbers, and only that device is a connection.  Phones    *)
(* are plugged and unplugged at any moment, which the library learns from  *)
(* udev's events, and Bluetooth clients call and give up at any moment.    *)
(* What the library does between two calls into libusb is one step.  Calls *)
(* on a device that is still there succeed; those on one that has gone     *)
(* fail, which takes every error path of the code.                         *)
(***************************************************************************)
EXTENDS Integers, Sequences, FiniteSets, SequencesExt

CONSTANTS Phones,       \* the USB devices that come and go
          Model,          \* Model[d]: the vendor and product number of d as a phone
          KnownModels,    \* the models whose vendor is in vendors[]
          Supported,      \* the devices that answer to the accessory protocol
          MaxPlugs,       \* bound: times each device appears on the bus
          MaxClients      \* bound: Bluetooth clients that wait at once

\* A phone as such has not the numbers of a device in accessory or audio mode, which
\* are Google's.
ASSUME ConnectAssumption ==
  /\ IsFiniteSet(Phones)
  /\ Model \in [Phones -> STRING \ {"audio", "accessory"}] /\ KnownModels \subseteq STRING
  /\ Supported \subseteq Phones
  /\ MaxPlugs \in [Phones -> Nat] /\ MaxClients \in Nat

VARIABLES usb,        \* what each device is on the bus
          plug,       \* how often it has appeared there
          events,     \* udev's events the library has not received
          clients,    \* Bluetooth clients waiting to be accepted
          service,    \* the uuids under which Bluetooth is served, or none
          ready,      \* the descriptors the last poll found ready
          list,       \* what is left of the device list
          handle,     \* the device the library has opened
          endpoints,  \* aoa_endpoint_in and _out: the device they were read from
          conn,       \* the connection, once it is made
          open,       \* libusb handles that are open
          lost,       \* those of them nobody holds any more
          step        \* where the main thread is

connectVars == <<usb, plug, events, clients, service, ready, list, handle, endpoints, conn,
                 open, lost, step>>
bus    == <<usb, plug>>
search == <<ready, list, handle, endpoints>>

NoService == << >>
NoHandle == [dev |-> "none", plug |-> 0]
NoConnection == [kind |-> "none", handle |-> NoHandle, endpoints |-> "none"]
BTConnection == [NoConnection EXCEPT !.kind = "bt"]
USBConnection(h, ep) == [kind |-> "usb", handle |-> h, endpoints |-> ep]

Present(d) == usb[d] \in {"phone", "audio", "accessory"}
\* A handle, or an entry of the device list, is of a device as it was plugged then.
Alive(h) == h.dev \in Phones /\ Present(h.dev) /\ plug[h.dev] = h.plug
Held == (IF handle = NoHandle THEN 0 ELSE 1) + (IF conn.kind = "usb" THEN 1 ELSE 0)
-----------------------------------------------------------------------------
(* The devices and the Bluetooth clients. *)

\* The monitor of udev is told of what happens once there is one.
Tell(action, d) ==
  events' = IF step \in {"off", "exited"} THEN events ELSE Append(events, [action |-> action, dev |-> d])

\* A device that is plugged in is a phone, or has been left in audio mode.
PlugIn(d) ==
  /\ usb[d] = "away" /\ plug[d] + 1 < MaxPlugs[d]
  /\ usb' \in {[usb EXCEPT ![d] = mode] : mode \in {"phone", "audio"}}
  /\ plug' = [plug EXCEPT ![d] = @ + 1]
  /\ Tell("add", d)
  /\ UNCHANGED <<clients, service, search, conn, open, lost, step>>

Unplug(d) ==
  /\ usb[d] # "away"
  /\ usb' = [usb EXCEPT ![d] = "away"]
  /\ IF Present(d) THEN Tell("remove", d) ELSE UNCHANGED events
  /\ UNCHANGED <<plug, clients, service, search, conn, open, lost, step>>

\* A device that was told to start comes back in accessory mode.
Reenumerate(d) ==
  /\ usb[d] = "switching"
  /\ usb' = [usb EXCEPT ![d] = "accessory"]
  /\ plug' = [plug EXCEPT ![d] = @ + 1]
  /\ Tell("add", d)
  /\ UNCHANGED <<clients, service, search, conn, open, lost, step>>

ClientCalls ==
  /\ service # NoService /\ clients < MaxClients
  /\ clients' = clients + 1
  /\ UNCHANGED <<bus, events, service, search, conn, open, lost, step>>

ClientGivesUp ==
  /\ clients > 0
  /\ clients' = clients - 1
  /\ UNCHANGED <<bus, events, service, search, conn, open, lost, step>>
-----------------------------------------------------------------------------
(* Start-up. *)

\* A uuid of 36 characters, four of them dashes, as it should be.
WellFormed(name) == [uuid |-> name, chars |-> 36, dashes |-> 4]

\* MUTANT of UuidList: the generic uuid takes the place of the last of the file.
UuidListOverwrites(configured) ==
  [i \in 1 .. Len(configured) |->
     IF i = Len(configured) THEN WellFormed("generic") ELSE configured[i]]

\* The uuids main hands over: those of the configuration file, then the one all
\* bridges have.
UuidList(configured) == Append(configured, WellFormed("generic"))

\* The error of the parse: a text is too short, or ends before the last byte begins,
\* when the dashes are left out (which stand between whole bytes).
sdp_strn2uuid(text) ==
  IF text.chars < 32 THEN 1 ELSE IF text.chars - text.dashes <= 30 THEN 2 ELSE 0

\* The loop over the texts: one that cannot be parsed is left out.
Parsed(uuids) ==
  LET classes[i \in 0 .. Len(uuids)] ==
        IF i = 0 THEN << >>
        ELSE IF sdp_strn2uuid(uuids[i]) = 0 THEN Append(classes[i - 1], uuids[i].uuid)
        ELSE classes[i - 1]
  IN  classes[Len(uuids)]

\* The service classes of the record: the library's own and that of a serial port come last.
ServiceClasses(uuids) == Parsed(uuids) \o <<"libAndroidAccessory", "serial port">>

\* The SDP server may not be there, or refuse the record.
register_service(uuids) == {NoService, ServiceClasses(uuids)}

\* Whichever step fails, bind, listen or register_service, the socket is closed.
bt_listen(uuids) ==
  UNION {IF bound /\ listening THEN register_service(uuids) ELSE {NoService} :
           bound \in BOOLEAN, listening \in BOOLEAN}

\* initAccessory fails without libusb or udev, which ends the program.  It does
\* without Bluetooth.
InitAccessory(configured) ==
  \/ step' = "exited" /\ UNCHANGED service
  \/ step' = "poll" /\ service' \in bt_listen(UuidList(configured))
-----------------------------------------------------------------------------
(* getNextAndroidConnection and findAndInitAccessory. *)

\* Where main goes on when USB has been dealt with: revents of Bluetooth, the loop's
\* condition.
AfterUsb == IF "bt" \in ready THEN "bt" ELSE IF conn' = NoConnection THEN "poll" ELSE "session"

\* MUTANT of Poll: the Bluetooth descriptor is left out of the poll.
PollUsbOnly ==
  /\ step = "poll" /\ events # << >>
  /\ ready' = {"usb"}
  /\ step' = "usb"
  /\ UNCHANGED <<bus, events, clients, service, list, handle, endpoints, conn, open, lost>>

Poll ==
  /\ step = "poll"
  /\ ready' = (IF events # << >> THEN {"usb"} ELSE {})
                \union (IF service # NoService /\ clients > 0 THEN {"bt"} ELSE {})
  /\ ready' # {}
  /\ step' = IF "usb" \in ready' THEN "usb" ELSE "bt"
  /\ UNCHANGED <<bus, events, clients, service, list, handle, endpoints, conn, open, lost>>

\* MUTANT of tryGetNextUSB: only the first event of those at hand is looked at.
tryGetNextUSBDrops ==
  /\ step = "usb"
  /\ events' = << >>
  /\ step' = IF Head(events).action = "add" THEN "find" ELSE "poll"
  /\ UNCHANGED <<bus, clients, service, search, conn, open, lost>>

\* An event that is no new device: continue, which leaves Bluetooth to the next poll.
\* That udev announces an event and then has none to give (NULL, the same continue) is left
\* out: what the kernel's socket loses is lost before this program.
tryGetNextUSB ==
  /\ step = "usb"
  /\ events' = Tail(events)
  /\ step' = IF Head(events).action = "add" THEN "find" ELSE "poll"
  /\ UNCHANGED <<bus, clients, service, search, conn, open, lost>>

\* The devices that are there now, in any order; not only the one of the event.
Enumerate ==
  /\ step = "find"
  /\ list' \in {[i \in 1 .. Len(s) |-> [dev |-> s[i], plug |-> plug[s[i]], mode |-> usb[s[i]]]] :
                  s \in SetToSeqs({d \in Phones : Present(d)})}
  /\ step' = "examine"
  /\ UNCHANGED <<bus, events, clients, service, ready, handle, endpoints, conn, open, lost>>

\* The numbers of a device; in accessory and in audio mode they are Google's, a vendor
\* of vendors[].
Numbers(d, mode) == IF mode = "phone" THEN Model[d] ELSE mode
KnownVendor(d, mode) == mode # "phone" \/ Model[d] \in KnownModels

\* MUTANT of Eligible: a device in audio mode is not left out.
EligibleAny(e) == KnownVendor(e.dev, e.mode) /\ e.mode # "accessory"

\* A device worth a try: "we should in no circumstance try to put a accessory in
\* accessory mode".
Eligible(e) == KnownVendor(e.dev, e.mode) /\ e.mode = "phone"

NothingFound ==
  /\ step = "examine" /\ list = << >>
  /\ UNCHANGED <<bus, events, clients, service, search, conn, open, lost>>
  /\ step' = AfterUsb

\* openUsb opens the first device with these numbers, which need not be this one, and
\* gives NULL when there is none.
Skip ==
  LET e == Head(list)
  IN  /\ step = "examine" /\ list # << >> /\ e.mode # "accessory"
      /\ Eligible(e) => \A d \in Phones : Present(d) => Numbers(d, usb[d]) # Numbers(e.dev, e.mode)
      /\ list' = Tail(list)
      /\ UNCHANGED <<bus, events, clients, service, ready, handle, endpoints, conn, open, lost, step>>

openUsb ==
  LET e == Head(list)
  IN  /\ step = "examine" /\ list # << >> /\ Eligible(e)
      /\ \E d \in Phones :
           /\ Present(d) /\ Numbers(d, usb[d]) = Numbers(e.dev, e.mode)
           /\ handle' = [dev |-> d, plug |-> plug[d]]
      /\ open' = open + 1
      /\ step' = "check"
      /\ UNCHANGED <<bus, events, clients, service, ready, list, endpoints, conn, lost>>

\* MUTANT of checkAndroid: the handle of a device without support is not closed.
checkAndroidKeeps ==
  /\ step = "check"
  /\ IF Alive(handle) /\ handle.dev \in Supported
     THEN step' = "setup" /\ UNCHANGED <<handle, list>>
     ELSE step' = "examine" /\ handle' = NoHandle /\ list' = Tail(list)
  /\ UNCHANGED <<bus, events, clients, service, ready, endpoints, conn, open, lost>>

\* A device without support, or gone, is closed and the next one is examined.
checkAndroid ==
  /\ step = "check"
  /\ IF Alive(handle) /\ handle.dev \in Supported
     THEN step' = "setup" /\ UNCHANGED <<handle, list, open>>
     ELSE /\ step' = "examine" /\ handle' = NoHandle /\ list' = Tail(list)
          /\ open' = open - 1
  /\ UNCHANGED <<bus, events, clients, service, ready, endpoints, conn, lost>>

\* The six strings, audio mode and the start.  Success or not, setupAccessory returns
\* NULL, which closeUsb ignores: after a failure the handle is never closed.  The
\* search ends without a connection; the device will come back.
setupAccessory ==
  /\ step = "setup"
  /\ IF Alive(handle)
     THEN /\ usb' = [usb EXCEPT ![handle.dev] = "switching"]
          /\ Tell("remove", handle.dev)
          /\ open' = open - 1
          /\ UNCHANGED lost
     ELSE lost' = lost + 1 /\ UNCHANGED <<usb, events, open>>
  /\ handle' = NoHandle
  /\ list' = << >>
  /\ UNCHANGED conn
  /\ step' = AfterUsb
  /\ UNCHANGED <<plug, clients, service, ready, endpoints>>

\* A device in accessory mode is opened.  When that fails the NULL handle is given to
\* libusb_release_interface all the same.
OpenAccessory ==
  LET e == Head(list)
  IN  /\ step = "examine" /\ list # << >> /\ e.mode = "accessory"
      /\ IF Alive(e)
         THEN /\ handle' = [dev |-> e.dev, plug |-> e.plug]
              /\ open' = open + 1
              /\ step' = "endpoints"
         ELSE step' = "crashed" /\ UNCHANGED <<handle, open>>
      /\ list' = << >>
      /\ UNCHANGED <<bus, events, clients, service, ready, endpoints, conn, lost>>

\* MUTANT of determineEndpoints: those of an earlier device are kept.
determineEndpointsOnce ==
  /\ step = "endpoints"
  /\ endpoints' = IF endpoints = "none" THEN handle.dev ELSE endpoints
  /\ conn' = USBConnection(handle, endpoints')
  /\ handle' = NoHandle
  /\ step' = AfterUsb
  /\ UNCHANGED <<bus, events, clients, service, ready, list, open, lost>>

\* The endpoints stay what they were when the descriptor cannot be read.
determineEndpoints ==
  /\ step = "endpoints"
  /\ endpoints' = IF Alive(handle) THEN handle.dev ELSE endpoints
  /\ conn' = USBConnection(handle, endpoints')
  /\ handle' = NoHandle
  /\ step' = AfterUsb
  /\ UNCHANGED <<bus, events, clients, service, ready, list, open, lost>>

\* accept, which waits if the client has given up since.  A USB connection that was
\* made in the same turn is overwritten.
Accept ==
  /\ step = "bt" /\ clients > 0
  /\ clients' = clients - 1
  /\ conn' = BTConnection
  /\ lost' = lost + Held
  /\ step' = "session"
  /\ UNCHANGED <<bus, events, service, search, open>>

\* The handles a close of the connection closes: closeAccessoryBT has only a socket.
closeAccessoryUSB == IF conn.kind = "usb" THEN 1 ELSE 0

\* The bridge has run on the connection until an error ended it (closeUsb, close).  A
\* device that has gone is such an error; a Bluetooth connection may fail.
closeAndroidConnection ==
  /\ step = "session"
  /\ conn.kind = "bt" \/ ~Alive(conn.handle)
  /\ open' = open - closeAccessoryUSB
  /\ conn' = NoConnection
  /\ step' = "poll"
  /\ UNCHANGED <<bus, events, clients, service, search, lost>>
-----------------------------------------------------------------------------
\* The process holds nothing, before its start and after its end.
NothingHeld ==
  /\ events = << >> /\ clients = 0 /\ service = NoService /\ ready = {} /\ list = << >>
  /\ handle = NoHandle /\ endpoints = "none" /\ conn = NoConnection /\ open = 0 /\ lost = 0

\* Some devices are there already; one may have been left in accessory mode.
ConnectInit ==
  /\ usb \in [Phones -> {"away", "phone", "accessory"}]
  /\ plug = [d \in Phones |-> CASE usb[d] = "away" -> 0 [] usb[d] = "phone" -> 1
                                [] usb[d] = "accessory" -> 2]
  /\ NothingHeld
  /\ step = "off"

\* What the main thread does of itself.
findAndInitAccessory ==
  \/ Enumerate \/ NothingFound \/ Skip \/ openUsb \/ checkAndroid \/ setupAccessory
  \/ OpenAccessory \/ determineEndpoints
getNextAndroidConnection == Poll \/ tryGetNextUSB \/ findAndInitAccessory \/ Accept
ConnectNext == getNextAndroidConnection \/ (conn.kind = "usb" /\ closeAndroidConnection)
-----------------------------------------------------------------------------
(* Properties. *)

\* No libusb handle is open that nobody holds, but those a failed setup left behind and
\* those of connections that were overwritten: a device without support, a device that
\* goes away at any moment and a connection that ends are all closed once.
HandlesAccounted == open = Held + lost

\* The bytes of a session go to the endpoints of the phone it is with, although the
\* endpoints pass through two global variables (config.h) and are kept when they
\* cannot be read.
EndpointsOfPhone ==
  conn.kind = "usb" /\ Alive(conn.handle) => conn.endpoints = conn.handle.dev

\* A device that is in accessory or audio mode is never told to enter it (initialize.c:
\* "We should in no circumstance try to put a accessory in accessory mode"), whichever
\* device openUsb has opened in its stead.
NeverSwitchedTwice ==
  step \in {"check", "setup"} /\ Alive(handle) => usb[handle.dev] = "phone"
=============================================================================
