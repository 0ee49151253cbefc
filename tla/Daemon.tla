-------------------------------- MODULE Daemon --------------------------------
(***************************************************************************)
(* The accessory's daemon as a whole (main.c): it reads its configuration, *)
(* starts libAndroidAccessory and then serves one connection after the     *)
(* other, until a signal ends it.  What happens within a connection is in  *)
(* Bridge; here it is the step "session".                                  *)
(***************************************************************************)
EXTENDS AccessoryConnect

CONSTANTS Uuids,    \* the lists of service uuids a configuration file may have
          MaxUuids  \* the size of main's array of them

\* A text of a list is a uuid, or has too few characters or too many dashes to be one.
ASSUME DaemonAssumption ==
  /\ Uuids \subseteq Seq([uuid : STRING, chars : Nat, dashes : Nat])
  /\ \A u \in Uuids : \A i \in 1 .. Len(u) :
       u[i] = WellFormed(u[i].uuid) \/ u[i].chars < 32 \/ u[i].chars - u[i].dashes <= 30
  /\ MaxUuids \in Nat \ {0, 1}

VARIABLE files  \* the lists of uuids in the configuration files, by their place

daemonVars == <<files, connectVars>>

\* The file in the working directory, else the one of the system, else demo mode.
readConfig ==
  IF files.here # {} THEN files.here ELSE IF files.etc # {} THEN files.etc ELSE {<< >>}

\* main up to its loop.  PulseAudio has a thread of its own (AccessoryAudio).  When the
\* array of uuids has no room for the generic one and the end mark, what becomes of it
\* is undefined, and at best a crash.
Start ==
  /\ step = "off"
  /\ \E configured \in readConfig :
       IF Len(configured) + 2 > MaxUuids THEN step' = "crashed" /\ UNCHANGED service
       ELSE InitAccessory(configured)
  /\ UNCHANGED <<files, bus, events, clients, search, conn, open, lost>>

\* The handler of SIGHUP, SIGTERM and SIGINT, and of the SIGSEGV of a crash: the process
\* is gone with all it had open.
stop ==
  /\ step \notin {"off", "exited"}
  /\ step' = "exited"
  /\ events' = << >> /\ clients' = 0 /\ service' = NoService /\ ready' = {} /\ list' = << >>
  /\ handle' = NoHandle /\ endpoints' = "none" /\ conn' = NoConnection
  /\ open' = 0 /\ lost' = 0
  /\ UNCHANGED <<files, bus>>

Places == [{"here", "etc"} -> {{}} \union {{u} : u \in Uuids}]

DaemonInit ==
  /\ ConnectInit
  /\ files \in Places

Environment ==
  \/ \E d \in Phones : PlugIn(d) \/ Unplug(d) \/ Reenumerate(d)
  \/ ClientCalls
  \/ ClientGivesUp

Loop == getNextAndroidConnection \/ closeAndroidConnection

DaemonNext ==
  \/ Start
  \/ stop
  \/ (Environment \/ Loop) /\ UNCHANGED files

\* The main thread runs, the bridge of a lost USB connection ends (Bridge and
\* AccessoryLink), and a device that was told to start comes back.  Nobody need plug
\* anything in, pull anything out, call, give up, or send a signal.
DaemonSpec ==
  /\ DaemonInit /\ [][DaemonNext]_daemonVars
  /\ WF_daemonVars(Start)
  /\ WF_daemonVars(ConnectNext /\ UNCHANGED files)
  /\ \A d \in Phones : WF_daemonVars(Reenumerate(d) /\ UNCHANGED files)
-----------------------------------------------------------------------------
(* Properties. *)

\* The places of the well-formed among the first n texts.
WellFormedPlaces(texts, n) == {i \in 1 .. n : texts[i] = WellFormed(texts[i].uuid)}

\* The names are those of the well-formed among the first n texts, all of them and in
\* their order.
NamesWellFormed(texts, n, names) ==
  \E at \in [1 .. Len(names) -> WellFormedPlaces(texts, n)] :
    /\ \A k \in 1 .. Len(names) : names[k] = texts[at[k]].uuid
    /\ \A j, k \in 1 .. Len(names) : j < k => at[j] < at[k]
    /\ \A i \in WellFormedPlaces(texts, n) : \E k \in 1 .. Len(names) : at[k] = i

\* A phone looks for the most specific uuid it knows (doc/AAP-Bridge.md): the record
\* of the running daemon lists those of the file in use, in their order and without
\* the malformed ones, and then the generic ones.
CascadingUuids ==
  LET file    == IF files.here = {} THEN files.etc ELSE files.here
      generic == <<"generic", "libAndroidAccessory", "serial port">>
      names   == SubSeq(service, 1, Len(service) - Len(generic))
  IN  service # NoService =>
        /\ service = names \o generic
        /\ \E u \in (IF file = {} THEN {<< >>} ELSE file) : NamesWellFormed(u, Len(u), names)

Over == step \in {"exited", "crashed"}

\* No device has been pulled out so far: each was plugged in once and came back once if
\* it was told to start.
Undisturbed == \A d \in Phones :
  plug[d] = CASE usb[d] = "away" -> 0 [] usb[d] = "accessory" -> 2 [] OTHER -> 1

\* A supported phone that is plugged in while the daemon runs gets it into a session,
\* through accessory mode and its second appearance, and whatever else is on the bus or
\* came before it - unless a device is pulled out in the midst of it, or main waits in
\* accept for a client that has given up.
PhoneIsServed ==
  \A d \in Supported :
    (/\ usb[d] = "phone" /\ Model[d] \in KnownModels /\ Undisturbed
     /\ \E i \in 1 .. Len(events) : events[i] = [action |-> "add", dev |-> d])
      ~> (Over \/ ~Undisturbed \/ step = "session" \/ (step = "bt" /\ clients = 0))

\* A Bluetooth client that waits while main is in its loop is accepted, unless it gives
\* up, however many devices come and go meanwhile.
ClientIsServed == (step = "poll" /\ clients > 0) ~> (Over \/ clients = 0 \/ step = "session")
=============================================================================
