------------------------------- MODULE Bridge -------------------------------
(***************************************************************************)
(* The accessory side of the bridge: the main thread that runs the         *)
(* handlers, the receiver and the sender thread, one thread for each bulk  *)
(* or signals service, and the port table, the locks and the two queues    *)
(* they share (bridge.c, servicespawner.c, bulkTransfer.c, listener.c,     *)
(* method.c, keepalive.c and the loop of main.c).                          *)
(*                                                                         *)
(* The queues are the bounded fifos that MessageQueue implements, an add   *)
(* or a poll being one step.  The Android application is an environment    *)
(* that respects the protocol: it requests services and uses the ports it  *)
(* was given, one EOF and one CLOSE for each.  A thread that continues     *)
(* where it does not touch what is shared does so in the same step.        *)
(***************************************************************************)
EXTENDS Integers, Sequences, FiniteSets

CONSTANTS MAX_PORTS,      \* size of the port table
          MESSAGEQUEMAX,  \* capacity of each queue
          Kinds,          \* the services Android asks for
          Payloads,       \* can the payload make a service fail to start, or stop reading?
          MaxReceived,    \* bound: messages Android sends in one behaviour
          MaxOpens,       \* bound: services started in one behaviour
          MaxEmits,       \* bound: data and signals sent by service threads
          MaxSessions     \* bound: connections in one behaviour

ASSUME BridgeAssumption ==
  /\ MAX_PORTS \in Nat /\ MAX_PORTS > 3
  /\ MESSAGEQUEMAX \in Nat \ {0}
  /\ Kinds \subseteq {"Bulk", "Method", "Signals"}
  /\ Payloads \in BOOLEAN
  /\ MaxReceived \in Nat /\ MaxOpens \in Nat /\ MaxEmits \in Nat /\ MaxSessions \in Nat

Ports     == 0 .. MAX_PORTS - 1
Always    == 0 .. 2              \* port status, service spawner and keepalive
Instances == 1 .. MaxOpens       \* a started service, and the thread it may have
main      == -1              \* the threads, the service's named by its instance
receiver  == -2
sender    == -3
nobody    == 0
Workers   == {main} \union Instances
Threads   == Workers \union {receiver, sender}

\* A message on either way: its type, the port it is for (of a status message,
\* the port it is about), the kind of service requested, and the instance its
\* sender means, which is not transmitted.
Message(type, port, kind, inst) ==
  [type |-> type, port |-> port, kind |-> kind, inst |-> inst]
NULL == Message("NULL", -1, "none", 0)

VARIABLES services,      \* the port table
          lastAllocatedPort,
          sendQueue, receiveQueue,
          cleanupLock,   \* the thread that holds it, or nobody
          startingLock,  \* "free", "held" (by main) or "destroyed"
          work,          \* bridge->work
          link,          \* is the connection with Android usable?
          pc,            \* where each thread is
          held,          \* the message a thread is handling or about to add
          at,            \* the port a thread is closing or cleaning up
          returnTo,      \* where main goes on after sendEof, sendClose or a cleanup
          stop,          \* stop[k]: signals->work of instance k is reset
          android,       \* what Android knows of each port
          received, opens, emits, session,  \* the counters that are bounded
          firstOpen      \* the requests sent before this session

table   == <<services, lastAllocatedPort>>
queues  == <<sendQueue, receiveQueue>>
locks   == <<cleanupLock, startingLock>>
conn    == <<work, link>>
where   == <<at, returnTo, stop>>
peer    == <<android, received, opens>>
bounds  == <<emits, session, firstOpen>>
vars == <<services, lastAllocatedPort, sendQueue, receiveQueue, cleanupLock, startingLock,
          work, link, pc, held, at, returnTo, stop, android, received, opens, emits,
          session, firstOpen>>

Free == [port |-> -1, kind |-> "none", inst |-> 0, inputOpen |-> TRUE, outputOpen |-> TRUE]
Unknown == [inst |-> 0, input |-> FALSE, output |-> FALSE]

BothClosed(p) == ~services[p].inputOpen /\ ~services[p].outputOpen

Goto(t, from, to) ==
  /\ pc[t] = from
  /\ pc' = [pc EXCEPT ![t] = to]
-----------------------------------------------------------------------------
(* The Android application and the link. *)

\* Every message Android may send now.
FromAndroid ==
  {Message("ping", 2, "none", 0)}
    \union {Message("open", 1, kind, opens + 1) : kind \in IF opens < MaxOpens THEN Kinds ELSE {}}
    \union {Message(type, p, "none", android[p].inst) :
              type \in {"data", "eof"}, p \in {q \in Ports : android[q].output}}
    \union {Message("close", p, "none", android[p].inst) :
              p \in {q \in Ports : android[q].input}}

Settle(known) == IF known.input \/ known.output THEN known ELSE Unknown

\* Android's view of a port after it has sent m.
AfterSending(m) ==
  CASE m.type = "eof"   -> [android EXCEPT ![m.port] = Settle([@ EXCEPT !.output = FALSE])]
    [] m.type = "close" -> [android EXCEPT ![m.port] = Settle([@ EXCEPT !.input = FALSE])]
    [] OTHER            -> android

\* Android's view after it has received m; a status for a port it has cleaned
\* up changes nothing.
AfterReceiving(m) ==
  CASE m.type = "opened" ->
         [android EXCEPT ![m.port] = [inst |-> m.inst, input |-> TRUE, output |-> TRUE]]
    [] m.type = "eof" /\ m.port \in Ports ->
         [android EXCEPT ![m.port] = Settle([@ EXCEPT !.input = FALSE])]
    [] m.type = "close" /\ m.port \in Ports ->
         [android EXCEPT ![m.port] = Settle([@ EXCEPT !.output = FALSE])]
    [] OTHER -> android

LinkDown ==
  /\ link
  /\ link' = FALSE
  /\ UNCHANGED <<table, queues, locks, work, pc, held, where, peer, bounds>>
-----------------------------------------------------------------------------
(* The receiver thread. *)

\* The receiver reads the next message; the time a message spends on the link is
\* part of the time it spends in receiveQueue.
Receive ==
  /\ link
  /\ received < MaxReceived
  /\ received' = received + 1
  /\ \E m \in FromAndroid :
       /\ held' = [held EXCEPT ![receiver] = m]
       /\ android' = AfterSending(m)
       /\ opens' = IF m.type = "open" THEN m.inst ELSE opens
  /\ Goto(receiver, "read", "add")
  /\ UNCHANGED <<table, queues, locks, conn, where, bounds>>

\* MUTANT of ReceiverError: main is not told.
ReceiverErrorSilent ==
  /\ ~link
  /\ Goto(receiver, "read", "stop")
  /\ UNCHANGED <<table, queues, locks, conn, held, where, peer, bounds>>

ReceiverError ==
  /\ ~link
  /\ Goto(receiver, "read", "add")
  /\ held' = [held EXCEPT ![receiver] = NULL]
  /\ UNCHANGED <<table, queues, locks, conn, where, peer, bounds>>

\* MUTANT of ReceiverAdd: the loop goes on after a read error.
ReceiverAddForever ==
  /\ Len(receiveQueue) < MESSAGEQUEMAX
  /\ receiveQueue' = Append(receiveQueue, held[receiver])
  /\ held' = [held EXCEPT ![receiver] = NULL]
  /\ Goto(receiver, "add", IF work THEN "read" ELSE "stop")
  /\ UNCHANGED <<table, sendQueue, locks, conn, where, peer, bounds>>

\* addreceivequeue.  The NULL that ends main's loop is added after a read error
\* or because work is no longer 1, and nothing is added after it.
ReceiverAdd ==
  /\ Len(receiveQueue) < MESSAGEQUEMAX
  /\ receiveQueue' = Append(receiveQueue, held[receiver])
  /\ held' = [held EXCEPT ![receiver] = NULL]
  /\ Goto(receiver, "add",
          IF held[receiver] = NULL THEN "stop" ELSE IF work THEN "read" ELSE "add")
  /\ UNCHANGED <<table, sendQueue, locks, conn, where, peer, bounds>>

ReceiverStop ==
  /\ Goto(receiver, "stop", "ended")
  /\ work' = FALSE
  /\ UNCHANGED <<table, queues, locks, link, held, where, peer, bounds>>
-----------------------------------------------------------------------------
(* The sender thread. *)

SenderTest ==
  /\ Goto(sender, "test", IF work THEN "poll" ELSE "ended")
  /\ UNCHANGED <<table, queues, locks, conn, held, where, peer, bounds>>

\* pollSendQueue blocks while the queue is empty, also when work is 0 by then.
SenderPoll ==
  /\ sendQueue # << >>
  /\ sendQueue' = Tail(sendQueue)
  /\ held' = [held EXCEPT ![sender] = Head(sendQueue)]
  /\ Goto(sender, "poll", IF Head(sendQueue) = NULL THEN "ended" ELSE "write")
  /\ UNCHANGED <<table, receiveQueue, locks, conn, where, peer, bounds>>

SenderWrite ==
  /\ Goto(sender, "write", "test")
  /\ work' = (work /\ link)
  /\ android' = IF link THEN AfterReceiving(held[sender]) ELSE android
  /\ held' = [held EXCEPT ![sender] = NULL]
  /\ UNCHANGED <<table, queues, locks, link, where, received, opens, bounds>>
-----------------------------------------------------------------------------
(* What any thread does with a port: write, sendEof, sendClose, cleanup. *)

\* addSendQueue, the end of writeAllPort, which blocks while the queue is full.
Enqueue(t) ==
  /\ Len(sendQueue) < MESSAGEQUEMAX
  /\ sendQueue' = Append(sendQueue, held[t])
  /\ held' = [held EXCEPT ![t] = NULL]

\* sendEof and sendClose up to the write: that half is closed, and the message
\* takes the port from the service.
SendStatus(t, p, type, from) ==
  /\ services' = [services EXCEPT ![p] =
       IF type = "eof" THEN [@ EXCEPT !.outputOpen = FALSE] ELSE [@ EXCEPT !.inputOpen = FALSE]]
  /\ held' = [held EXCEPT ![t] = Message(type, services[p].port, "none", services[p].inst)]
  /\ at' = [at EXCEPT ![t] = p]
  /\ Goto(t, from, "status write")

StatusWrite(t) ==
  /\ Goto(t, "status write", "both closed?")
  /\ Enqueue(t)
  /\ UNCHANGED <<table, receiveQueue, locks, conn, where, peer, bounds>>

After(t) == IF t = main THEN returnTo ELSE "ended"

\* MUTANT of CheckBothClosed: bulkTransferThread does not leave its loop.
CheckBothClosedGoOn(t) ==
  /\ Goto(t, "both closed?",
          IF BothClosed(at[t]) THEN "lock" ELSE IF t = main THEN returnTo ELSE "read")
  /\ UNCHANGED <<table, queues, locks, conn, held, where, peer, bounds>>

\* The test at the end of sendEof and sendClose.
CheckBothClosed(t) ==
  /\ Goto(t, "both closed?", IF BothClosed(at[t]) THEN "lock" ELSE After(t))
  /\ UNCHANGED <<table, queues, locks, conn, held, where, peer, bounds>>

\* The start of a service's own cleanup: the spawner destroys startingLock,
\* a signals service tells its thread to stop.
ServiceSpawnerCleanup(kind) ==
  startingLock' = IF kind = "spawner" THEN "destroyed" ELSE startingLock
SignalsCleanup(kind, k) ==
  stop' = IF kind = "Signals" THEN [stop EXCEPT ![k] = TRUE] ELSE stop

\* CleanupService: under cleanupLock the service's own cleanup runs, which waits
\* for the service's thread unless that thread is the one that runs it.
CleanupLock(t) ==
  LET service  == services[at[t]]
      threaded == service.kind \in {"Bulk", "Signals"} /\ service.inst # t
  IN  /\ Goto(t, "lock", IF threaded THEN "join" ELSE "reset")
      /\ cleanupLock = nobody
      /\ cleanupLock' = t
      /\ ServiceSpawnerCleanup(service.kind)
      /\ SignalsCleanup(service.kind, service.inst)
      /\ UNCHANGED <<table, queues, conn, held, at, returnTo, peer, bounds>>

\* MUTANT of CleanupJoin: the thread is not waited for.
CleanupDetach(t) ==
  /\ Goto(t, "join", "reset")
  /\ UNCHANGED <<table, queues, locks, conn, held, where, peer, bounds>>

CleanupJoin(t) ==
  /\ Goto(t, "join", "reset")
  /\ pc[services[at[t]].inst] = "ended"
  /\ UNCHANGED <<table, queues, locks, conn, held, where, peer, bounds>>

\* MUTANTS of CleanupReset: the halves stay closed, or the port stays in use.
CleanupResetPort(t) ==
  /\ Goto(t, "reset", "unlock")
  /\ services' = [services EXCEPT ![at[t]] =
       [Free EXCEPT !.inputOpen = services[at[t]].inputOpen]]
  /\ UNCHANGED <<lastAllocatedPort, queues, locks, conn, held, where, peer, bounds>>
CleanupResetHalves(t) ==
  /\ Goto(t, "reset", "unlock")
  /\ services' = [services EXCEPT ![at[t]] = [Free EXCEPT !.port = at[t]]]
  /\ UNCHANGED <<lastAllocatedPort, queues, locks, conn, held, where, peer, bounds>>

CleanupReset(t) ==
  /\ Goto(t, "reset", "unlock")
  /\ services' = [services EXCEPT ![at[t]] = Free]
  /\ UNCHANGED <<lastAllocatedPort, queues, locks, conn, held, where, peer, bounds>>

\* A service thread that is still here when the bridge is freed unlocks freed
\* memory, perhaps by then the next bridge's mutex: it releases that one or not.
CleanupUnlock(t) ==
  /\ Goto(t, "unlock", After(t))
  /\ cleanupLock' \in IF t = main \/ (t > firstOpen /\ pc[main] # "accept")
                      THEN {nobody} ELSE {nobody, cleanupLock}
  /\ UNCHANGED <<table, queues, startingLock, conn, held, where, peer, bounds>>
-----------------------------------------------------------------------------
(* The thread of a service: bulkTransferThread and signalWatch. *)

\* MUTANT of ThreadStart: startingLock is not obtained.
ThreadStartAtOnce(k) ==
  /\ Goto(k, "start", "read")
  /\ UNCHANGED <<table, queues, locks, conn, held, where, peer, bounds>>

\* It waits for the confirmation of its port.  A startingLock that is destroyed
\* by then lets it go on, or keeps it for ever.
ThreadStart(k) ==
  /\ startingLock # "held"
  /\ \/ Goto(k, "start", "read")
     \/ startingLock = "destroyed" /\ Goto(k, "start", "stuck")
  /\ UNCHANGED <<table, queues, locks, conn, held, where, peer, bounds>>

\* The payload has written bytes, or the bus has a signal.
ThreadData(k) ==
  /\ emits < MaxEmits
  /\ emits' = emits + 1
  /\ held' = [held EXCEPT ![k] = Message("data", services[at[k]].port, "none", k)]
  /\ Goto(k, "read", "write")
  /\ UNCHANGED <<table, queues, locks, conn, where, peer, session, firstOpen>>

ThreadWrite(k) ==
  /\ Goto(k, "write", "read")
  /\ Enqueue(k)
  /\ UNCHANGED <<table, receiveQueue, locks, conn, where, peer, bounds>>

\* signalWatch tests signals->work after each message and every 100 ms.
SignalWatchStop(k) ==
  /\ stop[k]
  /\ Goto(k, "read", "ended")
  /\ UNCHANGED <<table, queues, locks, conn, held, where, peer, bounds>>

\* The payload has closed its end, or the fifo is closed: read gives no bytes.
BulkReadEnd(k) ==
  /\ services[at[k]].kind = "Bulk"
  /\ SendStatus(k, at[k], "eof", "read")
  /\ UNCHANGED <<lastAllocatedPort, queues, locks, conn, returnTo, stop, peer, bounds>>
-----------------------------------------------------------------------------
(* The main thread, on a message of receiveQueue. *)

MainPoll ==
  /\ receiveQueue # << >>
  /\ receiveQueue' = Tail(receiveQueue)
  /\ held' = [held EXCEPT ![main] = Head(receiveQueue)]
  /\ Goto(main, "poll", IF Head(receiveQueue) = NULL THEN "deinit" ELSE "dispatch")
  /\ at' = [at EXCEPT ![main] = 0]
  /\ UNCHANGED <<table, sendQueue, locks, conn, returnTo, stop, peer, bounds>>

Keepalive ==
  /\ held[main].type = "ping"
  /\ held' = [held EXCEPT ![main] = Message("pong", 2, "none", 0)]
  /\ Goto(main, "dispatch", "reply")
  /\ UNCHANGED <<table, queues, locks, conn, where, peer, bounds>>

\* openNewPort goes round the table from the port after the last one it gave.  At
\* the end of the table it looks one entry too far, finds it in use, and goes on
\* with port 1.
Distance(p) == (p - lastAllocatedPort - 1) % MAX_PORTS
FreePorts ==
  {p \in Ports : services[p].port = -1} \ (IF lastAllocatedPort = MAX_PORTS - 1 THEN {0} ELSE {})

\* MUTANT of openNewPort: the search does not go round the table.
openNewPortNoWrap == lastAllocatedPort + 1

openNewPort == CHOOSE p \in FreePorts : \A q \in FreePorts : Distance(p) <= Distance(q)

\* ServiceSpawnerOnBytesReceived up to the response, for a service that starts: it
\* gets a port and, if it has one, its thread.
OpenService(kind, thread) ==
  LET m == held[main]
      p == openNewPort
  IN  /\ pc[main] = "dispatch" /\ m.type = "open" /\ m.kind = kind /\ FreePorts # {}
      /\ services' = [services EXCEPT ![p] = [@ EXCEPT !.port = p, !.kind = kind, !.inst = m.inst]]
      /\ lastAllocatedPort' = p
      /\ startingLock' = "held"
      /\ held' = [held EXCEPT ![main] = Message("opened", p, "none", m.inst)]
      /\ at' = [at EXCEPT ![m.inst] = p]
      /\ pc' = [pc EXCEPT ![main] = "reply", ![m.inst] = thread]
      /\ UNCHANGED <<queues, cleanupLock, conn, returnTo, stop, peer, bounds>>

BulkInit    == OpenService("Bulk", "start")
MethodInit  == OpenService("Method", "none")
SignalsInit == OpenService("Signals", "start")

\* MUTANT of DenyService: no answer when all ports are in use.
DenyServiceSilently ==
  /\ held[main].type = "open" /\ FreePorts = {}
  /\ Goto(main, "dispatch", "poll")
  /\ UNCHANGED <<table, queues, locks, conn, held, where, peer, bounds>>

\* The same for a request that is denied: all ports are in use, or the service
\* does not start and keeps the port it was given, without handlers.
DenyService ==
  /\ held[main].type = "open"
  /\ Goto(main, "dispatch", "reply")
  /\ \/ FreePorts = {} /\ UNCHANGED table
     \/ /\ FreePorts # {} /\ Payloads
        /\ services' = [services EXCEPT ![openNewPort].port = openNewPort]
        /\ lastAllocatedPort' = openNewPort
  /\ startingLock' = "held"
  /\ held' = [held EXCEPT ![main] = Message("denied", 0, "none", held[main].inst)]
  /\ UNCHANGED <<queues, cleanupLock, conn, where, peer, bounds>>

\* The end of the three handlers that answer; the spawner then lets the new
\* service's thread go on.
MainReply ==
  /\ Goto(main, "reply", "poll")
  /\ Enqueue(main)
  /\ startingLock' = "free"
  /\ UNCHANGED <<table, receiveQueue, cleanupLock, conn, where, peer, bounds>>

\* The test of the port, by sendToCorrectService for data and by
\* PortStatusOnBytesReceived for a status.  The service can go away before it is used.
CheckPort ==
  LET m == held[main]
  IN  /\ m.type \in {"data", "eof", "close"}
      /\ Goto(main, "dispatch",
              IF services[m.port].port = -1 THEN "poll"
              ELSE IF m.type = "data" THEN "call" ELSE "apply")
      /\ UNCHANGED <<table, queues, locks, conn, held, where, peer, bounds>>

\* The call of onBytesReceived.  The port may be free by now: its handler is NULL.
Call(kind) == pc[main] = "call" /\ services[held[main].port].kind = kind

\* A D-Bus call is made; its reply is sent, if there is one.
MethodOnBytesReceived ==
  LET service == services[held[main].port]
  IN  /\ Call("Method")
      /\ \/ Goto(main, "call", "poll") /\ UNCHANGED held
         \/ /\ Goto(main, "call", "reply")
            /\ held' = [held EXCEPT ![main] = Message("data", service.port, "none", service.inst)]
      /\ UNCHANGED <<table, queues, locks, conn, where, peer, bounds>>

\* The bytes are written to the payload, and if that fails sendClose is called.
BulkOnBytesReceived ==
  /\ Call("Bulk")
  /\ \/ Goto(main, "call", "poll") /\ UNCHANGED <<services, held, at, returnTo>>
     \/ /\ Payloads
        /\ SendStatus(main, held[main].port, "close", "call")
        /\ returnTo' = "poll"
  /\ UNCHANGED <<lastAllocatedPort, queues, locks, conn, stop, peer, bounds>>

SignalsOnBytesReceived ==
  /\ Call("Signals")
  /\ Goto(main, "call", "poll")
  /\ UNCHANGED <<table, queues, locks, conn, held, where, peer, bounds>>

CallNull ==
  /\ Call("none")
  /\ Goto(main, "call", "crashed")
  /\ UNCHANGED <<table, queues, locks, conn, held, where, peer, bounds>>

\* CLOSE closes the output of the port.
OnClose ==
  LET p == held[main].port
  IN  /\ held[main].type = "close"
      /\ Goto(main, "apply", "status check")
      /\ services' = [services EXCEPT ![p].outputOpen = FALSE]
      /\ at' = [at EXCEPT ![main] = p]
      /\ UNCHANGED <<lastAllocatedPort, queues, locks, conn, held, returnTo, stop, peer, bounds>>

\* EOF closes its input and calls onEof, here one that says nothing to Android:
\* of a bulk service, which closes its fifo, or a signals service, or NULL.  The two are
\* one step: a thread that frees the port between them makes main crash like one that
\* frees it before them, in the same table.
OnEof ==
  LET p == held[main].port
  IN  /\ held[main].type = "eof" /\ services[p].kind # "Method"
      /\ Goto(main, "apply", IF services[p].kind = "none" THEN "crashed" ELSE "status check")
      /\ services' = [services EXCEPT ![p].inputOpen = FALSE]
      /\ at' = [at EXCEPT ![main] = p]
      /\ UNCHANGED <<lastAllocatedPort, queues, locks, conn, held, returnTo, stop, peer, bounds>>

\* The onEof of a service for D-Bus calls is sendEof.
MethodOnEof ==
  LET p == held[main].port
  IN  /\ held[main].type = "eof" /\ services[p].kind = "Method"
      /\ Goto(main, "apply", "status write")
      /\ services' = [services EXCEPT ![p].inputOpen = FALSE, ![p].outputOpen = FALSE]
      /\ held' = [held EXCEPT ![main] = Message("eof", p, "none", services[p].inst)]
      /\ at' = [at EXCEPT ![main] = p]
      /\ returnTo' = "status check"
      /\ UNCHANGED <<lastAllocatedPort, queues, locks, conn, stop, peer, bounds>>

\* The test at the end of PortStatusOnBytesReceived.
CheckAfterStatus ==
  /\ Goto(main, "status check", IF BothClosed(at[main]) THEN "lock" ELSE "poll")
  /\ returnTo' = "poll"
  /\ UNCHANGED <<table, queues, locks, conn, held, at, stop, peer, bounds>>
-----------------------------------------------------------------------------
(* The main thread, between two connections. *)

\* getNextAndroidConnection and initServer.
Accept ==
  /\ pc[main] = "accept"
  /\ session < MaxSessions
  /\ session' = session + 1
  /\ firstOpen' = opens
  /\ pc' = [pc EXCEPT ![main] = "poll", ![receiver] = "read", ![sender] = "test"]
  /\ link' = TRUE
  /\ work' = TRUE
  /\ services' = [p \in Ports |->
       CASE p = 0 -> [Free EXCEPT !.port = 0, !.kind = "status"]
         [] p = 1 -> [Free EXCEPT !.port = 1, !.kind = "spawner"]
         [] p = 2 -> [Free EXCEPT !.port = 2, !.kind = "keepalive"]
         [] OTHER -> Free]
  /\ lastAllocatedPort' = 2
  /\ sendQueue' = << >>
  /\ receiveQueue' = << >>
  /\ cleanupLock' = nobody
  /\ startingLock' = "free"
  /\ android' = [p \in Ports |-> Unknown]
  /\ UNCHANGED <<held, where, received, opens, emits>>

\* The loop of deInitServer: a port that is not -1 is cleaned up.
DeInitPort ==
  LET p == at[main]
      used == p \in Ports /\ services[p].port # -1
  IN  /\ Goto(main, "deinit",
              IF used THEN "lock" ELSE IF p \in Ports THEN "deinit" ELSE "stop sender")
      /\ at' = IF used \/ p \notin Ports THEN at ELSE [at EXCEPT ![main] = p + 1]
      /\ returnTo' = "deinit"
      /\ UNCHANGED <<table, queues, locks, conn, held, stop, peer, bounds>>

\* addSendQueue(NULL)
DeInitStopSender ==
  /\ Goto(main, "stop sender", "join receiver")
  /\ Enqueue(main)
  /\ UNCHANGED <<table, receiveQueue, locks, conn, where, peer, bounds>>

DeInitJoin ==
  /\ \/ pc[receiver] = "ended" /\ Goto(main, "join receiver", "join sender")
     \/ pc[sender] = "ended" /\ Goto(main, "join sender", "free")
  /\ UNCHANGED <<table, queues, locks, conn, held, where, peer, bounds>>

\* The queues are emptied, where deInitreceiveQueue cannot stand a NULL, and the
\* connection and the bridge are freed.
DeInitFree ==
  /\ Goto(main, "free",
          IF \E i \in 1 .. Len(receiveQueue) : receiveQueue[i] = NULL THEN "crashed" ELSE "accept")
  /\ sendQueue' = << >>
  /\ receiveQueue' = << >>
  /\ link' = FALSE
  /\ UNCHANGED <<table, locks, work, held, where, peer, bounds>>
-----------------------------------------------------------------------------
Init ==
  /\ services = [p \in Ports |-> Free]
  /\ lastAllocatedPort = 2
  /\ sendQueue = << >>
  /\ receiveQueue = << >>
  /\ cleanupLock = nobody
  /\ startingLock = "free"
  /\ work = FALSE
  /\ link = FALSE
  /\ pc = [t \in Threads |-> IF t = main THEN "accept" ELSE IF t \in Instances THEN "none" ELSE "ended"]
  /\ held = [t \in Threads |-> NULL]
  /\ at = [t \in Workers |-> 0]
  /\ returnTo = "poll"
  /\ stop = [k \in Instances |-> FALSE]
  /\ android = [p \in Ports |-> Unknown]
  /\ received = 0
  /\ opens = 0
  /\ emits = 0
  /\ session = 0
  /\ firstOpen = 0

ReceiverStep == ReceiverError \/ ReceiverAdd \/ ReceiverStop
SenderStep   == SenderTest \/ SenderPoll \/ SenderWrite
PortStep(t)  == StatusWrite(t) \/ CheckBothClosed(t) \/ CleanupLock(t) \/ CleanupJoin(t)
                  \/ CleanupReset(t) \/ CleanupUnlock(t)
SpawnerStep  == BulkInit \/ MethodInit \/ SignalsInit \/ DenyService
HandlerStep  == Keepalive \/ MethodOnBytesReceived \/ BulkOnBytesReceived
                  \/ SignalsOnBytesReceived \/ CallNull
StatusStep   == OnClose \/ OnEof \/ MethodOnEof \/ CheckAfterStatus
DeInitStep   == DeInitPort \/ DeInitStopSender \/ DeInitJoin \/ DeInitFree
MainStep     == MainPoll \/ CheckPort \/ SpawnerStep \/ HandlerStep \/ StatusStep \/ MainReply
                  \/ PortStep(main) \/ DeInitStep \/ Accept
ThreadStep(k) == ThreadStart(k) \/ ThreadWrite(k) \/ SignalWatchStop(k) \/ PortStep(k)

\* The last connection of the bounded instance is over.
Finished ==
  /\ pc[main] = "accept"
  /\ session = MaxSessions
  /\ UNCHANGED vars

\* A call through a NULL pointer ends the process.
Next ==
  /\ pc[main] # "crashed"
  /\ \/ LinkDown \/ Receive \/ ReceiverStep \/ SenderStep \/ MainStep \/ Finished
     \/ \E k \in Instances : ThreadData(k) \/ BulkReadEnd(k) \/ ThreadStep(k)

Spec == Init /\ [][Next]_vars

\* Every thread that can go on does; Android, the payloads and the bus need not.
Fairness ==
  /\ WF_vars(Next /\ ReceiverStep)
  /\ WF_vars(Next /\ SenderStep)
  /\ WF_vars(Next /\ MainStep)
  /\ \A k \in Instances : WF_vars(Next /\ ThreadStep(k))

FairSpec == Spec /\ Fairness

\* As well, no payload keeps its end of the fifo to Android open for ever.
FairPayloadSpec == FairSpec /\ \A k \in Instances : WF_vars(Next /\ BulkReadEnd(k))
-----------------------------------------------------------------------------
(* Properties. *)

MessageTypes == {"NULL", "ping", "open", "data", "eof", "close", "pong", "opened", "denied"}
AllMessages == [type : MessageTypes, port : -1 .. MAX_PORTS - 1,
                kind : {"none"} \union Kinds, inst : 0 .. MaxOpens]
ThreadPc == {"none", "start", "stuck", "read", "write", "status write", "both closed?",
             "lock", "join", "reset", "unlock", "ended"}
MainPc == {"accept", "poll", "dispatch", "reply", "call", "apply", "status write",
           "both closed?", "status check", "lock", "join", "reset", "unlock", "deinit",
           "stop sender", "join receiver", "join sender", "free", "crashed"}

TableType ==
  /\ services \in [Ports -> [port : -1 .. MAX_PORTS - 1,
                             kind : {"none", "status", "spawner", "keepalive"} \union Kinds,
                             inst : 0 .. MaxOpens, inputOpen : BOOLEAN, outputOpen : BOOLEAN]]
  /\ \A p \in Ports : services[p].port \in {-1, p}
  /\ lastAllocatedPort \in Ports
QueueType ==
  /\ sendQueue \in Seq(AllMessages) /\ Len(sendQueue) <= MESSAGEQUEMAX
  /\ receiveQueue \in Seq(AllMessages) /\ Len(receiveQueue) <= MESSAGEQUEMAX
LockType ==
  /\ cleanupLock \in {nobody} \union Workers
  /\ startingLock \in {"free", "held", "destroyed"}
  /\ work \in BOOLEAN /\ link \in BOOLEAN
PcType ==
  /\ DOMAIN pc = Threads
  /\ pc[main] \in MainPc
  /\ pc[receiver] \in {"read", "add", "stop", "ended"}
  /\ pc[sender] \in {"test", "poll", "write", "ended"}
  /\ \A k \in Instances : pc[k] \in ThreadPc
ThreadType ==
  /\ held \in [Threads -> AllMessages]
  /\ at \in [Workers -> 0 .. MAX_PORTS]
  /\ returnTo \in {"poll", "status check", "deinit"}
  /\ stop \in [Instances -> BOOLEAN]
AndroidType == android \in [Ports -> [inst : 0 .. MaxOpens, input : BOOLEAN, output : BOOLEAN]]
CounterType ==
  /\ received \in 0 .. MaxReceived /\ opens \in 0 .. MaxOpens
  /\ emits \in 0 .. MaxEmits /\ session \in 0 .. MaxSessions /\ firstOpen \in 0 .. opens

\* Every variable has its type; a service that is up is where its port says
\* (BridgeService.h: "This value MUST correspond to the index").
TypeOK ==
  TableType /\ QueueType /\ LockType /\ PcType /\ ThreadType /\ AndroidType /\ CounterType

\* What Android has still to receive, in order.
Outgoing == (IF pc[sender] = "write" THEN <<held[sender]>> ELSE << >>) \o sendQueue
About(m, k) == m.type \in {"data", "eof", "close"} /\ m.inst = k

\* A service says nothing to Android before Android knows its port: as long as the
\* confirmation is not sent, nothing of the service is in the queue, and nothing
\* of it is before the confirmation (the purpose of startingLock).
ConfirmationFirst ==
  /\ held[main].type = "opened" =>
       \A i \in 1 .. Len(Outgoing) : ~About(Outgoing[i], held[main].inst)
  /\ \A i, j \in 1 .. Len(Outgoing) :
       i < j /\ Outgoing[j].type = "opened" => ~About(Outgoing[i], Outgoing[j].inst)

\* A port that is given to a new service is not spoken for by the old one any
\* more: after the confirmation, whatever Android receives on that port comes
\* from the service it was opened for.  What is queued when the link is lost is
\* received by nobody.
NoStaleOutput ==
  link => \A i \in 1 .. Len(Outgoing) :
    LET m == Outgoing[i]
        Opened(j) == Outgoing[j].type = "opened" /\ Outgoing[j].port = m.port
    IN  m.type \in {"data", "eof", "close"} /\ m.port \in Ports =>
          /\ \A j \in 1 .. i - 1 : Opened(j) => Outgoing[j].inst <= m.inst
          /\ android[m.port].inst # 0 /\ (\A j \in 1 .. i - 1 : ~Opened(j)) =>
               android[m.port].inst = m.inst

\* sendEof is the last a service says: no data and no second EOF follow it
\* (bridge.h: "No more write calls may be made").
NothingAfterEof ==
  \A i, j \in 1 .. Len(Outgoing) :
    i < j /\ Outgoing[i].type = "eof" /\ Outgoing[i].inst = Outgoing[j].inst
      => Outgoing[j].type \notin {"data", "eof"}

IsRequest(m) == m.type \in {"open", "opened", "denied"}

\* Where the requests of this session are: answered, in main's hands, received.
Way == Outgoing \o <<held[main]>> \o receiveQueue \o <<held[receiver]>>

\* Every request for a service is answered once, and in the order in which the
\* requests were made: from the answers Android has still to receive back to the
\* request it made last, none is missing, doubled or overtaken.
RequestsInOrder ==
  \A n \in 1 .. Len(Way) : IsRequest(Way[n]) =>
    /\ Way[n].inst <= opens
    /\ \A m \in 1 .. n - 1 : IsRequest(Way[m]) => Way[m].inst < Way[n].inst
    /\ \A k \in Way[n].inst .. opens :
         \E m \in n .. Len(Way) : IsRequest(Way[m]) /\ Way[m].inst = k

\* The NULL of the receiver is the last message of a connection: main leaves its
\* loop with nothing behind, and deInitreceiveQueue, which would dereference a
\* NULL, finds the queue empty.
NullIsLast ==
  /\ \A i \in 1 .. Len(receiveQueue) :
       receiveQueue[i] = NULL => i = Len(receiveQueue) /\ pc[receiver] \in {"stop", "ended"}
  /\ pc[main] \in {"deinit", "stop sender", "join receiver", "join sender", "free"}
       => receiveQueue = << >>

\* When main waits for the next connection, every port of the last one has been
\* cleaned up and no thread of it runs any more (deInitServer: "Forcefully close
\* all inputs and cleanup all the mess the - still open - services have malloced").
NothingOutlivesBridge ==
  pc[main] = "accept" =>
    /\ \A p \in Ports : services[p].port = -1
    /\ \A t \in Threads \ {main} : pc[t] \in {"none", "ended"}

\* Whatever the services are: by then every port has been cleaned up, receiver and
\* sender have ended, and a service thread that is still here has only its mutex
\* to unlock (deInitServer joins the two, and each thread through its cleanup).
ConnectionOver ==
  pc[main] = "accept" =>
    /\ \A p \in Ports : services[p].port = -1
    /\ pc[receiver] = "ended" /\ pc[sender] = "ended"
    /\ \A k \in Instances : pc[k] \in {"none", "unlock", "ended"}

\* A status closes a half of the service it was sent to, which says of its own
\* input or output that it is closed (bridge.c, on "close" and "eof"), and not of
\* another that has been given its port since.  It fails: when Android's status
\* crosses one of the service, the port may be another's by then.
StatusIsOwn ==
  pc[main] = "apply" => services[held[main].port].inst \in {0, held[main].inst}

\* A port that is free is as a new service needs it, with both halves open
\* (bridge.c: cleanup occurs "to free all resources and make the port ready for
\* reuse").
FreePortIsReady ==
  \A p \in Ports : services[p].port = -1 => services[p] = Free

\* Once both halves of a port are closed, a cleanup occurs and the port is ready
\* for reuse (the comment on close, eof and cleanup in bridge.c).
ClosedIsCleanedUp ==
  \A p \in Ports : (services[p].port = p /\ BothClosed(p)) ~> services[p].port = -1

\* A lost connection is taken down completely, and main waits for the next one.
LostConnectionEnds ==
  (pc[main] # "accept" /\ ~link) ~> pc[main] = "accept"

\* A request that has reached the accessory is answered, or the connection is lost.
RequestIsAnswered ==
  \A k \in Instances :
    (\E i \in 1 .. Len(receiveQueue) : receiveQueue[i].type = "open" /\ receiveQueue[i].inst = k)
      ~> (~link \/ pc[main] = "accept"
            \/ \E i \in 1 .. Len(Outgoing) :
                 Outgoing[i].inst = k /\ Outgoing[i].type \in {"opened", "denied"})
=============================================================================
