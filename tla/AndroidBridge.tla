---------------------------- MODULE AndroidBridge ----------------------------
(***************************************************************************)
(* AccessoryBridge.java as a whole: to the requests of ServiceRequests it  *)
(* adds the two halves of a Port, their status messages in both            *)
(* directions, the forgetting of a service, and Keepalive.java.  A port is *)
(* free again for the accessory once both its halves are closed there.     *)
(*                                                                         *)
(* Crossing and CloseLast widen the environment to cases in which the code *)
(* goes wrong (README, known disagreements).                               *)
(***************************************************************************)
EXTENDS ServiceRequests

CONSTANTS
  Crossing,      \* whether frames of a service may cross the opening or
                 \* the closing of its port
  MaxIncoming,   \* bound: frames on their way to Android when a service sends
  CloseLast,     \* whether a service may stop reading after the input of its
                 \* port on Android was closed
  Looper,        \* the requests made on the thread that built the bridge, on
                 \* whose looper the handler of the keepalive runs
  MaxWire,       \* bound: messages on their way to the accessory when the timer
                 \* of the keepalive runs
  Later,         \* bound: the requests that are made after all others
  Aftermath      \* bound: whether anything new begins after an alarm, or after
                 \* the receiver has lost its place in the stream

VARIABLES
  built,                  \* whether the constructor has got the streams
  inputOpen, outputOpen,  \* of the Port of each service, on Android
  at,                     \* where a thread is in close() or eof() of its Port
  halves,                 \* the open halves of each port, on the accessory
  handling,               \* the port of the status the receiver works on, or 0
  keepAliveReceived,
  pinger,                 \* the timer: "waiting", "ping", "last" or "cancelled"
  alarm                   \* whether keepAliveFailureHandler has a message

portVars == <<inputOpen, outputOpen, at, halves, handling>>
keepVars == <<built, keepAliveReceived, pinger, alarm>>
bridgeVars == <<vars, portVars, keepVars>>

Both == {"input", "output"}
AllHalves == [p \in Ports |-> Both]

\* MUTANT of BridgeInit: keepAliveReceived has the default of its type.
BridgeInitUnset ==
  /\ Init
  /\ inputOpen = [r \in Requests |-> TRUE]
  /\ outputOpen = [r \in Requests |-> TRUE]
  /\ at = [r \in Requests |-> "idle"]
  /\ halves = AllHalves /\ handling = 0
  /\ built = FALSE /\ keepAliveReceived = FALSE
  /\ pinger = "waiting" /\ alarm = FALSE

\* The field initializers have run, and the last of them has started the timer.
BridgeInit ==
  /\ Init
  /\ inputOpen = [r \in Requests |-> TRUE]
  /\ outputOpen = [r \in Requests |-> TRUE]
  /\ at = [r \in Requests |-> "idle"]
  /\ halves = AllHalves /\ handling = 0
  /\ built = FALSE /\ keepAliveReceived = TRUE
  /\ pinger = "waiting" /\ alarm = FALSE

OnWire(kind, p) == [kind |-> kind, port |-> p]
Ping == OnWire("ping", 0)
Pong == Frame("pong", 0, TRUE)

\* A ping or a status is neither a request nor garbage.
ASSUME WireAssumption ==
  \A kind \in {"ping", "close", "eof"}, p \in Ports \cup {0} :
    OnWire(kind, p) \notin Requests \cup {Garbage}

\* What application, payloads and link do of their own accord.
Calm == Aftermath \/ (~alarm /\ rx # "adrift")

Incoming(kinds, p) ==
  \E i \in 1..Len(incoming) :
    incoming[i].kind \in kinds /\ incoming[i].port = p

-----------------------------------------------------------------------------
(* Threads of the application.                                             *)

\* Without Overlap the application makes one call after the other.
\* A thread makes one after the other in any case.
Alone(r) ==
  \A s \in IF Overlap THEN {r} \cup (IF r \in Looper THEN Looper ELSE {})
           ELSE Requests :
    ~UnderWay(s) /\ (s # r => at[s] = "idle")

\* Port.close and Port.eof up to the write.
StartClose(r) ==
  /\ pc[r] = "open" /\ at[r] = "idle" /\ inputOpen[r] /\ Alone(r) /\ Calm
  /\ Crossing \/ ~Incoming({"data"}, portOf[r])
  /\ CloseLast \/ ~Incoming({"close"}, portOf[r])
  /\ inputOpen' = [inputOpen EXCEPT ![r] = FALSE]
  /\ at' = [at EXCEPT ![r] = "close"]
  /\ UNCHANGED <<vars, keepVars, outputOpen, halves, handling>>

StartEof(r) ==
  /\ pc[r] = "open" /\ at[r] = "idle" /\ outputOpen[r] /\ Alone(r) /\ Calm
  /\ outputOpen' = [outputOpen EXCEPT ![r] = FALSE]
  /\ at' = [at EXCEPT ![r] = "eof"]
  /\ UNCHANGED <<vars, keepVars, inputOpen, halves, handling>>

\* A write on a lost connection throws.
WriteStatus(r) ==
  /\ at[r] \in {"close", "eof"}
  /\ IF up THEN /\ wire' = Sent(OnWire(at[r], portOf[r]))
                /\ at' = [at EXCEPT ![r] = "forget"]
           ELSE at' = [at EXCEPT ![r] = "idle"] /\ UNCHANGED wire
  /\ UNCHANGED <<threadVars, silent, served, incoming, rx, target, response,
                 spawnVars, active, up, keepVars, inputOpen, outputOpen,
                 halves, handling>>

\* MUTANT of BothClosed: the second test is of the output.
BothClosedOutput(input, output) == ~input /\ ~output

\* The test is the same in eof(), close() and onDataReady of PortStatus: the
\* input twice.
BothClosed(input, output) == ~input /\ ~input

Forget(r) ==
  /\ at[r] = "forget"
  /\ active' = IF BothClosed(inputOpen[r], outputOpen[r])
               THEN [active EXCEPT ![portOf[r]] = None] ELSE active
  /\ at' = [at EXCEPT ![r] = "idle"]
  /\ UNCHANGED <<threadVars, accVars, incoming, rx, target, response,
                 spawnVars, up, keepVars, inputOpen, outputOpen, halves,
                 handling>>

-----------------------------------------------------------------------------
(* The accessory.                                                          *)

\* MUTANT of CloseHalf: one half is enough.
CloseHalfFrees(p, half) ==
  /\ served' = [served EXCEPT ![p] = None]
  /\ halves' = [halves EXCEPT ![p] = Both]

\* A half closes; the port is free when it was the last one.
CloseHalf(p, half) ==
  IF halves[p] \subseteq {half}
  THEN /\ served' = [served EXCEPT ![p] = None]
       /\ halves' = [halves EXCEPT ![p] = Both]
  ELSE /\ halves' = [halves EXCEPT ![p] = @ \ {half}]
       /\ UNCHANGED served

\* A CLOSE of Android closes the output; an EOF the input, and a service for
\* D-Bus calls, which alone has nothing else to wait for, answers with EOF.
onStatus ==
  /\ up /\ ~silent /\ wire # <<>> /\ Head(wire) \notin Requests \cup {Garbage}
  /\ LET m == Head(wire)
     IN /\ m.kind \in {"close", "eof"}
        /\ IF served[m.port] = None
           THEN UNCHANGED <<served, halves, incoming>>
           ELSE \/ /\ CloseHalf(m.port,
                                IF m.kind = "eof" THEN "input" ELSE "output")
                   /\ UNCHANGED incoming
                \/ /\ m.kind = "eof" /\ "input" \in halves[m.port]
                   /\ served' = [served EXCEPT ![m.port] = None]
                   /\ halves' = [halves EXCEPT ![m.port] = Both]
                   /\ incoming' = Append(incoming, Frame("eof", m.port, TRUE))
  /\ wire' = Tail(wire)
  /\ UNCHANGED <<threadVars, silent, rx, target, response, spawnVars, active,
                 up, keepVars, inputOpen, outputOpen, at, handling>>

\* A payload closes one of its fifos: sendEof or sendClose.
Ends(p, kind, half) ==
  /\ up /\ ~silent /\ served[p] # None /\ half \in halves[p]
  /\ Len(incoming) < MaxIncoming /\ Calm
  /\ Crossing \/ pc[served[p]] = "open"
  /\ CloseHalf(p, half)
  /\ incoming' = Append(incoming, Frame(kind, p, TRUE))
  /\ UNCHANGED <<threadVars, wire, silent, rx, target, response, spawnVars,
                 active, up, keepVars, inputOpen, outputOpen, at, handling>>
sendEof(p) == Ends(p, "eof", "output")
sendClose(p) ==
  /\ Ends(p, "close", "input")
  /\ CloseLast \/ (inputOpen[served[p]] /\ "output" \in halves[p])

Sends(p) ==
  /\ "output" \in halves[p] /\ Len(incoming) < MaxIncoming /\ Calm
  /\ ServiceSends(p)
  /\ Crossing \/ at[served[p]] = "idle"
  /\ UNCHANGED <<portVars, keepVars>>

KeepaliveOnBytesReceived ==
  /\ up /\ ~silent /\ wire # <<>> /\ Head(wire) = Ping
  /\ wire' = Tail(wire)
  /\ incoming' = Append(incoming, Pong)
  /\ UNCHANGED <<threadVars, silent, served, rx, target, response, spawnVars,
                 active, up, portVars, keepVars>>

-----------------------------------------------------------------------------
(* The receiver thread.                                                    *)

Read ==
  /\ Receive({r \in Requests : ~inputOpen[r]})
  /\ UNCHANGED <<portVars, keepVars>>

\* PortStatus.onDataReady up to the flag.  It looks its service up again for
\* each use: one that is not in the table any more, or whose constructor has
\* not ended and which has no port, is ignored or a NullPointerException, which
\* ends the call.
StatusOnDataReady ==
  /\ rx = "read" /\ incoming # <<>> /\ Head(incoming).kind \in {"eof", "close"}
  /\ incoming' = Tail(incoming)
  /\ LET p == Head(incoming).port
         s == active[p]
         eof == Head(incoming).kind = "eof"
     IN IF s = None \/ portOf[s] = None
        THEN UNCHANGED <<rx, inputOpen, outputOpen, handling>>
        ELSE /\ inputOpen' = [inputOpen EXCEPT ![s] = @ /\ ~eof]
             /\ outputOpen' = [outputOpen EXCEPT ![s] = @ /\ eof]
             /\ rx' = "flagged" /\ handling' = p
  /\ UNCHANGED <<threadVars, accVars, target, response, spawnVars, active, up,
                 keepVars, at, halves>>

\* The calls that follow look it up as well: after an application thread has
\* taken it out of the table, onEof of the service and the test are lost.
TestBothClosed ==
  /\ rx = "flagged"
  /\ LET s == active[handling]
     IN IF /\ s # None /\ portOf[s] # None
           /\ BothClosed(inputOpen[s], outputOpen[s])
        THEN rx' = "cleanup" /\ UNCHANGED handling
        ELSE rx' = "read" /\ handling' = 0
  /\ UNCHANGED <<threadVars, accVars, incoming, target, response, spawnVars,
                 active, up, keepVars, inputOpen, outputOpen, at, halves>>

Cleanup ==
  /\ rx = "cleanup"
  /\ active' = [active EXCEPT ![handling] = None]
  /\ rx' = "read" /\ handling' = 0
  /\ UNCHANGED <<threadVars, accVars, incoming, target, response, spawnVars,
                 up, keepVars, inputOpen, outputOpen, at, halves>>

KeepaliveOnDataReady ==
  /\ rx = "read" /\ incoming # <<>> /\ Head(incoming) = Pong
  /\ incoming' = Tail(incoming) /\ keepAliveReceived' = TRUE
  /\ UNCHANGED <<threadVars, accVars, rx, target, response, spawnVars, active,
                 up, portVars, built, pinger, alarm>>

-----------------------------------------------------------------------------
(* The timer of Keepalive and the handler of its messages.                 *)

\* MUTANT of Tick: the timer stops and nobody is told.
TickUnheard ==
  /\ up /\ pinger = "waiting" /\ Len(wire) < MaxWire
  /\ keepAliveReceived' = FALSE
  /\ pinger' = IF keepAliveReceived THEN "ping" ELSE "last"
  /\ UNCHANGED <<vars, portVars, built, alarm>>

\* The period has ended, whether the answer is still under way or not.
Tick ==
  /\ up /\ pinger = "waiting" /\ Len(wire) < MaxWire
  /\ IF keepAliveReceived
     THEN /\ keepAliveReceived' = FALSE /\ pinger' = "ping" /\ UNCHANGED alarm
     ELSE /\ alarm' = TRUE /\ pinger' = "last" /\ UNCHANGED keepAliveReceived
  /\ UNCHANGED <<vars, portVars, built>>

\* A failed write is an alarm, and so is one without a stream to write to: the
\* first run of the timer may come before the constructor has got it.
sendKeepalive ==
  /\ pinger \in {"ping", "last"}
  /\ pinger' = IF pinger = "ping" THEN "waiting" ELSE "cancelled"
  /\ IF up /\ built THEN wire' = Sent(Ping) /\ UNCHANGED alarm
                    ELSE alarm' = TRUE /\ UNCHANGED wire
  /\ UNCHANGED <<threadVars, silent, served, incoming, rx, target, response,
                 spawnVars, active, up, portVars, built, keepAliveReceived>>

\* The body of the constructor, up to the start of the receiver.
Construct ==
  /\ ~built /\ built' = TRUE
  /\ UNCHANGED <<vars, portVars, keepAliveReceived, pinger, alarm>>

\* The handler runs on the thread that built the bridge, when that has nothing
\* else to do.
handleMessage ==
  /\ alarm /\ built
  /\ \A r \in Looper : ~UnderWay(r) /\ at[r] = "idle"
  /\ alarm' = FALSE /\ Cut /\ halves' = AllHalves
  /\ UNCHANGED <<threadVars, silent, incoming, rx, target, response, spawnVars,
                 active, inputOpen, outputOpen, at, handling, built,
                 keepAliveReceived, pinger>>

-----------------------------------------------------------------------------
RequestStep(r) ==
  /\ ThreadStep(r)
  /\ pc[r] = "idle" =>
       /\ built /\ Alone(r) /\ Calm
       /\ r \in Later => \A s \in Requests \ Later : pc[s] # "idle"
  /\ UNCHANGED <<portVars, keepVars>>
PortStep(r) == StartClose(r) \/ StartEof(r) \/ WriteStatus(r) \/ Forget(r)
SpawnerStep ==
  /\ ReadAnswer \/ AnswerCutOff \/ AcquireDone \/ (built /\ ReadFails)
  /\ UNCHANGED <<portVars, keepVars>>
BridgeReceiverStep == \/ SpawnerStep \/ Read \/ StatusOnDataReady
                      \/ TestBothClosed \/ Cleanup \/ KeepaliveOnDataReady
Answers ==
  /\ ServiceSpawnerOnBytesReceived
  /\ UNCHANGED <<portVars, keepVars>>
AccessoryStep == Answers \/ onStatus \/ KeepaliveOnBytesReceived
LinkFails ==
  /\ Calm
  /\ \/ Lost /\ halves' = AllHalves
     \/ FallsSilent /\ UNCHANGED halves
  /\ UNCHANGED <<inputOpen, outputOpen, at, handling, keepVars>>
KeepaliveStep == Construct \/ Tick \/ sendKeepalive \/ handleMessage

BridgeNext ==
  \/ \E r \in Requests : RequestStep(r) \/ PortStep(r)
  \/ BridgeReceiverStep
  \/ AccessoryStep
  \/ \E p \in Ports : Sends(p) \/ sendEof(p) \/ sendClose(p)
  \/ LinkFails
  \/ KeepaliveStep

\* Threads run when they can, the timer among them, and the handler when its
\* thread is free; an accessory that has not fallen silent works off what it
\* receives.
BridgeFairness ==
  /\ \A r \in Requests :
       WF_bridgeVars(\/ pc[r] # "idle" /\ RequestStep(r)
                     \/ WriteStatus(r) \/ Forget(r))
  /\ WF_bridgeVars(BridgeReceiverStep)
  /\ WF_bridgeVars(AccessoryStep)
  /\ WF_bridgeVars(Tick \/ sendKeepalive)
  /\ WF_bridgeVars(Construct \/ handleMessage)

BridgeSpec == BridgeInit /\ [][BridgeNext]_bridgeVars /\ BridgeFairness

-----------------------------------------------------------------------------
(* Properties.                                                             *)

\* A half that is open on Android belongs to the service the accessory has on
\* the port, and a service whose input is open is the one its data goes to - or
\* the message that ends it is on its way.
PortIsOwn ==
  \A r \in Requests : pc[r] = "open" =>
    LET p == portOf[r]
    IN /\ inputOpen[r] => /\ active[p] = r
                          /\ served[p] = r \/ Incoming({"eof"}, p)
       /\ outputOpen[r] => served[p] = r \/ Incoming({"close"}, p)

\* Both ends of a connection agree on whose port is whose, although ports are
\* closed half by half and given away again (AccessoryBridge, CleanupService),
\* and on where a frame begins (ReceiverThread.run); unless the receiver has
\* lost its place to a skip() that does not skip.
EndsAgree ==
  up => \/ PortIsOwn /\ rx \notin {"astray", "adrift"}
        \/ ~SkipWorks /\ rx = "adrift"

\* The keepalive gives up an accessory only for a ping it has not answered
\* within the period; unless the timer was earlier than the constructor, or the
\* receiver has lost its place.
Has(seq, m) == \E i \in 1..Len(seq) : seq[i] = m
Unanswered == silent \/ Has(wire, Ping) \/ Has(incoming, Pong)
NoFalseAlarm ==
  [][~alarm /\ alarm' =>
       Unanswered \/ ~up \/ ~built \/ rx \in {"astray", "adrift"}]_bridgeVars

\* The handler cannot run: its thread waits for an answer that does not come.
HandlerBlocked ==
  /\ up /\ silent /\ ready = 0
  /\ \E r \in Looper : pc[r] = "wait"
  /\ \A i \in 1..Len(incoming) : incoming[i].kind # "answer"

\* Every thread that waits for the answer to its request gets it, as long as
\* the receiver runs; nobody is told when that stops.  A silent accessory is
\* given up, unless the handler is blocked (ServiceSpawner.requestService).
RequestReturns ==
  (\E r \in Requests : pc[r] = "wait") ~>
    \/ \A r \in Requests : pc[r] # "wait"
    \/ rx \in {"stopped", "adrift"} \/ HandlerBlocked

\* A connection that is lost, or whose accessory has fallen silent, ends the
\* receiver, also when it was handing over an answer; with the same exception.
SilentIsGivenUp ==
  (~up \/ silent) ~> rx \in {"stopped", "adrift"} \/ HandlerBlocked
=============================================================================
