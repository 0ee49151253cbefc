--------------------------- MODULE ServiceRequests ---------------------------
(***************************************************************************)
(* How an Android application gets a service: the thread that asks         *)
(* (ServiceSpawner.requestService, AccessoryBridge.requestService and the  *)
(* constructor of the service), the accessory that answers in order, and   *)
(* the receiver thread, which hands the answer over with two semaphores    *)
(* and serves the ports that are registered.                               *)
(*                                                                         *)
(* Each request has a thread of its own.  Overlap tells whether the        *)
(* application lets two be under way at once; the documentation of         *)
(* requestService allows it.  Requests are equally long; the bytes of one  *)
(* are in the shared buffer as a whole or not at all.                      *)
(***************************************************************************)
EXTENDS Integers, Sequences, FiniteSets

CONSTANTS
  Requests,   \* the requests the application makes, and their threads
  Overlap,    \* whether two requests may be under way at once
  None,       \* no answer, no port, no service
  Garbage,    \* what the accessory does not take for a request
  SkipWorks   \* whether skip() of the stream skips what it says it does: with
              \* Bluetooth it does, with USB it may not (Port.skipRead)

Ports == 1..Cardinality(Requests)      \* the ports of this run, in order
Released == 2 * Cardinality(Requests)  \* stands for the 5000 permits

\* What stands for nothing is neither a service nor a port; a transport skips
\* or it does not.
ASSUME RequestsAssumption ==
  /\ IsFiniteSet(Requests) /\ None \notin Requests \cup Ports
  /\ SkipWorks \in BOOLEAN

VARIABLES
  pc,        \* of each requesting thread
  answer,    \* what a thread has got: an answer, or None
  portOf,    \* the field `port' of a service, None before it is assigned
  buffer,    \* portRequest: whose request it holds, position and limit
  wire,      \* requests on their way to the accessory
  silent,    \* the accessory takes what is sent and does nothing
  served,    \* whose service the accessory started on a port, or None
  incoming,  \* frames on their way to the receiver
  rx,        \* the receiver thread: "read", "found", "handed" or "stopped";
             \* "astray" or "adrift" when it takes data for headers
  target,    \* the service it has found for a frame of data, or None
  response,  \* portRequestResponse: the last answer read, or None
  answers,   \* openRequestResponses
  ready,     \* permits of openRequestResponsesReady
  done,      \* permits of openRequestResponsesDone
  active,    \* activeServices
  up         \* whether the connection is there

threadVars == <<pc, answer, portOf, buffer>>
spawnVars == <<answers, ready, done>>
accVars == <<wire, silent, served>>
vars == <<threadVars, accVars, incoming, rx, target, response, spawnVars,
          active, up>>

Init ==
  /\ pc = [r \in Requests |-> "idle"]
  /\ answer = [r \in Requests |-> None] /\ portOf = [r \in Requests |-> None]
  /\ buffer = [of |-> None, pos |-> 0, lim |-> 2]
  /\ wire = <<>> /\ silent = FALSE /\ served = [p \in Ports |-> None]
  /\ incoming = <<>>
  /\ rx = "read" /\ target = None /\ response = None
  /\ answers = <<>> /\ ready = 0 /\ done = 0
  /\ active = [p \in Ports |-> None]
  /\ up = TRUE

-----------------------------------------------------------------------------
(* The requesting thread.                                                  *)

\* What a silent accessory is sent makes no difference.
Sent(m) == IF silent THEN wire ELSE Append(wire, m)

UnderWay(r) == pc[r] \in {"flip", "write", "wait", "take", "register", "assign"}

\* clear() and the put()s.  Of the positions of the buffer three matter:
\* 0, the end of a request (1) and the capacity (2).
Put(r) ==
  /\ pc[r] = "idle" /\ (Overlap \/ \A s \in Requests : ~UnderWay(s))
  /\ buffer' = [of |-> r, pos |-> 1, lim |-> 2]
  /\ pc' = [pc EXCEPT ![r] = "flip"]
  /\ UNCHANGED <<answer, portOf, accVars, incoming, rx, target, response,
                 spawnVars, active, up>>

Flip(r) ==
  /\ pc[r] = "flip"
  /\ buffer' = [buffer EXCEPT !.lim = buffer.pos, !.pos = 0]
  /\ pc' = [pc EXCEPT ![r] = "write"]
  /\ UNCHANGED <<answer, portOf, accVars, incoming, rx, target, response,
                 spawnVars, active, up>>

\* What is between position and limit goes to the accessory; a write on a
\* lost connection throws.
WriteRequest(r) ==
  /\ pc[r] = "write"
  /\ IF up \/ buffer.pos = buffer.lim
     THEN /\ wire' = IF buffer.pos = buffer.lim THEN wire
                     ELSE Sent(IF buffer.pos = 0 THEN buffer.of ELSE Garbage)
          /\ buffer' = [buffer EXCEPT !.pos = buffer.lim]
          /\ pc' = [pc EXCEPT ![r] = "wait"]
     ELSE pc' = [pc EXCEPT ![r] = "failed"] /\ UNCHANGED <<wire, buffer>>
  /\ UNCHANGED <<answer, portOf, silent, served, incoming, rx, target,
                 response, spawnVars, active, up>>

\* The semaphore is fair, but threads may reach it in any order.
Acquire(r) ==
  /\ pc[r] = "wait" /\ ready > 0
  /\ ready' = ready - 1
  /\ pc' = [pc EXCEPT ![r] = "take"]
  /\ UNCHANGED <<answer, portOf, buffer, accVars, incoming, rx, target,
                 response, answers, done, active, up>>

\* poll(), what comes of the response, and the receiver is told.
Take(r) ==
  /\ pc[r] = "take"
  /\ IF answers = <<>>
     THEN pc' = [pc EXCEPT ![r] = "failed"] /\ UNCHANGED <<answers, answer>>
     ELSE /\ answers' = Tail(answers)
          /\ answer' = [answer EXCEPT ![r] = Head(answers)]
          /\ pc' = [pc EXCEPT ![r] =
                      IF Head(answers).success THEN "register" ELSE "failed"]
  /\ done' = done + 1
  /\ UNCHANGED <<portOf, buffer, accVars, incoming, rx, target, response,
                 ready, active, up>>

\* The service is in the table before its constructor has assigned its port.
Register(r) ==
  /\ pc[r] = "register"
  /\ active' = [active EXCEPT ![answer[r].port] = r]
  /\ pc' = [pc EXCEPT ![r] = "assign"]
  /\ UNCHANGED <<answer, portOf, buffer, accVars, incoming, rx, target,
                 response, spawnVars, up>>

AssignPort(r) ==
  /\ pc[r] = "assign"
  /\ portOf' = [portOf EXCEPT ![r] = answer[r].port]
  /\ pc' = [pc EXCEPT ![r] = "open"]
  /\ UNCHANGED <<answer, buffer, accVars, incoming, rx, target, response,
                 spawnVars, active, up>>

-----------------------------------------------------------------------------
(* The accessory, as its service spawner and its services behave.          *)

Frame(kind, p, success) == [kind |-> kind, port |-> p, success |-> success]

\* Requests are answered in order, with a new port, or with a denial.
ServiceSpawnerOnBytesReceived ==
  /\ up /\ ~silent /\ wire # <<>> /\ wire' = Tail(wire)
  /\ \/ Head(wire) = Garbage /\ UNCHANGED <<served, incoming>>
     \/ /\ Head(wire) \in Requests
        /\ LET p == CHOOSE q \in Ports : /\ served[q] = None
                                         /\ \A o \in 1..q-1 : served[o] # None
           IN \E ok \in BOOLEAN :
                /\ served' = IF ok THEN [served EXCEPT ![p] = Head(wire)]
                              ELSE served
                /\ incoming' = Append(incoming, Frame("answer", p, ok))
  /\ UNCHANGED <<threadVars, silent, rx, target, response, spawnVars, active,
                 up>>

\* A service sends as soon as its answer is on the way, one frame at a time.
ServiceSends(p) ==
  /\ up /\ ~silent /\ served[p] # None
  /\ \A i \in 1..Len(incoming) : incoming[i] # Frame("data", p, TRUE)
  /\ incoming' = Append(incoming, Frame("data", p, TRUE))
  /\ UNCHANGED <<threadVars, accVars, rx, target, response, spawnVars, active,
                 up>>

\* What is on its way to the accessory is lost, and the accessory ends all its
\* services.
Cut == up' = FALSE /\ wire' = <<>> /\ served' = [p \in Ports |-> None]

\* What has arrived can be read.
Lost ==
  /\ up /\ ~silent /\ Cut
  /\ UNCHANGED <<threadVars, silent, incoming, rx, target, response, spawnVars,
                 active>>

FallsSilent ==
  /\ up /\ ~silent /\ silent' = TRUE /\ wire' = <<>>
  /\ UNCHANGED <<threadVars, served, incoming, rx, target, response, spawnVars,
                 active, up>>

-----------------------------------------------------------------------------
(* The receiver thread.                                                    *)

\* onDataReady of the service spawner: hand the answer over and wait.
HandOver(a, permits) ==
  /\ answers' = Append(answers, a) /\ ready' = ready + permits
  /\ response' = a /\ rx' = "handed"

\* MUTANTS of ReadAnswer: no permit for the thread that waits, and
\* no wait for that thread.
ReadAnswerSilently ==
  /\ rx = "read" /\ incoming # <<>> /\ Head(incoming).kind = "answer"
  /\ HandOver(Head(incoming), 0)
  /\ incoming' = Tail(incoming)
  /\ UNCHANGED <<threadVars, accVars, target, done, active, up>>
ReadAnswerGoOn ==
  /\ rx = "read" /\ incoming # <<>> /\ Head(incoming).kind = "answer"
  /\ answers' = Append(answers, Head(incoming)) /\ ready' = ready + 1
  /\ response' = Head(incoming)
  /\ incoming' = Tail(incoming)
  /\ UNCHANGED <<threadVars, accVars, rx, target, done, active, up>>

ReadAnswer ==
  /\ rx = "read" /\ incoming # <<>> /\ Head(incoming).kind = "answer"
  /\ HandOver(Head(incoming), 1)
  /\ incoming' = Tail(incoming)
  /\ UNCHANGED <<threadVars, accVars, target, done, active, up>>

\* The connection is lost between the header of an answer and its end.  An
\* IOException releases all threads that wait, and the code goes on with
\* what the buffer held before; at end of file a negative position is
\* another exception, which only ends this call.
AnswerCutOff ==
  /\ rx = "read" /\ ~up /\ incoming # <<>> /\ Head(incoming).kind = "answer"
  /\ incoming' = <<>>
  /\ \/ UNCHANGED <<rx, response, answers, ready>>
     \/ /\ response = None /\ ready' = ready + Released
        /\ UNCHANGED <<rx, response, answers>>
     \/ response # None /\ HandOver(response, Released + 1)
  /\ UNCHANGED <<threadVars, accVars, target, done, active, up>>

AcquireDone ==
  /\ rx = "handed" /\ done > 0
  /\ done' = done - 1 /\ rx' = "read"
  /\ UNCHANGED <<threadVars, accVars, incoming, target, response, answers,
                 ready, active, up>>

\* close() of the connection when the receiver stops.
Stop == rx' = "stopped" /\ up' = FALSE

\* Data for a port where nobody is registered is skipped.  Where skip() only
\* says so, it stays in the stream.
Skip ==
  /\ rx = "read" /\ incoming # <<>> /\ Head(incoming).kind = "data"
  /\ active[Head(incoming).port] = None
  /\ incoming' = Tail(incoming)
  /\ rx' = "read" \/ (~SkipWorks /\ rx' = "adrift")
  /\ UNCHANGED <<threadVars, accVars, target, response, spawnVars, active, up>>

\* Other threads may change the table and close the port before what was
\* found in it is used.
Lookup ==
  /\ rx = "read" /\ incoming # <<>> /\ Head(incoming).kind = "data"
  /\ active[Head(incoming).port] # None
  /\ rx' = "found" /\ target' = active[Head(incoming).port]
  /\ UNCHANGED <<threadVars, accVars, incoming, response, spawnVars, active,
                 up>>

\* getPort() is null when the constructor of the service has not ended, which
\* stops the receiver; the data is left in the stream, and taken for headers
\* from then on, when the input of the port is closed.
Deliver(closed) ==
  /\ rx = "found"
  /\ incoming' = Tail(incoming) /\ target' = None
  /\ IF portOf[target] = None THEN Stop
     ELSE rx' = (IF target \in closed THEN "astray" ELSE "read") /\ UNCHANGED up
  /\ UNCHANGED <<threadVars, accVars, response, spawnVars, active>>

\* A receiver that takes data for headers skips some of what follows, or finds
\* a port that is outside of the table.  What else it may take them for is
\* left out, and no property says anything of it.
Misread ==
  /\ rx \in {"astray", "adrift"} /\ incoming # <<>>
  /\ incoming' = Tail(incoming)
  /\ Stop \/ UNCHANGED <<rx, up>>
  /\ UNCHANGED <<threadVars, accVars, target, response, spawnVars, active>>

Receive(closed) == Skip \/ Lookup \/ Deliver(closed) \/ Misread
ReadData == Receive({})

\* A read of a header fails.  Nobody that waits for an answer is told.
ReadFails ==
  /\ rx \in {"read", "astray", "adrift"} /\ ~up
  /\ Stop /\ incoming' = <<>>
  /\ UNCHANGED <<threadVars, accVars, target, response, spawnVars, active>>

-----------------------------------------------------------------------------
ThreadStep(r) == \/ Put(r) \/ Flip(r) \/ WriteRequest(r) \/ Acquire(r)
                 \/ Take(r) \/ Register(r) \/ AssignPort(r)
ReceiverStep == \/ ReadAnswer \/ AnswerCutOff \/ AcquireDone \/ ReadData
                \/ ReadFails

Next ==
  \/ \E r \in Requests : ThreadStep(r)
  \/ ReceiverStep
  \/ ServiceSpawnerOnBytesReceived
  \/ \E p \in Ports : ServiceSends(p)
  \/ Lost \/ FallsSilent

\* Threads run when they can, and the accessory answers what it receives.
Fairness ==
  /\ \A r \in Requests : WF_vars(Flip(r) \/ WriteRequest(r) \/ Acquire(r)
                                   \/ Take(r) \/ Register(r) \/ AssignPort(r))
  /\ WF_vars(ReceiverStep)
  /\ WF_vars(ServiceSpawnerOnBytesReceived)

Spec == Init /\ [][Next]_vars /\ Fairness

-----------------------------------------------------------------------------
(* Properties.                                                             *)

\* requestService returns the port of the service that was asked for, and not
\* the one another request was answered with.
AnswerIsOwn ==
  up => \A r \in Requests : portOf[r] # None => served[portOf[r]] = r

\* The two semaphores hand over one answer at a time: the receiver waits
\* exactly while an answer has not been taken or its taking not been noticed,
\* and no permit is left over for the next answer.
HandedOver ==
  up => /\ Len(answers) = ready + Cardinality({r \in Requests : pc[r] = "take"})
        /\ Len(answers) + done = (IF rx = "handed" THEN 1 ELSE 0)
=============================================================================
