------------------------------ MODULE BulkFifos ------------------------------
(***************************************************************************)
(* The two named pipes of one bulk transfer (bulkTransfer.c): how main     *)
(* makes them and opens them together with the payload, a process of its   *)
(* own, and how they are taken down.  What the transfer's thread does with *)
(* the port is in Bridge; here it reads from its fifo.                     *)
(*                                                                         *)
(* A fifo that is opened for reading or for writing waits for somebody to  *)
(* open its other end, but for a reader with O_NONBLOCK.  A read finds the *)
(* end of the file as long as nobody has the fifo open for writing.        *)
(***************************************************************************)
EXTENDS FiniteSets

CONSTANT Orders  \* the fifos a payload may open first

ASSUME FifoAssumption == Orders \subseteq {"toPayload", "toAndroid"}

VARIABLES main,      \* where main is
          thread,    \* where the bulk thread is
          payload,   \* where the payload is
          first,     \* the fifo it opens first
          request,   \* the call of onBulkRequest
          files,     \* what there is in the file system
          ends,      \* the four ends of the fifos: main's and the payload's of each
          nonblock   \* main's end of the fifo to Android has O_NONBLOCK

fifoVars == <<main, thread, payload, first, request, files, ends, nonblock>>
payloadVars == <<payload, first>>

Fifos == {"toPayload", "toAndroid"}
Other(fifo) == CHOOSE f \in Fifos : f # fifo
Peer(side) == IF side = "main" THEN "payload" ELSE "main"

\* An open call by one side is under way; it ends when the other side has its end open,
\* or is waiting to.
Opening(side, fifo) ==
  IF ends[Peer(side)][fifo] = "closed"
  THEN [ends EXCEPT ![side][fifo] = "waiting"]
  ELSE [s \in {"main", "payload"} |-> [ends[s] EXCEPT ![fifo] = "open"]]

\* MUTANT of OpenNonBlocking: the flag is forgotten.
OpenBlocking == Opening("main", "toAndroid")

\* A reader with O_NONBLOCK waits for nobody.
OpenNonBlocking == [Opening("main", "toAndroid") EXCEPT !["main"]["toAndroid"] = "open"]
AllClosed == [fifo \in Fifos |-> "closed"]
-----------------------------------------------------------------------------
(* main: BulkInitInternal. *)

\* mkdtemp and the two calls of mkfifo, any of which may fail.
MakeFifos ==
  /\ main = "start"
  /\ \/ files' = {"tmpdir"} \union Fifos /\ main' = "notify"
     \/ files' \in {{}, {"tmpdir"}, {"tmpdir", "toPayload"}} /\ main' = "cleanup"
  /\ UNCHANGED <<thread, payloadVars, request, ends, nonblock>>

\* The call of the payload is sent, or there is no bus or no message.
notifyPayload ==
  /\ main = "notify"
  /\ \/ main' = "response" /\ request' = "sent"
     \/ main' = "cleanup" /\ UNCHANGED request
  /\ UNCHANGED <<thread, payloadVars, files, ends, nonblock>>

\* The reply of the payload; libdbus makes up an error when it is late.
checkPayloadResponse ==
  /\ main = "response"
  /\ \/ request = "accepted" /\ main' = "open to Android" /\ UNCHANGED request
     \/ request \in {"sent", "refused"} /\ main' = "cleanup" /\ request' = "refused"
  /\ UNCHANGED <<thread, payloadVars, files, ends, nonblock>>

\* MUTANT of OpenToAndroid: a failure goes unnoticed.
OpenToAndroidUnchecked ==
  /\ main = "open to Android" /\ main' = "open to payload"
  /\ \/ ends' = OpenNonBlocking /\ nonblock' = TRUE
     \/ UNCHANGED <<ends, nonblock>>
  /\ UNCHANGED <<thread, payloadVars, request, files>>

OpenToAndroid ==
  /\ main = "open to Android"
  /\ \/ main' = "open to payload" /\ ends' = OpenNonBlocking /\ nonblock' = TRUE
     \/ main' = "cleanup" /\ UNCHANGED <<ends, nonblock>>
  /\ UNCHANGED <<thread, payloadVars, request, files>>

\* Once the first open call has returned.
OpenToPayload ==
  /\ main = "open to payload" /\ ends["main"]["toAndroid"] = "open"
  /\ \/ main' = "opening" /\ ends' = Opening("main", "toPayload")
     \/ main' = "cleanup" /\ UNCHANGED ends
  /\ UNCHANGED <<thread, payloadVars, request, files, nonblock>>

\* MUTANT of StartThread: the fifo is not put back into blocking mode.
StartThreadNonBlocking ==
  /\ main = "opening" /\ ends["main"]["toPayload"] = "open"
  /\ main' = "running" /\ thread' = "start"
  /\ UNCHANGED <<payloadVars, request, files, ends, nonblock>>

StartThread ==
  /\ main = "opening" /\ ends["main"]["toPayload"] = "open"
  /\ main' = "running" /\ thread' = "start" /\ nonblock' = FALSE
  /\ UNCHANGED <<payloadVars, request, files, ends>>

\* Android has no more data for the payload.
BulkOnEof ==
  /\ main = "running"
  /\ ends' = [ends EXCEPT !["main"]["toPayload"] = "closed"]
  /\ UNCHANGED <<main, thread, payloadVars, request, files, nonblock>>

\* Both halves of the port are closed, or the connection is lost.
ServiceEnds ==
  /\ main = "running"
  /\ main' = "cleanup"
  /\ UNCHANGED <<thread, payloadVars, request, files, ends, nonblock>>

\* MUTANT of BulkCleanup: the fifo to Android stays, and with it the directory.
BulkCleanupLeavesFifo ==
  /\ main = "cleanup"
  /\ ends' = [ends EXCEPT !["main"] = AllClosed]
  /\ files' = files \ {"toPayload"}
  /\ main' = IF thread = "none" THEN "gone" ELSE "join"
  /\ UNCHANGED <<thread, payloadVars, request, nonblock>>

\* MUTANT of BulkCleanup: the payload's fifo is left to the end of the thread.
BulkCleanupKeepsWriting ==
  /\ main = "cleanup"
  /\ ends' = [ends EXCEPT !["main"]["toAndroid"] = "closed"]
  /\ files' = {}
  /\ main' = IF thread = "none" THEN "gone" ELSE "join"
  /\ UNCHANGED <<thread, payloadVars, request, nonblock>>

\* The cleanup main makes.  A thread that cleans up its own port detaches itself and has
\* nobody to wait for it: CleanupLock of Bridge.
BulkCleanup ==
  /\ main = "cleanup"
  /\ ends' = [ends EXCEPT !["main"] = AllClosed]
  /\ files' = {}
  /\ main' = IF thread = "none" THEN "gone" ELSE "join"
  /\ UNCHANGED <<thread, payloadVars, request, nonblock>>

Join ==
  /\ main = "join" /\ thread = "ended"
  /\ main' = "gone"
  /\ UNCHANGED <<thread, payloadVars, request, files, ends, nonblock>>
-----------------------------------------------------------------------------
(* The bulk thread.  A read that has begun does not notice that its descriptor is closed. *)

\* read is called: on a closed descriptor, without a writer, or with nothing to read and
\* O_NONBLOCK it returns at once, and the thread ends with an EOF for Android.
Read ==
  /\ thread \in {"start", "read"}
  /\ thread' = IF ends["main"]["toAndroid"] = "open" /\ ends["payload"]["toAndroid"] = "open"
                  /\ ~nonblock
               THEN "reading" ELSE "ended"
  /\ UNCHANGED <<main, payloadVars, request, files, ends, nonblock>>

\* It returns with data, which go to the port, or finds that the payload has closed its end.
ReadData ==
  /\ thread = "reading" /\ ends["payload"]["toAndroid"] = "open"
  /\ thread' = "read"
  /\ UNCHANGED <<main, payloadVars, request, files, ends, nonblock>>
ReadEnd ==
  /\ thread = "reading" /\ ends["payload"]["toAndroid"] # "open"
  /\ thread' = "ended"
  /\ UNCHANGED <<main, payloadVars, request, files, ends, nonblock>>
-----------------------------------------------------------------------------
(* The payload.  As testStub.py does, it answers before it opens its fifos. *)

Respond ==
  /\ payload = "idle" /\ request = "sent"
  /\ \/ request' = "accepted" /\ payload' = "opening"
     \/ request' = "refused" /\ payload' = "closed"
  /\ UNCHANGED <<main, thread, first, files, ends, nonblock>>

\* A reply that is too late is dropped; the payload goes on as if it were not.
RespondLate ==
  /\ payload = "idle" /\ request = "refused"
  /\ payload' = "opening"
  /\ UNCHANGED <<main, thread, first, request, files, ends, nonblock>>

\* It opens the one fifo, and once that call has returned the other.  A fifo that has
\* been removed cannot be opened.
PayloadOpen(fifo) ==
  /\ payload = "opening" /\ ends["payload"][fifo] = "closed"
  /\ fifo = first \/ ends["payload"][first] = "open"
  /\ IF fifo \in files
     THEN ends' = Opening("payload", fifo) /\ UNCHANGED payload
     ELSE ends' = [ends EXCEPT !["payload"] = AllClosed] /\ payload' = "closed"
  /\ UNCHANGED <<main, thread, first, request, files, nonblock>>

PayloadReady ==
  /\ payload = "opening" /\ \A fifo \in Fifos : ends["payload"][fifo] = "open"
  /\ payload' = "open"
  /\ UNCHANGED <<main, thread, first, request, files, ends, nonblock>>

\* It is done, or sees that nobody writes to it any more, or it dies.
PayloadClose ==
  /\ payload = "open"
  /\ payload' = "closed" /\ ends' = [ends EXCEPT !["payload"] = AllClosed]
  /\ UNCHANGED <<main, thread, first, request, files, nonblock>>
PayloadDies ==
  /\ payload \in {"idle", "opening", "open"}
  /\ payload' = "dead" /\ ends' = [ends EXCEPT !["payload"] = AllClosed]
  /\ UNCHANGED <<main, thread, first, request, files, nonblock>>
-----------------------------------------------------------------------------
FifoInit ==
  /\ main = "start" /\ thread = "none" /\ payload = "idle"
  /\ first \in Orders
  /\ request = "none"
  /\ files = {}
  /\ ends = [side \in {"main", "payload"} |-> AllClosed]
  /\ nonblock = FALSE

BulkInitInternal == MakeFifos \/ notifyPayload \/ checkPayloadResponse \/ OpenToAndroid
                      \/ OpenToPayload \/ StartThread
Main == BulkInitInternal \/ BulkCleanup \/ Join
Thread == Read \/ ReadEnd
Payload == Respond \/ RespondLate \/ (\E fifo \in Fifos : PayloadOpen(fifo)) \/ PayloadReady
FifoNext == Main \/ BulkOnEof \/ ServiceEnds \/ Thread \/ ReadData \/ Payload \/ PayloadClose \/ PayloadDies

\* main and the thread run; so does the payload, which closes its ends when it finds that
\* main has (onEchoIOReady).  A service need not end, and a payload need not write, close
\* or die of itself.
FifoSpec ==
  /\ FifoInit /\ [][FifoNext]_fifoVars
  /\ WF_fifoVars(Main) /\ WF_fifoVars(Thread) /\ WF_fifoVars(Payload)
  /\ WF_fifoVars(PayloadClose /\ ends["main"]["toPayload"] = "closed")
-----------------------------------------------------------------------------
(* Properties. *)

\* Every variable has its type; the two ends of a fifo never both wait,
\* and main has the one open that it reads before it waits in the other.
FifoTypeOK ==
  /\ main \in {"start", "notify", "response", "open to Android", "open to payload", "opening",
               "running", "cleanup", "join", "gone"}
  /\ thread \in {"none", "start", "read", "reading", "ended"}
  /\ payload \in {"idle", "opening", "open", "closed", "dead"}
  /\ first \in Fifos /\ nonblock \in BOOLEAN
  /\ request \in {"none", "sent", "accepted", "refused"}
  /\ files \subseteq {"tmpdir"} \union Fifos
  /\ ends \in [{"main", "payload"} -> [Fifos -> {"closed", "waiting", "open"}]]
  /\ \A fifo \in Fifos : ends["main"][fifo] = "waiting" => ends["payload"][fifo] # "waiting"
  /\ main \in {"open to payload", "opening", "running"} => ends["main"]["toAndroid"] = "open"

\* A transfer that is over, or did not come about, whichever call failed, leaves no file,
\* no open descriptor and no thread.
NothingLeft ==
  main = "gone" => files = {} /\ ends["main"] = AllClosed /\ thread \in {"none", "ended"}

\* Android is told of the end of the data only when the payload has closed its end or the
\* service is ended, for payloads that open the fifo to Android first.
EofAtEnd ==
  thread = "ended" /\ main = "running" /\ first = "toAndroid" => payload \in {"closed", "dead"}

\* main and the payload do not wait for each other for ever ("This could lead to a
\* deathlock if the fifo's are not opened in correct order"): once the payload has
\* accepted, main gets through its open calls, if the payload does not die.
NobodyWaits ==
  (main = "open to Android") ~> (main \in {"running", "cleanup", "gone"} \/ payload = "dead")

\* main, which joins the thread, gets it out of a read that does not notice the closed
\* descriptor: the payload finds that its fifo is no longer written, and closes the other.
CleanupEnds == (main = "cleanup") ~> (main = "gone")
=============================================================================
