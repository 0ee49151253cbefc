--------------------------- MODULE BulkFifosProofs ---------------------------
(***************************************************************************)
(* What the fifos of a bulk transfer promise, proved for every step: no    *)
(* bound was set in BulkFifos, and Orders is any set of orders.  The       *)
(* inductive invariant adds to the type what main, its thread and the      *)
(* payload know of each other.                                             *)
(***************************************************************************)
EXTENDS BulkFifos, TLAPS

Over == {"closed", "dead"}       \* a payload that has closed its ends for good

\* The thread exists only from StartThread on, and reads in blocking mode.
ThreadLate ==
  /\ main \in {"start", "notify", "response", "open to Android",
               "open to payload", "opening"} => thread = "none"
  /\ thread # "none" => ~nonblock

\* After BulkCleanup nothing can be opened any more; Join waits for the thread.
Removed ==
  /\ main \in {"join", "gone"} => 
       files = {} /\ \A fifo \in Fifos : ends["main"][fifo] = "closed"
  /\ main = "gone" => thread \in {"none", "ended"}

\* A payload that has not begun or is over holds nothing, and it opens its fifos in its order.
PayloadOrder ==
  /\ payload \in Over \cup {"idle"} => \A fifo \in Fifos : ends["payload"][fifo] = "closed"
  /\ first = "toAndroid" /\ ends["payload"]["toPayload"] # "closed"
       => ends["payload"]["toAndroid"] = "open"
  /\ first = "toPayload" /\ ends["payload"]["toAndroid"] # "closed"
       => ends["payload"]["toPayload"] = "open"

\* The open call of main returns only together with the payload's.
OpenedTogether ==
  main = "opening" /\ ends["main"]["toPayload"] = "open"
    => ends["payload"]["toPayload"] = "open" \/ payload \in Over

\* While main serves the transfer, its thread has a writer to read from.
ThreadHasWriter ==
  main = "running" /\ first = "toAndroid"
    => ends["payload"]["toAndroid"] = "open" \/ payload \in Over

IInv == /\ FifoTypeOK /\ ThreadLate /\ Removed /\ PayloadOrder
        /\ OpenedTogether /\ ThreadHasWriter /\ EofAtEnd
-----------------------------------------------------------------------------
EndStates == {"closed", "waiting", "open"}

\* What an open call of one side does to the four ends (Opening).
LEMMA MainOpens ==
  ASSUME FifoTypeOK, NEW fifo \in Fifos, NEW new, new = Opening("main", fifo)
  PROVE  /\ new \in [{"main", "payload"} -> [Fifos -> EndStates]]
         /\ \A s \in {"main", "payload"}, f \in Fifos :
              f # fifo => new[s][f] = ends[s][f]
         /\ IF ends["payload"][fifo] = "closed"
            THEN new["main"][fifo] = "waiting" /\ new["payload"][fifo] = "closed"
            ELSE new["main"][fifo] = "open" /\ new["payload"][fifo] = "open"
  BY DEF Opening, Peer, Fifos, FifoTypeOK, EndStates

\* The same for an open call of the payload (PayloadOpen).
LEMMA PayloadOpens ==
  ASSUME FifoTypeOK, NEW fifo \in Fifos, NEW new, new = Opening("payload", fifo)
  PROVE  /\ new \in [{"main", "payload"} -> [Fifos -> EndStates]]
         /\ \A s \in {"main", "payload"}, f \in Fifos :
              f # fifo => new[s][f] = ends[s][f]
         /\ IF ends["main"][fifo] = "closed"
            THEN new["payload"][fifo] = "waiting" /\ new["main"][fifo] = "closed"
            ELSE new["main"][fifo] = "open" /\ new["payload"][fifo] = "open"
  BY DEF Opening, Peer, Fifos, FifoTypeOK, EndStates

\* The open call with O_NONBLOCK leaves main's end open and the other fifo as it was.
LEMMA OpenNonBlockingEnds ==
  ASSUME FifoTypeOK, NEW new, new = OpenNonBlocking
  PROVE  /\ new \in [{"main", "payload"} -> [Fifos -> EndStates]]
         /\ \A s \in {"main", "payload"} : new[s]["toPayload"] = ends[s]["toPayload"]
         /\ new["main"]["toAndroid"] = "open"
         /\ new["payload"]["toAndroid"] =
              IF ends["payload"]["toAndroid"] = "closed" THEN "closed" ELSE "open"
<1> DEFINE blocking == Opening("main", "toAndroid")
<1>1. /\ blocking \in [{"main", "payload"} -> [Fifos -> EndStates]]
      /\ \A s \in {"main", "payload"} : blocking[s]["toPayload"] = ends[s]["toPayload"]
      /\ blocking["payload"]["toAndroid"] =
           IF ends["payload"]["toAndroid"] = "closed" THEN "closed" ELSE "open"
  BY MainOpens DEF Fifos
<1>2. new = [blocking EXCEPT !["main"]["toAndroid"] = "open"]
  BY DEF OpenNonBlocking
<1> HIDE DEF blocking
<1>3. QED BY <1>1, <1>2 DEF Fifos, EndStates

\* main's open of the fifo to the payload (OpenToPayload): it waits, or both ends are open.
LEMMA ToPayloadEnds ==
  ASSUME FifoTypeOK, ends' = Opening("main", "toPayload")
  PROVE  /\ ends' \in [{"main", "payload"} -> [Fifos -> EndStates]]
         /\ \A s \in {"main", "payload"} : ends'[s]["toAndroid"] = ends[s]["toAndroid"]
         /\ IF ends["payload"]["toPayload"] = "closed"
            THEN ends'["main"]["toPayload"] = "waiting"
                 /\ ends'["payload"]["toPayload"] = "closed"
            ELSE ends'["main"]["toPayload"] = "open"
                 /\ ends'["payload"]["toPayload"] = "open"
  BY MainOpens DEF Fifos

\* The payload's open of a fifo touches that fifo only (PayloadOpen).
LEMMA PayloadOpenEnds ==
  ASSUME FifoTypeOK, NEW fifo \in Fifos, fifo \in files, PayloadOpen(fifo)
  PROVE  /\ ends' \in [{"main", "payload"} -> [Fifos -> EndStates]]
         /\ \A s \in {"main", "payload"}, f \in Fifos :
              f # fifo => ends'[s][f] = ends[s][f]
         /\ IF ends["main"][fifo] = "closed"
            THEN ends'["payload"][fifo] = "waiting" /\ ends'["main"][fifo] = "closed"
            ELSE ends'["main"][fifo] = "open" /\ ends'["payload"][fifo] = "open"
<1>1. ends' = Opening("payload", fifo)
  BY DEF PayloadOpen
<1>2. QED
  BY <1>1, PayloadOpens

\* The steps that keep the type of the ends in ways of their own.
LEMMA StutterType == FifoTypeOK /\ UNCHANGED fifoVars => FifoTypeOK'
  BY DEF FifoTypeOK, fifoVars

\* OpenToAndroid keeps the types.
LEMMA OpenToAndroidType ==
  ASSUME FifoTypeOK, OpenToAndroid, ends' = OpenNonBlocking
  PROVE  FifoTypeOK'
<1>1. /\ ends' \in [{"main", "payload"} -> [Fifos -> EndStates]]
      /\ ends'["main"]["toAndroid"] = "open"
      /\ \A s \in {"main", "payload"} : ends'[s]["toPayload"] = ends[s]["toPayload"]
      /\ ends'["payload"]["toAndroid"] # "waiting"
  BY OpenNonBlockingEnds
<1>2. \A fifo \in Fifos :
        ends'["main"][fifo] = "waiting" => ends'["payload"][fifo] # "waiting"
  BY <1>1 DEF FifoTypeOK, Fifos
<1>3. QED
  BY <1>1, <1>2 DEF FifoTypeOK, OpenToAndroid, payloadVars, EndStates

\* PayloadOpen keeps the types.
LEMMA PayloadOpenType ==
  ASSUME FifoTypeOK, NEW fifo \in Fifos, fifo \in files, PayloadOpen(fifo)
  PROVE  FifoTypeOK'
<1>1. /\ ends' \in [{"main", "payload"} -> [Fifos -> EndStates]]
      /\ \A f \in Fifos :
           ends'["main"][f] = "waiting" => ends'["payload"][f] # "waiting"
  BY PayloadOpenEnds DEF FifoTypeOK
<1>2. ends["main"]["toAndroid"] = "open" => ends'["main"]["toAndroid"] = "open"
  BY PayloadOpenEnds DEF Fifos
<1>3. QED
  BY <1>1, <1>2 DEF FifoTypeOK, PayloadOpen, EndStates

\* The inductive invariant holds before the transfer begins.
LEMMA InitIInv == FifoInit => IInv
<1> SUFFICES ASSUME FifoInit PROVE IInv
  OBVIOUS
<1> USE DEF FifoInit, AllClosed, Fifos
<1>1. FifoTypeOK
  BY FifoAssumption DEF FifoTypeOK
<1>2. ThreadLate /\ Removed /\ PayloadOrder
  BY FifoAssumption DEF ThreadLate, Removed, PayloadOrder, Over
<1>3. OpenedTogether /\ ThreadHasWriter /\ EofAtEnd
  BY DEF OpenedTogether, ThreadHasWriter, EofAtEnd
<1>4. QED
  BY <1>1, <1>2, <1>3 DEF IInv

\* Every step of main, of the thread and of the payload keeps it.
LEMMA NextIInv == IInv /\ [FifoNext]_fifoVars => IInv'
<1> SUFFICES ASSUME IInv, [FifoNext]_fifoVars PROVE IInv'
  OBVIOUS
<1> USE DEF IInv, FifoTypeOK, ThreadLate, Removed, PayloadOrder, Fifos,
        OpenedTogether, ThreadHasWriter, EofAtEnd, payloadVars, Over, AllClosed
<1>1. CASE MakeFifos
  <2>1. FifoTypeOK'
    BY <1>1 DEF MakeFifos
  <2>2. (ThreadLate /\ Removed /\ PayloadOrder)'
    BY <1>1 DEF MakeFifos
  <2>3. (OpenedTogether /\ ThreadHasWriter /\ EofAtEnd)'
    BY <1>1 DEF MakeFifos
  <2>4. QED
    BY <2>1, <2>2, <2>3
<1>2. CASE notifyPayload
  <2>1. /\ main = "notify" /\ main' \in {"response", "cleanup"} /\ request' \in {request, "sent"}
        /\ UNCHANGED <<thread, payload, first, files, ends, nonblock>>
    BY <1>2 DEF notifyPayload
  <2>2. FifoTypeOK'
    BY <2>1
  <2>3. (ThreadLate /\ Removed /\ PayloadOrder)'
    BY <2>1
  <2>4. (OpenedTogether /\ ThreadHasWriter /\ EofAtEnd)'
    BY <2>1
  <2>5. QED
    BY <2>2, <2>3, <2>4
<1>3. CASE checkPayloadResponse
  <2>1. /\ main = "response" /\ main' \in {"open to Android", "cleanup"} /\ request' \in {request, "refused"}
        /\ UNCHANGED <<thread, payload, first, files, ends, nonblock>>
    BY <1>3 DEF checkPayloadResponse
  <2>2. FifoTypeOK'
    BY <2>1
  <2>3. (ThreadLate /\ Removed /\ PayloadOrder)'
    BY <2>1
  <2>4. (OpenedTogether /\ ThreadHasWriter /\ EofAtEnd)'
    BY <2>1
  <2>5. QED
    BY <2>2, <2>3, <2>4
<1>4. CASE OpenToAndroid
  <2>1. CASE main' = "cleanup"
    <3>1. /\ main = "open to Android"
          /\ UNCHANGED <<thread, payload, first, request, files, ends, nonblock>>
      BY <1>4, <2>1 DEF OpenToAndroid
    <3>2. FifoTypeOK'
      BY <2>1, <3>1
    <3>3. (ThreadLate /\ Removed /\ PayloadOrder)'
      BY <2>1, <3>1
    <3>4. (OpenedTogether /\ ThreadHasWriter /\ EofAtEnd)'
      BY <2>1, <3>1
    <3>5. QED
      BY <3>2, <3>3, <3>4
  <2>2. CASE main' # "cleanup" /\ ends' = OpenNonBlocking
    <3>1. /\ ends' \in [{"main", "payload"} -> [Fifos -> EndStates]]
          /\ \A s \in {"main", "payload"} : ends'[s]["toPayload"] = ends[s]["toPayload"]
          /\ ends'["main"]["toAndroid"] = "open"
          /\ ends'["payload"]["toAndroid"] =
               IF ends["payload"]["toAndroid"] = "closed" THEN "closed" ELSE "open"
      BY <2>2, OpenNonBlockingEnds
    <3>2. FifoTypeOK'
      BY <1>4, <2>2, OpenToAndroidType
    <3>3. PayloadOrder'
      BY <1>4, <2>2, <3>1 DEF OpenToAndroid
    <3>4. (ThreadLate /\ Removed /\ OpenedTogether /\ ThreadHasWriter /\ EofAtEnd)'
      BY <1>4, <2>2, <3>1 DEF OpenToAndroid
    <3>5. QED
      BY <3>2, <3>3, <3>4
  <2>3. QED
    BY <1>4, <2>1, <2>2 DEF OpenToAndroid
<1>5. CASE OpenToPayload
  <2>1. CASE main' = "cleanup"
    BY <1>5, <2>1 DEF OpenToPayload
  <2>2. CASE main' # "cleanup" /\ ends' = Opening("main", "toPayload")
    <3>1. /\ ends' \in [{"main", "payload"} -> [Fifos -> EndStates]]
          /\ \A s \in {"main", "payload"} : ends'[s]["toAndroid"] = ends[s]["toAndroid"]
          /\ IF ends["payload"]["toPayload"] = "closed"
             THEN ends'["main"]["toPayload"] = "waiting"
                  /\ ends'["payload"]["toPayload"] = "closed"
             ELSE ends'["main"]["toPayload"] = "open"
                  /\ ends'["payload"]["toPayload"] = "open"
      BY <2>2, ToPayloadEnds
    <3>2. FifoTypeOK'
      BY <1>5, <2>2, <3>1 DEF OpenToPayload, EndStates
    <3>3. PayloadOrder'
      BY <1>5, <2>2, <3>1 DEF OpenToPayload
    <3>4. (ThreadLate /\ Removed /\ OpenedTogether /\ ThreadHasWriter /\ EofAtEnd)'
      BY <1>5, <2>2, <3>1 DEF OpenToPayload
    <3>5. QED
      BY <3>2, <3>3, <3>4
  <2>3. QED
    BY <1>5, <2>1, <2>2 DEF OpenToPayload
<1>6. CASE StartThread
  BY <1>6 DEF StartThread
<1>7. CASE BulkOnEof
  <2>1. FifoTypeOK'
    BY <1>7 DEF BulkOnEof
  <2>2. (ThreadLate /\ Removed /\ PayloadOrder)'
    BY <1>7 DEF BulkOnEof
  <2>3. (OpenedTogether /\ ThreadHasWriter /\ EofAtEnd)'
    BY <1>7 DEF BulkOnEof
  <2>4. QED
    BY <2>1, <2>2, <2>3
<1>8. CASE ServiceEnds
  BY <1>8 DEF ServiceEnds
<1>9. CASE BulkCleanup
  <2>1. FifoTypeOK'
    BY <1>9 DEF BulkCleanup
  <2>2. (ThreadLate /\ Removed /\ PayloadOrder)'
    BY <1>9 DEF BulkCleanup
  <2>3. (OpenedTogether /\ ThreadHasWriter /\ EofAtEnd)'
    BY <1>9 DEF BulkCleanup
  <2>4. QED
    BY <2>1, <2>2, <2>3
<1>10. CASE Join
  BY <1>10 DEF Join
<1>11. CASE Read
  <2>1. FifoTypeOK'
    BY <1>11 DEF Read
  <2>2. (ThreadLate /\ Removed /\ PayloadOrder)'
    BY <1>11 DEF Read
  <2>3. (OpenedTogether /\ ThreadHasWriter /\ EofAtEnd)'
    BY <1>11 DEF Read
  <2>4. QED
    BY <2>1, <2>2, <2>3
<1>12. CASE ReadData
  <2>1. FifoTypeOK'
    BY <1>12 DEF ReadData
  <2>2. (ThreadLate /\ Removed /\ PayloadOrder)'
    BY <1>12 DEF ReadData
  <2>3. (OpenedTogether /\ ThreadHasWriter /\ EofAtEnd)'
    BY <1>12 DEF ReadData
  <2>4. QED
    BY <2>1, <2>2, <2>3
<1>13. CASE ReadEnd
  <2>1. FifoTypeOK'
    BY <1>13 DEF ReadEnd
  <2>2. (ThreadLate /\ Removed /\ PayloadOrder)'
    BY <1>13 DEF ReadEnd
  <2>3. (OpenedTogether /\ ThreadHasWriter /\ EofAtEnd)'
    BY <1>13 DEF ReadEnd
  <2>4. QED
    BY <2>1, <2>2, <2>3
<1>14. CASE Respond
  <2>1. FifoTypeOK'
    BY <1>14 DEF Respond
  <2>2. (ThreadLate /\ Removed /\ PayloadOrder)'
    BY <1>14 DEF Respond
  <2>3. (OpenedTogether /\ ThreadHasWriter /\ EofAtEnd)'
    BY <1>14 DEF Respond
  <2>4. QED
    BY <2>1, <2>2, <2>3
<1>15. CASE RespondLate
  BY <1>15 DEF RespondLate
<1>16. CASE PayloadReady
  <2>1. FifoTypeOK'
    BY <1>16 DEF PayloadReady
  <2>2. (ThreadLate /\ Removed /\ PayloadOrder)'
    BY <1>16 DEF PayloadReady
  <2>3. (OpenedTogether /\ ThreadHasWriter /\ EofAtEnd)'
    BY <1>16 DEF PayloadReady
  <2>4. QED
    BY <2>1, <2>2, <2>3
<1>17. CASE PayloadClose
  <2>1. FifoTypeOK'
    BY <1>17 DEF PayloadClose
  <2>2. (ThreadLate /\ Removed /\ PayloadOrder)'
    BY <1>17 DEF PayloadClose
  <2>3. (OpenedTogether /\ ThreadHasWriter /\ EofAtEnd)'
    BY <1>17 DEF PayloadClose
  <2>4. QED
    BY <2>1, <2>2, <2>3
<1>18. CASE PayloadDies
  <2>1. FifoTypeOK'
    BY <1>18 DEF PayloadDies
  <2>2. (ThreadLate /\ Removed /\ PayloadOrder)'
    BY <1>18 DEF PayloadDies
  <2>3. (OpenedTogether /\ ThreadHasWriter /\ EofAtEnd)'
    BY <1>18 DEF PayloadDies
  <2>4. QED
    BY <2>1, <2>2, <2>3
<1>19. ASSUME NEW fifo \in Fifos, PayloadOpen(fifo) PROVE IInv'
  <2>1. CASE fifo \notin files
    <3> DEFINE unchanged ==
          UNCHANGED <<main, thread, first, request, files, nonblock>>
    <3>0. /\ ends' = [ends EXCEPT !["payload"] = AllClosed]
          /\ payload' = "closed" /\ unchanged
      BY <1>19, <2>1 DEF PayloadOpen
    <3>1. FifoTypeOK'
      BY <3>0
    <3>2. PayloadOrder'
      BY <3>0
    <3>3. (ThreadLate /\ Removed)'
      BY <3>0
    <3>4. (OpenedTogether /\ ThreadHasWriter /\ EofAtEnd)'
      BY <3>0
    <3>5. QED
      BY <3>1, <3>2, <3>3, <3>4
  <2>2. CASE fifo \in files
    <3>1. /\ ends' \in [{"main", "payload"} -> [Fifos -> EndStates]]
          /\ \A s \in {"main", "payload"}, f \in Fifos :
               f # fifo => ends'[s][f] = ends[s][f]
          /\ IF ends["main"][fifo] = "closed"
             THEN ends'["payload"][fifo] = "waiting" /\ ends'["main"][fifo] = "closed"
             ELSE ends'["main"][fifo] = "open" /\ ends'["payload"][fifo] = "open"
      BY <1>19, <2>2, PayloadOpenEnds
    <3>2. FifoTypeOK'
      BY <1>19, <2>2, PayloadOpenType
    <3>3. PayloadOrder'
      BY <1>19, <2>2, <3>1 DEF PayloadOpen
    <3>4. (ThreadLate /\ Removed)'
      BY <1>19, <2>2, <3>1 DEF PayloadOpen
    <3>5. (OpenedTogether /\ ThreadHasWriter /\ EofAtEnd)'
      BY <1>19, <2>2, <3>1 DEF PayloadOpen
    <3>6. QED
      BY <3>2, <3>3, <3>4, <3>5
  <2>3. QED
    BY <2>1, <2>2
<1>20. CASE UNCHANGED fifoVars
  <2>1. FifoTypeOK'
    BY <1>20, StutterType
  <2>2. (ThreadLate /\ Removed /\ PayloadOrder)'
    BY <1>20 DEF fifoVars
  <2>3. (OpenedTogether /\ ThreadHasWriter /\ EofAtEnd)'
    BY <1>20 DEF fifoVars
  <2>4. QED
    BY <2>1, <2>2, <2>3
<1>21. QED
  BY <1>1, <1>2, <1>3, <1>4, <1>5, <1>6, <1>7, <1>8, <1>9, <1>10, <1>11, <1>12, <1>13, <1>14, <1>15, <1>16, <1>17, <1>18, <1>19, <1>20
     DEF FifoNext, Main, BulkInitInternal, Thread, Payload

-----------------------------------------------------------------------------
\* The inductive invariant holds in every state of every transfer.
LEMMA IInvHolds == FifoSpec => []IInv
<1>1. FifoInit => IInv
  BY InitIInv
<1>2. IInv /\ [FifoNext]_fifoVars => IInv'
  BY NextIInv
<1>3. QED
  BY <1>1, <1>2, PTL DEF FifoSpec

\* Types, and the two ends of a fifo that never both wait (Opening).
THEOREM FifoTypeCorrect == FifoSpec => []FifoTypeOK
<1>1. IInv => FifoTypeOK
  BY DEF IInv
<1>2. QED
  BY <1>1, IInvHolds, PTL

\* A transfer that is over leaves no file, descriptor or thread (BulkCleanup).
THEOREM NothingLeftHolds == FifoSpec => []NothingLeft
<1>1. IInv => NothingLeft
  BY DEF IInv, NothingLeft, Removed, FifoTypeOK, AllClosed, Fifos
<1>2. QED
  BY <1>1, IInvHolds, PTL

\* A payload that opens the fifo to Android first is read to its end: Android
\* is told EOF only when that payload has closed (bulkTransferThread).
THEOREM EofAtEndHolds == FifoSpec => []EofAtEnd
<1>1. IInv => EofAtEnd
  BY DEF IInv
<1>2. QED
  BY <1>1, IInvHolds, PTL
=============================================================================
