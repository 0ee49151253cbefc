------------------------- MODULE AndroidBridgeProofs -------------------------
(***************************************************************************)
(* The hand-over of answers, the keepalive, and the ports.                 *)
(*                                                                         *)
(* The two semaphores of ServiceRequests hand over one answer at a time,   *)
(* for any number of requesting threads and whether or not they overlap:   *)
(* what goes wrong when they do is whose answer it is, not how it is       *)
(* handed over.  In the whole of AccessoryBridge the ports, their status   *)
(* messages and the keepalive do not disturb it, whatever the application, *)
(* the payloads and the connection do.                                     *)
(*                                                                         *)
(* Both ends of a connection agree on whose port is whose, for any number  *)
(* of requests, of ports given away again and of frames under way.  The    *)
(* invariants of this last part say what each frame under way means for    *)
(* the ports.  They are about a connection that is there, an application   *)
(* that makes one call after the other, and payloads that do what section  *)
(* 4 of the README demands of them (CloseLast, Crossing).                  *)
(***************************************************************************)
EXTENDS AndroidBridge, FiniteSetTheorems, SequenceTheorems, WellFoundedInduction, TLAPS

-----------------------------------------------------------------------------
(* The hand-over in ServiceRequests.                                       *)

Nobody == \A r \in Requests : pc[r] # "take"

\* Nothing to hand over; an answer with its permit; an answer whose permit a
\* thread has; and the taking not noticed by the receiver yet.
Empty == ready = 0 /\ done = 0 /\ answers = <<>> /\ Nobody
Offered == ready = 1 /\ done = 0 /\ (\E a : answers = <<a>>) /\ Nobody
Taking == /\ ready = 0 /\ done = 0 /\ (\E a : answers = <<a>>)
          /\ \E r \in Requests : /\ pc[r] = "take"
                                 /\ \A s \in Requests \ {r} : pc[s] # "take"
Taken == ready = 0 /\ done = 1 /\ answers = <<>> /\ Nobody

Hand == up => /\ rx # "stopped"
              /\ rx = "handed" => Offered \/ Taking \/ Taken
              /\ rx # "handed" => Empty

Places == {"idle", "flip", "write", "wait", "take", "register", "assign",
           "open", "failed"}

HandInv == Hand /\ pc \in [Requests -> Places]

\* Initially there is no answer.
LEMMA InitHand == Init => HandInv
<1> SUFFICES ASSUME Init PROVE HandInv
  OBVIOUS
<1>1. pc \in [Requests -> Places] /\ Nobody
  BY DEF Init, Places, Nobody
<1>2. Empty /\ rx = "read"
  BY <1>1 DEF Init, Empty
<1>3. QED
  BY <1>1, <1>2 DEF HandInv, Hand

\* A step of a requesting thread (ServiceSpawner.requestService).
LEMMA ThreadHand ==
  ASSUME HandInv, NEW r \in Requests, ThreadStep(r)
  PROVE  HandInv'
<1>1. ASSUME UNCHANGED <<rx, up, ready, done, answers>>,
             pc' \in [Requests -> Places],
             \A s \in Requests : pc'[s] = "take" <=> pc[s] = "take"
      PROVE  HandInv'
  BY <1>1 DEF HandInv, Hand, Empty, Offered, Taking, Taken, Nobody
<1>2. CASE \/ Put(r) \/ Flip(r) \/ WriteRequest(r)
           \/ Register(r) \/ AssignPort(r)
  <2>1. UNCHANGED <<rx, up, ready, done, answers>>
    BY <1>2 DEF Put, Flip, WriteRequest, Register, AssignPort, spawnVars
  <2>2. \E to \in Places \ {"take"} :
          pc[r] # "take" /\ pc' = [pc EXCEPT ![r] = to]
    BY <1>2 DEF Put, Flip, WriteRequest, Register, AssignPort, Places
  <2>3. pc' \in [Requests -> Places]
    BY <2>2 DEF HandInv
  <2>4. \A s \in Requests : pc'[s] = "take" <=> pc[s] = "take"
    BY <2>2 DEF HandInv
  <2>5. QED
    BY <1>1, <2>1, <2>3, <2>4
<1>3. CASE Acquire(r)
  <2>1. pc' = [pc EXCEPT ![r] = "take"] /\ ready > 0 /\ ready' = ready - 1
        /\ UNCHANGED <<rx, up, done, answers>>
    BY <1>3 DEF Acquire
  <2>2. pc' \in [Requests -> Places] /\ (Nobody =>
           /\ pc'[r] = "take" /\ \A s \in Requests \ {r} : pc'[s] # "take")
    BY <2>1 DEF HandInv, Places, Nobody
  <2>3. Offered => Taking'
    BY <2>1, <2>2 DEF Offered, Taking
  <2>4. ~Empty /\ ~Taking /\ ~Taken
    BY <2>1 DEF Empty, Taking, Taken
  <2>5. QED
    BY <2>1, <2>2, <2>3, <2>4 DEF HandInv, Hand
<1>4. CASE Take(r)
  <2>1. /\ pc[r] = "take" /\ done' = done + 1 /\ UNCHANGED <<rx, up, ready>>
        /\ answers # <<>> => answers' = Tail(answers)
        /\ \E to \in {"register", "failed"} : pc' = [pc EXCEPT ![r] = to]
    BY <1>4 DEF Take
  <2>2. pc' \in [Requests -> Places]
    BY <2>1 DEF HandInv, Places
  <2>3. ~Empty /\ ~Offered /\ ~Taken
    BY <2>1 DEF Empty, Offered, Taken, Nobody
  <2>4. ASSUME Taking PROVE Taken'
    <3>1. PICK a : answers = <<a>>
      BY <2>4 DEF Taking
    <3>2. answers' = <<>>
      BY <2>1, <3>1
    <3>3. Nobody'
      BY <2>1, <2>4 DEF Taking, Nobody, HandInv
    <3>4. QED
      BY <2>1, <2>4, <3>2, <3>3 DEF Taking, Taken
  <2>5. QED
    BY <2>1, <2>2, <2>3, <2>4 DEF HandInv, Hand
<1>5. QED
  BY <1>2, <1>3, <1>4 DEF ThreadStep

\* Every other step: the receiver, the accessory and the connection.
LEMMA OtherHand ==
  ASSUME HandInv,
         \/ ReceiverStep \/ ServiceSpawnerOnBytesReceived
         \/ \E p \in Ports : ServiceSends(p)
         \/ Lost \/ FallsSilent \/ UNCHANGED vars
  PROVE  HandInv'
<1> USE DEF HandInv, Hand, Empty, Offered, Taking, Taken, Nobody, threadVars, spawnVars
<1>1. CASE ReadAnswer
  BY <1>1 DEF ReadAnswer, HandOver
<1>2. CASE AnswerCutOff
  BY <1>2 DEF AnswerCutOff
<1>3. CASE AcquireDone
  BY <1>3 DEF AcquireDone
<1>4. CASE ReadData
  BY <1>4 DEF ReadData, Receive, Skip, Lookup, Deliver, Misread, Stop
<1>5. CASE ReadFails
  BY <1>5 DEF ReadFails, Stop
<1>6. CASE ServiceSpawnerOnBytesReceived
  BY <1>6 DEF ServiceSpawnerOnBytesReceived
<1>7. CASE \E p \in Ports : ServiceSends(p)
  BY <1>7 DEF ServiceSends
<1>8. CASE Lost
  BY <1>8 DEF Lost, Cut
<1>9. CASE FallsSilent
  BY <1>9 DEF FallsSilent
<1>10. CASE UNCHANGED vars
  BY <1>10 DEF vars
<1>11. QED
  BY <1>1, <1>2, <1>3, <1>4, <1>5, <1>6, <1>7, <1>8, <1>9, <1>10
     DEF ReceiverStep

\* The four states of the hand-over are what HandedOver counts.
LEMMA HandIsHandedOver == HandInv => HandedOver
<1> SUFFICES ASSUME HandInv, up
             PROVE  /\ Len(answers) = ready + Cardinality({r \in Requests : pc[r] = "take"})
                    /\ Len(answers) + done = (IF rx = "handed" THEN 1 ELSE 0)
  BY DEF HandedOver
<1> DEFINE taking == {r \in Requests : pc[r] = "take"}
<1>1. Nobody => Cardinality(taking) = 0
  BY FS_EmptySet DEF Nobody
<1>2. Taking => Cardinality(taking) = 1
  <2> SUFFICES ASSUME Taking PROVE Cardinality(taking) = 1
    OBVIOUS
  <2>1. PICK r \in Requests : taking = {r}
    BY DEF Taking
  <2>2. QED
    BY <2>1, FS_Singleton
<1>3. \A a : Len(<<a>>) = 1
  OBVIOUS
<1> HIDE DEF taking
<1>4. /\ Len(answers) = ready + Cardinality(taking)
      /\ Len(answers) + done = (IF rx = "handed" THEN 1 ELSE 0)
  <2>1. CASE Empty /\ rx # "handed"
    BY <1>1, <2>1 DEF Empty
  <2>2. CASE Offered /\ rx = "handed"
    BY <1>1, <1>3, <2>2 DEF Offered
  <2>3. CASE Taking /\ rx = "handed"
    BY <1>2, <1>3, <2>3 DEF Taking
  <2>4. CASE Taken /\ rx = "handed"
    BY <1>1, <2>4 DEF Taken
  <2>5. QED
    BY <2>1, <2>2, <2>3, <2>4 DEF HandInv, Hand
<1>5. QED
  BY <1>4 DEF taking

\* One answer at a time is handed over, and no permit is left behind, for any
\* set of requesting threads (ServiceSpawner.onDataReady, requestService).
THEOREM HandedOverHolds == Spec => []HandedOver
<1>1. HandInv /\ [Next]_vars => HandInv'
  BY ThreadHand, OtherHand DEF Next
<1>2. QED
  BY InitHand, <1>1, HandIsHandedOver, PTL DEF Spec

-----------------------------------------------------------------------------
(* The hand-over in AccessoryBridge.                                       *)

\* The steps that are those of ServiceRequests.
LEMMA RequestHand ==
  ASSUME HandInv,
         \/ \E r \in Requests : RequestStep(r)
         \/ SpawnerStep \/ Answers \/ LinkFails
         \/ \E p \in Ports : Sends(p)
  PROVE  HandInv'
<1>1. CASE \E r \in Requests : RequestStep(r)
  BY <1>1, ThreadHand DEF RequestStep
<1>2. CASE SpawnerStep
  BY <1>2, OtherHand DEF SpawnerStep, ReceiverStep
<1>3. CASE Answers
  BY <1>3, OtherHand DEF Answers
<1>4. CASE LinkFails
  BY <1>4, OtherHand DEF LinkFails
<1>5. CASE \E p \in Ports : Sends(p)
  BY <1>5, OtherHand DEF Sends
<1>6. QED
  BY <1>1, <1>2, <1>3, <1>4, <1>5

\* All others leave the two semaphores, the queue of answers and the threads
\* that wait alone; they may send the receiver astray, or end the connection.
LEMMA PortHand ==
  ASSUME HandInv,
         \/ \E r \in Requests : PortStep(r)
         \/ Read \/ StatusOnDataReady \/ TestBothClosed \/ Cleanup
         \/ KeepaliveOnDataReady
         \/ onStatus \/ KeepaliveOnBytesReceived
         \/ \E p \in Ports : sendEof(p) \/ sendClose(p)
         \/ KeepaliveStep
         \/ UNCHANGED bridgeVars
  PROVE  HandInv'
<1>1. ASSUME UNCHANGED <<pc, ready, done, answers>>,
             \/ UNCHANGED <<rx, up>>
             \/ /\ rx # "handed" /\ rx' \notin {"handed", "stopped"}
                /\ UNCHANGED up
             \/ ~up'
      PROVE  HandInv'
  BY <1>1 DEF HandInv, Hand, Empty, Offered, Taking, Taken, Nobody
<1> USE DEF vars, threadVars, spawnVars
<1>2. CASE \E r \in Requests : PortStep(r)
  BY <1>1, <1>2 DEF PortStep, StartClose, StartEof, WriteStatus, Forget
<1>3. CASE Read
  BY <1>1, <1>3 DEF Read, Receive, Skip, Lookup, Deliver, Misread, Stop
<1>4. CASE StatusOnDataReady \/ TestBothClosed \/ Cleanup \/ KeepaliveOnDataReady
  BY <1>1, <1>4 DEF StatusOnDataReady, TestBothClosed, Cleanup, KeepaliveOnDataReady
<1>5. CASE onStatus \/ KeepaliveOnBytesReceived
  BY <1>1, <1>5 DEF onStatus, KeepaliveOnBytesReceived
<1>6. CASE \E p \in Ports : sendEof(p) \/ sendClose(p)
  BY <1>1, <1>6 DEF sendEof, sendClose, Ends
<1>7. CASE KeepaliveStep
  BY <1>1, <1>7 DEF KeepaliveStep, Construct, Tick, sendKeepalive, handleMessage, Cut
<1>8. CASE UNCHANGED bridgeVars
  BY <1>1, <1>8 DEF bridgeVars
<1>9. QED
  BY <1>2, <1>3, <1>4, <1>5, <1>6, <1>7, <1>8

\* One answer at a time is handed over and no permit is left behind, also
\* while ports are opened, closed and reused and pings come and go
\* (AccessoryBridge, ServiceSpawner.onDataReady).
THEOREM BridgeHandedOverHolds == BridgeSpec => []HandedOver
<1>1. BridgeInit => HandInv
  BY InitHand DEF BridgeInit
<1>2. HandInv /\ [BridgeNext]_bridgeVars => HandInv'
  BY RequestHand, PortHand DEF BridgeNext, BridgeReceiverStep, AccessoryStep
<1>3. QED
  BY <1>1, <1>2, HandIsHandedOver, PTL DEF BridgeSpec

-----------------------------------------------------------------------------
(* The keepalive.                                                          *)

IsSeq(seq) == \E S : seq \in Seq(S)

\* What is in a sequence stays there when another element is appended, and what is
\* at its head stays there.
LEMMA AppendHas ==
  ASSUME NEW seq, IsSeq(seq), NEW x
  PROVE  /\ IsSeq(Append(seq, x)) /\ Has(Append(seq, x), x)
         /\ \A m : Has(seq, m) => Has(Append(seq, x), m)
         /\ seq # <<>> => Append(seq, x) # <<>> /\ Head(Append(seq, x)) = Head(seq)
<1>1. PICK S : seq \in Seq(S)
  BY DEF IsSeq
<1>2. seq \in Seq(S \cup {x}) /\ x \in S \cup {x}
  BY <1>1
<1>3. /\ Append(seq, x) \in Seq(S \cup {x})
      /\ Len(Append(seq, x)) = Len(seq) + 1 /\ Len(seq) \in Nat
      /\ Append(seq, x)[Len(seq) + 1] = x
      /\ \A i \in 1..Len(seq) : Append(seq, x)[i] = seq[i]
  BY <1>2
<1>4. seq # <<>> => Append(seq, x) # <<>> /\ Head(Append(seq, x)) = Head(seq)
  BY <1>2, <1>3
<1>5. QED
  BY <1>3, <1>4 DEF IsSeq, Has

\* What is in a sequence and not at its head is in its tail.
LEMMA TailHas ==
  ASSUME NEW seq, IsSeq(seq), seq # <<>>
  PROVE  /\ IsSeq(Tail(seq))
         /\ \A m : Has(seq, m) /\ Head(seq) # m => Has(Tail(seq), m)
<1>1. PICK S : seq \in Seq(S)
  BY DEF IsSeq
<1>2. /\ Tail(seq) \in Seq(S) /\ Len(seq) \in Nat /\ Head(seq) = seq[1]
      /\ Len(Tail(seq)) = Len(seq) - 1
      /\ \A i \in 1..Len(seq) - 1 : Tail(seq)[i] = seq[i + 1]
  BY <1>1
<1>3. ASSUME NEW m, Has(seq, m), Head(seq) # m PROVE Has(Tail(seq), m)
  <2>1. PICK i \in 1..Len(seq) : seq[i] = m
    BY <1>3 DEF Has
  <2>2. i - 1 \in 1..Len(seq) - 1 /\ Tail(seq)[i - 1] = m
    BY <1>2, <1>3, <2>1
  <2>3. QED
    BY <1>2, <2>2 DEF Has
<1>4. QED
  BY <1>2, <1>3 DEF IsSeq

\* While the accessory answers and the receiver reads, a flag that is not set when
\* the timer waits means that the ping or its answer is on the way, or that the
\* alarm has been raised.  The frame a service was looked up for is data.
PingUnderWay == Has(wire, Ping) \/ Has(incoming, Pong)
InPlace == up /\ ~silent /\ rx \notin {"astray", "adrift"}
Found == rx = "found" => incoming # <<>> /\ Head(incoming).kind = "data"
KeepInv ==
  /\ IsSeq(wire) /\ IsSeq(incoming) /\ Found
  /\ InPlace /\ built /\ pinger = "waiting" /\ ~keepAliveReceived => PingUnderWay \/ alarm
  /\ ~built /\ pinger # "ping" /\ ~keepAliveReceived => alarm

\* How a queue of messages may change without losing m.
Keeps(seq, new, m) ==
  \/ new = seq
  \/ \E x : new = Append(seq, x)
  \/ seq # <<>> /\ Head(seq) # m /\ new = Tail(seq)

\* A queue that loses only its head, and that not the message, still has it.
LEMMA KeepsHas ==
  ASSUME NEW seq, IsSeq(seq), NEW new, NEW m, Keeps(seq, new, m)
  PROVE  IsSeq(new) /\ (Has(seq, m) => Has(new, m))
<1>1. CASE new = seq
  BY <1>1
<1>2. CASE \E x : new = Append(seq, x)
  BY <1>2, AppendHas
<1>3. CASE seq # <<>> /\ Head(seq) # m /\ new = Tail(seq)
  BY <1>3, TailHas
<1>4. QED
  BY <1>1, <1>2, <1>3 DEF Keeps

\* Frames that arrive do not change which one a service was looked up for.
LEMMA FoundStays ==
  ASSUME KeepInv, UNCHANGED rx,
         incoming' = incoming \/ \E x : incoming' = Append(incoming, x)
  PROVE  Found'
BY AppendHas DEF KeepInv, Found

\* The empty queue is one.
LEMMA EmptyIsSeq == IsSeq(<<>>)
<1>1. <<>> \in Seq({})
  OBVIOUS
<1>2. QED
  BY <1>1 DEF IsSeq

\* A step that does not touch the keepalive, and loses no ping and no pong
\* unless the connection, the accessory or the receiver fails.
LEMMA OtherKeeps ==
  ASSUME KeepInv, Found', UNCHANGED keepVars,
         \/ /\ Keeps(wire, wire', Ping) /\ Keeps(incoming, incoming', Pong)
            /\ InPlace' => InPlace
         \/ ~InPlace' /\ IsSeq(wire') /\ IsSeq(incoming')
  PROVE  KeepInv'
<1>1. Keeps(wire, wire', Ping) => IsSeq(wire') /\ (Has(wire, Ping) => Has(wire', Ping))
  BY KeepsHas DEF KeepInv
<1>2. Keeps(incoming, incoming', Pong) =>
        IsSeq(incoming') /\ (Has(incoming, Pong) => Has(incoming', Pong))
  BY KeepsHas DEF KeepInv
<1>3. IsSeq(wire)' /\ IsSeq(incoming)'
  BY <1>1, <1>2
<1>4. ASSUME InPlace'
      PROVE InPlace /\ (PingUnderWay => PingUnderWay')
  BY <1>1, <1>2, <1>4 DEF PingUnderWay
<1>5. QED
  BY <1>3, <1>4 DEF KeepInv, keepVars

\* The steps of the threads, the receiver, the accessory and the link.
LEMMA RequestKeeps ==
  ASSUME KeepInv, NEW r \in Requests, RequestStep(r) \/ PortStep(r)
  PROVE  KeepInv'
<1>1. /\ UNCHANGED <<keepVars, incoming, silent, up, rx>>
      /\ wire' = wire \/ \E x : wire' = Append(wire, x)
  BY DEF RequestStep, ThreadStep, Put, Flip, WriteRequest, Acquire, Take,
         Register, AssignPort, Sent, accVars, vars, PortStep, StartClose,
         StartEof, WriteStatus, Forget
<1>2. Found'
  BY <1>1, FoundStays
<1>3. QED
  BY <1>1, <1>2, OtherKeeps DEF Keeps, InPlace

\* What Android does with what it reads leaves the keepalive alone.
LEMMA ReceiverKeeps ==
  ASSUME KeepInv,
         SpawnerStep \/ Read \/ StatusOnDataReady \/ TestBothClosed \/ Cleanup
  PROVE  KeepInv'
<1>1. UNCHANGED <<keepVars, wire, silent>>
  BY DEF SpawnerStep, ReadAnswer, AnswerCutOff, AcquireDone, ReadFails, Read,
         Receive, Skip, Lookup, Deliver, Misread, StatusOnDataReady,
         TestBothClosed, Cleanup, accVars
<1>2. Pong.kind = "pong"
  BY DEF Pong, Frame
<1>3. CASE ReadFails \/ Misread
  <2>1. ~InPlace' /\ Found'
    BY <1>3 DEF ReadFails, Misread, Stop, InPlace, Found
  <2>2. IsSeq(incoming')
    BY <1>3, EmptyIsSeq, TailHas DEF ReadFails, Misread, KeepInv
  <2>3. QED
    BY <1>1, <2>1, <2>2, OtherKeeps DEF KeepInv
<1>4. CASE AnswerCutOff
  <2>1. ~InPlace' /\ Found' /\ incoming' = <<>>
    BY <1>4 DEF AnswerCutOff, HandOver, InPlace, Found
  <2>2. QED
    BY <1>1, <2>1, EmptyIsSeq, OtherKeeps DEF KeepInv
<1>5. CASE \/ ReadAnswer \/ AcquireDone \/ Skip
           \/ Deliver({r \in Requests : ~inputOpen[r]})
           \/ StatusOnDataReady \/ TestBothClosed \/ Cleanup
  <2>1. Keeps(incoming, incoming', Pong)
    BY <1>2, <1>5
       DEF ReadAnswer, AcquireDone, Skip, Deliver, StatusOnDataReady,
           TestBothClosed, Cleanup, Keeps, KeepInv, Found
  <2>2. rx' # "found" /\ (InPlace' => InPlace)
    BY <1>5 DEF ReadAnswer, HandOver, AcquireDone, Skip, Deliver, Stop,
                StatusOnDataReady, TestBothClosed, Cleanup, InPlace, accVars
  <2>3. QED
    BY <1>1, <2>1, <2>2, OtherKeeps DEF Keeps, Found
<1>6. CASE Lookup
  <2>1. Keeps(incoming, incoming', Pong) /\ Found' /\ (InPlace' => InPlace)
    BY <1>6 DEF Lookup, Keeps, Found, InPlace, accVars
  <2>2. QED
    BY <1>1, <2>1, OtherKeeps DEF Keeps
<1>7. QED
  BY <1>3, <1>4, <1>5, <1>6 DEF SpawnerStep, Read, Receive

\* So does what the accessory and the services do.
LEMMA AccessoryKeeps ==
  ASSUME KeepInv,
         \/ Answers \/ onStatus \/ LinkFails
         \/ \E p \in Ports : Sends(p) \/ sendEof(p) \/ sendClose(p)
  PROVE  KeepInv'
<1>1. UNCHANGED <<keepVars, rx>>
  BY DEF Answers, onStatus, LinkFails, Sends, sendEof, sendClose, Ends,
         ServiceSpawnerOnBytesReceived, Lost, FallsSilent, ServiceSends
<1>2. CASE Answers \/ onStatus
  <2>1. UNCHANGED <<up, silent>> /\ wire # <<>> /\ wire' = Tail(wire)
    BY <1>2 DEF Answers, onStatus, ServiceSpawnerOnBytesReceived
  <2>2. Head(wire) # Ping
    <3>1. Ping.kind = "ping"
      BY DEF Ping, OnWire
    <3>2. QED
      BY <1>2, <3>1, WireAssumption
         DEF Answers, onStatus, ServiceSpawnerOnBytesReceived, Ping
  <2>3. incoming' = incoming \/ \E x : incoming' = Append(incoming, x)
    BY <1>2 DEF Answers, onStatus, ServiceSpawnerOnBytesReceived
  <2>4. QED
    BY <1>1, <2>1, <2>2, <2>3, FoundStays, OtherKeeps DEF Keeps, InPlace
<1>3. CASE \E p \in Ports : Sends(p) \/ sendEof(p) \/ sendClose(p)
  <2>1. UNCHANGED <<wire, silent, up>> /\ \E x : incoming' = Append(incoming, x)
    BY <1>3 DEF Sends, ServiceSends, sendEof, sendClose, Ends, accVars
  <2>2. QED
    BY <1>1, <2>1, FoundStays, OtherKeeps DEF Keeps, InPlace
<1>4. CASE LinkFails
  <2>1. ~InPlace' /\ wire' = <<>> /\ incoming' = incoming
    BY <1>4 DEF LinkFails, Lost, Cut, FallsSilent, InPlace
  <2>2. QED
    BY <1>1, <2>1, EmptyIsSeq, FoundStays, OtherKeeps DEF KeepInv
<1>5. QED
  BY <1>2, <1>3, <1>4

\* The keepalive itself.  A run of the timer before the constructor has got the
\* streams raises the alarm.
LEMMA KeepaliveKeeps ==
  ASSUME KeepInv,
         KeepaliveOnBytesReceived \/ KeepaliveOnDataReady \/ KeepaliveStep
  PROVE  KeepInv'
<1>1. CASE KeepaliveOnBytesReceived
  <2>1. UNCHANGED <<keepVars, silent, up, rx>> /\ incoming' = Append(incoming, Pong)
        /\ wire # <<>> /\ wire' = Tail(wire)
    BY <1>1 DEF KeepaliveOnBytesReceived
  <2>2. IsSeq(wire') /\ IsSeq(incoming') /\ Has(incoming', Pong)
    BY <2>1, AppendHas, TailHas DEF KeepInv
  <2>3. Found'
    BY <2>1, FoundStays
  <2>4. QED
    BY <2>1, <2>2, <2>3 DEF KeepInv, PingUnderWay, keepVars
<1>2. CASE KeepaliveOnDataReady
  <2>1. /\ UNCHANGED <<wire, silent, up, built, pinger, alarm, rx>> /\ keepAliveReceived'
        /\ rx = "read" /\ incoming # <<>> /\ incoming' = Tail(incoming)
    BY <1>2 DEF KeepaliveOnDataReady, accVars
  <2>2. IsSeq(incoming') /\ Found'
    BY <2>1, TailHas DEF KeepInv, Found
  <2>3. QED
    BY <2>1, <2>2 DEF KeepInv
<1>3. CASE Construct \/ Tick
  <2>1. UNCHANGED <<wire, incoming, silent, up, rx>>
    BY <1>3 DEF Construct, Tick, vars, accVars
  <2>2. Found'
    BY <2>1, FoundStays
  <2>3. QED
    BY <1>3, <2>1, <2>2 DEF Construct, Tick, KeepInv, PingUnderWay, InPlace
<1>4. CASE sendKeepalive
  <2>1. UNCHANGED <<incoming, silent, up, rx, built, keepAliveReceived>>
        /\ pinger' \in {"waiting", "cancelled"}
    BY <1>4 DEF sendKeepalive
  <2>2. IsSeq(wire') /\ Found'
    BY <1>4, <2>1, AppendHas, FoundStays DEF sendKeepalive, Sent, KeepInv
  <2>3. up /\ ~silent /\ built => Has(wire', Ping)
    BY <1>4, AppendHas DEF sendKeepalive, Sent, KeepInv
  <2>4. ~built => alarm'
    BY <1>4 DEF sendKeepalive
  <2>5. QED
    BY <2>1, <2>2, <2>3, <2>4 DEF KeepInv, PingUnderWay, InPlace
<1>5. CASE handleMessage
  <2>1. UNCHANGED <<incoming, rx, built>> /\ wire' = <<>> /\ ~up' /\ built
    BY <1>5 DEF handleMessage, Cut
  <2>2. Found' /\ IsSeq(wire')
    BY <2>1, FoundStays, EmptyIsSeq
  <2>3. QED
    BY <2>1, <2>2 DEF KeepInv, InPlace
<1>6. QED
  BY <1>1, <1>2, <1>3, <1>4, <1>5 DEF KeepaliveStep

\* Only the timer raises the alarm.
LEMMA AlarmIsTimers ==
  ASSUME BridgeNext, ~alarm, alarm'
  PROVE  Tick \/ sendKeepalive
<1> SUFFICES ASSUME ~Tick, ~sendKeepalive PROVE FALSE
  OBVIOUS
<1> USE DEF keepVars
<1>1. CASE \E r \in Requests : RequestStep(r) \/ PortStep(r)
  BY <1>1 DEF RequestStep, PortStep, StartClose, StartEof, WriteStatus, Forget
<1>2. CASE BridgeReceiverStep
  BY <1>2 DEF BridgeReceiverStep, SpawnerStep, Read, StatusOnDataReady,
              TestBothClosed, Cleanup, KeepaliveOnDataReady
<1>3. CASE AccessoryStep
  BY <1>3 DEF AccessoryStep, Answers, onStatus, KeepaliveOnBytesReceived
<1>4. CASE \E p \in Ports : Sends(p) \/ sendEof(p) \/ sendClose(p)
  BY <1>4 DEF Sends, sendEof, sendClose, Ends
<1>5. CASE LinkFails
  BY <1>5 DEF LinkFails
<1>6. CASE Construct \/ handleMessage
  BY <1>6 DEF Construct, handleMessage
<1>7. QED
  BY <1>1, <1>2, <1>3, <1>4, <1>5, <1>6 DEF BridgeNext, KeepaliveStep

\* The keepalive gives up an accessory only for a ping that is unanswered when the
\* period ends, whatever else is on the wire between ping and pong; a run of the
\* timer before the constructor has got the streams aside (Keepalive.java).
THEOREM NoFalseAlarmHolds == BridgeSpec => NoFalseAlarm
<1>1. BridgeInit => KeepInv
  <2> SUFFICES ASSUME BridgeInit PROVE KeepInv
    OBVIOUS
  <2>1. wire = <<>> /\ incoming = <<>> /\ keepAliveReceived /\ rx = "read"
    BY DEF BridgeInit, Init
  <2>2. QED
    BY <2>1, EmptyIsSeq DEF KeepInv, Found
<1>2. KeepInv /\ [BridgeNext]_bridgeVars => KeepInv'
  <2>1. KeepInv /\ UNCHANGED bridgeVars => KeepInv'
    BY OtherKeeps, FoundStays DEF Keeps, InPlace, bridgeVars, vars, accVars
  <2>2. QED
    BY <2>1, RequestKeeps, ReceiverKeeps, AccessoryKeeps, KeepaliveKeeps
       DEF BridgeNext, BridgeReceiverStep, AccessoryStep
<1>3. ASSUME KeepInv, BridgeNext, ~alarm, alarm'
      PROVE  Unanswered \/ ~up \/ ~built \/ rx \in {"astray", "adrift"}
  <2>1. Tick \/ sendKeepalive
    BY <1>3, AlarmIsTimers
  <2>2. CASE Tick
    BY <1>3, <2>2 DEF Tick, KeepInv, PingUnderWay, Unanswered, InPlace
  <2>3. CASE sendKeepalive
    BY <1>3, <2>3 DEF sendKeepalive
  <2>4. QED
    BY <2>1, <2>2, <2>3
<1>4. KeepInv /\ [BridgeNext]_bridgeVars =>
        [~alarm /\ alarm' =>
           Unanswered \/ ~up \/ ~built \/ rx \in {"astray", "adrift"}]_bridgeVars
  BY <1>3
<1>5. QED
  BY <1>1, <1>2, <1>4, PTL DEF BridgeSpec, NoFalseAlarm

-----------------------------------------------------------------------------
(* Frames and messages.                                                    *)

Eof(p)     == Frame("eof", p, TRUE)
CloseOf(p) == Frame("close", p, TRUE)
Data(p)    == Frame("data", p, TRUE)
Opened(p)  == Frame("answer", p, TRUE)

Frames == [kind : {"answer"}, port : Ports, success : BOOLEAN]
            \cup [kind : {"data", "eof", "close"}, port : Ports, success : {TRUE}]
            \cup {Pong}
Messages == Requests \cup [kind : {"close", "eof"}, port : Ports] \cup {Ping}

\* m is in the sequence before any n; m is there behind some n; m is there with no n
\* behind it.
First(seq, m, n) ==
  \E i \in 1..Len(seq) : seq[i] = m /\ \A j \in 1..(i - 1) : seq[j] # n
Behind(seq, m, n) ==
  \E i, j \in 1..Len(seq) : j < i /\ seq[j] = n /\ seq[i] = m
Loose(seq, m, n) ==
  \E i \in 1..Len(seq) : seq[i] = m /\ \A j \in (i + 1)..Len(seq) : seq[j] # n

\* What the frames are, and that they differ.
LEMMA FrameFacts ==
  /\ Pong \in Frames /\ Pong.kind = "pong"
  /\ \A p \in Ports : /\ {Eof(p), CloseOf(p), Data(p), Opened(p)} \subseteq Frames
                      /\ \A ok \in BOOLEAN : Frame("answer", p, ok) \in Frames
  /\ \A p : /\ Eof(p).kind = "eof" /\ CloseOf(p).kind = "close"
            /\ Data(p).kind = "data" /\ Opened(p).kind = "answer"
            /\ Opened(p).success
            /\ Eof(p).port = p /\ CloseOf(p).port = p /\ Data(p).port = p /\ Opened(p).port = p
  /\ \A f \in Frames : /\ f.kind = "eof" => f.port \in Ports /\ f = Eof(f.port)
                       /\ f.kind = "close" => f.port \in Ports /\ f = CloseOf(f.port)
                       /\ f.kind = "data" => f.port \in Ports /\ f = Data(f.port)
                       /\ f.kind = "answer" => f.port \in Ports /\ f.success \in BOOLEAN
                       /\ f.kind = "answer" /\ f.success => f = Opened(f.port)
<1> USE DEF Frames, Frame, Pong, Eof, CloseOf, Data, Opened
<1>1. Pong \in Frames /\ Pong.kind = "pong"
  OBVIOUS
<1>2. \A p \in Ports : /\ {Eof(p), CloseOf(p), Data(p), Opened(p)} \subseteq Frames
                      /\ \A ok \in BOOLEAN : Frame("answer", p, ok) \in Frames
  OBVIOUS
<1>3. \A p : /\ Eof(p).kind = "eof" /\ CloseOf(p).kind = "close"
             /\ Data(p).kind = "data" /\ Opened(p).kind = "answer"
             /\ Opened(p).success
             /\ Eof(p).port = p /\ CloseOf(p).port = p /\ Data(p).port = p /\ Opened(p).port = p
  OBVIOUS
<1>4. ASSUME NEW f \in [kind : {"answer"}, port : Ports, success : BOOLEAN]
      PROVE  /\ f.kind = "answer" /\ f.port \in Ports /\ f.success \in BOOLEAN
             /\ f.success => f = Opened(f.port)
  OBVIOUS
<1>5. ASSUME NEW f \in [kind : {"data", "eof", "close"}, port : Ports, success : {TRUE}]
      PROVE  /\ f.kind \in {"data", "eof", "close"} /\ f.port \in Ports
             /\ f.kind = "eof" => f = Eof(f.port)
             /\ f.kind = "close" => f = CloseOf(f.port)
             /\ f.kind = "data" => f = Data(f.port)
  OBVIOUS
<1>6. \A f \in Frames : /\ f.kind = "eof" => f.port \in Ports /\ f = Eof(f.port)
                        /\ f.kind = "close" => f.port \in Ports /\ f = CloseOf(f.port)
                        /\ f.kind = "data" => f.port \in Ports /\ f = Data(f.port)
                        /\ f.kind = "answer" => f.port \in Ports /\ f.success \in BOOLEAN
                        /\ f.kind = "answer" /\ f.success => f = Opened(f.port)
  <2> SUFFICES ASSUME NEW f \in Frames
               PROVE  /\ f.kind = "eof" => f.port \in Ports /\ f = Eof(f.port)
                      /\ f.kind = "close" => f.port \in Ports /\ f = CloseOf(f.port)
                      /\ f.kind = "data" => f.port \in Ports /\ f = Data(f.port)
                      /\ f.kind = "answer" => f.port \in Ports /\ f.success \in BOOLEAN
                      /\ f.kind = "answer" /\ f.success => f = Opened(f.port)
    OBVIOUS
  <2>1. CASE f \in [kind : {"answer"}, port : Ports, success : BOOLEAN]
    BY <1>4, <2>1
  <2>2. CASE f \in [kind : {"data", "eof", "close"}, port : Ports, success : {TRUE}]
    BY <1>5, <2>2
  <2>3. CASE f = Pong
    BY <1>1, <2>3
  <2>4. QED
    BY <2>1, <2>2, <2>3
<1>7. QED
  BY <1>1, <1>2, <1>3, <1>6

\* What the messages to the accessory are.
LEMMA MessageFacts ==
  /\ Ping \in Messages /\ Ping.kind = "ping" /\ Ping \notin Requests
  /\ \A p \in Ports, k \in {"close", "eof"} :
       OnWire(k, p) \in Messages /\ OnWire(k, p) \notin Requests
  /\ \A k, p : OnWire(k, p).kind = k /\ OnWire(k, p).port = p
  /\ Requests \subseteq Messages
  /\ \A m \in Messages : \/ m \in Requests \/ m = Ping
                         \/ /\ m.kind \in {"close", "eof"} /\ m.port \in Ports
                            /\ m = OnWire(m.kind, m.port)
BY WireAssumption DEF Messages, OnWire, Ping

\* What a message appended changes.
LEMMA AppendFacts ==
  ASSUME NEW S, NEW seq \in Seq(S), NEW x \in S
  PROVE  /\ Append(seq, x) \in Seq(S)
         /\ \A m : Has(Append(seq, x), m) <=> Has(seq, m) \/ x = m
         /\ \A m, n : First(Append(seq, x), m, n) <=> First(seq, m, n) \/ (x = m /\ ~Has(seq, n))
         /\ \A m, n : Behind(Append(seq, x), m, n) <=> Behind(seq, m, n) \/ (x = m /\ Has(seq, n))
         /\ \A m, n : Loose(Append(seq, x), m, n) => x = m \/ (x # n /\ Loose(seq, m, n))
<1> DEFINE new == Append(seq, x)
<1>1. /\ new \in Seq(S) /\ Len(seq) \in Nat /\ Len(new) = Len(seq) + 1
      /\ new[Len(seq) + 1] = x /\ \A i \in 1..Len(seq) : new[i] = seq[i]
  OBVIOUS
<1>2. \A i : i \in 1..Len(new) <=> i \in 1..Len(seq) \/ i = Len(seq) + 1
  BY <1>1
<1> HIDE DEF new
<1>3. \A m : Has(new, m) <=> Has(seq, m) \/ x = m
  BY <1>1, <1>2 DEF Has
<1>4. ASSUME NEW m, NEW n PROVE First(new, m, n) <=> First(seq, m, n) \/ (x = m /\ ~Has(seq, n))
  <2>1. \A i \in 1..Len(seq) : (\A j \in 1..(i - 1) : new[j] # n) <=> (\A j \in 1..(i - 1) : seq[j] # n)
    BY <1>1
  <2>2. (\A j \in 1..((Len(seq) + 1) - 1) : new[j] # n) <=> ~Has(seq, n)
    BY <1>1 DEF Has
  <2>3. QED
    BY <1>1, <1>2, <2>1, <2>2 DEF First
<1>5. ASSUME NEW m, NEW n PROVE Behind(new, m, n) <=> Behind(seq, m, n) \/ (x = m /\ Has(seq, n))
  <2>1. ASSUME Behind(new, m, n) PROVE Behind(seq, m, n) \/ (x = m /\ Has(seq, n))
    <3>1. PICK i \in 1..Len(new), j \in 1..Len(new) : j < i /\ new[j] = n /\ new[i] = m
      BY <2>1 DEF Behind
    <3>2. j \in 1..Len(seq) /\ seq[j] = n
      BY <1>1, <1>2, <3>1
    <3>3. QED
      BY <1>1, <1>2, <3>1, <3>2 DEF Behind, Has
  <2>2. Behind(seq, m, n) => Behind(new, m, n)
    BY <1>1, <1>2 DEF Behind
  <2>3. x = m /\ Has(seq, n) => Behind(new, m, n)
    BY <1>1, <1>2 DEF Behind, Has
  <2>4. QED
    BY <2>1, <2>2, <2>3
<1>6. ASSUME NEW m, NEW n, Loose(new, m, n), x # m PROVE x # n /\ Loose(seq, m, n)
  <2>1. PICK i \in 1..Len(new) : new[i] = m /\ \A j \in (i + 1)..Len(new) : new[j] # n
    BY <1>6 DEF Loose
  <2>2. i \in 1..Len(seq)
    BY <1>1, <1>2, <1>6, <2>1
  <2>3. Len(new) \in (i + 1)..Len(new) /\ \A j \in (i + 1)..Len(seq) : j \in (i + 1)..Len(new) /\ j \in 1..Len(seq)
    BY <1>1, <2>2
  <2>4. QED
    BY <1>1, <2>1, <2>2, <2>3 DEF Loose
<1>7. QED
  BY <1>1, <1>3, <1>4, <1>5, <1>6 DEF new

\* What the sequence without its head had to do with the whole.
LEMMA TailFacts ==
  ASSUME NEW S, NEW seq \in Seq(S), seq # << >>
  PROVE  /\ Tail(seq) \in Seq(S) /\ Head(seq) \in S
         /\ \A m : Has(seq, m) <=> Head(seq) = m \/ Has(Tail(seq), m)
         /\ \A m, n : First(seq, m, n) <=>
                        Head(seq) = m \/ (Head(seq) # n /\ First(Tail(seq), m, n))
         /\ \A m, n : Behind(seq, m, n) <=>
                        Behind(Tail(seq), m, n) \/ (Head(seq) = n /\ Has(Tail(seq), m))
         /\ \A m, n : Loose(Tail(seq), m, n) => Loose(seq, m, n)
<1> DEFINE new == Tail(seq)
<1>1. /\ new \in Seq(S) /\ Len(new) \in Nat /\ Len(seq) = Len(new) + 1
      /\ Head(seq) = seq[1] /\ Head(seq) \in S
      /\ \A i \in 1..Len(new) : new[i] = seq[i + 1]
  OBVIOUS
<1>2. /\ 1 \in 1..Len(seq)
      /\ \A i \in 1..Len(seq) : i = 1 \/ (i - 1 \in 1..Len(new) /\ seq[i] = new[i - 1])
      /\ \A i \in 1..Len(new) : i + 1 \in 1..Len(seq)
  BY <1>1
<1> HIDE DEF new
<1>3. \A m : Has(seq, m) <=> Head(seq) = m \/ Has(new, m)
  BY <1>1, <1>2 DEF Has
<1>4. ASSUME NEW m, NEW n
      PROVE First(seq, m, n) <=> Head(seq) = m \/ (Head(seq) # n /\ First(new, m, n))
  <2>1. ASSUME First(seq, m, n), Head(seq) # m PROVE Head(seq) # n /\ First(new, m, n)
    <3>1. PICK i \in 1..Len(seq) : seq[i] = m /\ \A j \in 1..(i - 1) : seq[j] # n
      BY <2>1 DEF First
    <3>2. i - 1 \in 1..Len(new) /\ new[i - 1] = m /\ 1 \in 1..(i - 1)
      BY <1>1, <1>2, <2>1, <3>1
    <3>3. \A j \in 1..((i - 1) - 1) : j + 1 \in 1..(i - 1) /\ j \in 1..Len(new)
      BY <1>1, <3>2
    <3>4. QED
      BY <1>1, <3>1, <3>2, <3>3 DEF First
  <2>2. Head(seq) = m => First(seq, m, n)
    <3>1. \A j \in 1..(1 - 1) : FALSE
      OBVIOUS
    <3>2. QED
      BY <1>1, <1>2, <3>1 DEF First
  <2>3. ASSUME Head(seq) # n, First(new, m, n) PROVE First(seq, m, n)
    <3>1. PICK i \in 1..Len(new) : new[i] = m /\ \A j \in 1..(i - 1) : new[j] # n
      BY <2>3 DEF First
    <3>2. ASSUME NEW j \in 1..((i + 1) - 1) PROVE seq[j] # n
      <4>1. CASE j = 1
        BY <1>1, <2>3, <4>1
      <4>2. CASE j # 1
        <5>1. j - 1 \in 1..(i - 1) /\ j \in 1..Len(seq)
          BY <1>1, <4>2
        <5>2. QED
          BY <1>2, <3>1, <4>2, <5>1
      <4>3. QED
        BY <4>1, <4>2
    <3>3. QED
      BY <1>1, <1>2, <3>1, <3>2 DEF First
  <2>4. QED
    BY <2>1, <2>2, <2>3
<1>5. ASSUME NEW m, NEW n
      PROVE Behind(seq, m, n) <=> Behind(new, m, n) \/ (Head(seq) = n /\ Has(new, m))
  <2>1. ASSUME Behind(seq, m, n) PROVE Behind(new, m, n) \/ (Head(seq) = n /\ Has(new, m))
    <3>1. PICK i \in 1..Len(seq), j \in 1..Len(seq) : j < i /\ seq[j] = n /\ seq[i] = m
      BY <2>1 DEF Behind
    <3>2. i - 1 \in 1..Len(new) /\ new[i - 1] = m
      BY <1>1, <1>2, <3>1
    <3>3. CASE j = 1
      BY <1>1, <3>1, <3>2, <3>3 DEF Has
    <3>4. CASE j # 1
      <4>1. j - 1 \in 1..Len(new) /\ new[j - 1] = n /\ j - 1 < i - 1
        BY <1>1, <1>2, <3>1, <3>4
      <4>2. QED
        BY <3>2, <4>1 DEF Behind
    <3>5. QED
      BY <3>3, <3>4
  <2>2. ASSUME Behind(new, m, n) PROVE Behind(seq, m, n)
    <3>1. PICK i \in 1..Len(new), j \in 1..Len(new) : j < i /\ new[j] = n /\ new[i] = m
      BY <2>2 DEF Behind
    <3>2. i + 1 \in 1..Len(seq) /\ j + 1 \in 1..Len(seq) /\ j + 1 < i + 1
      BY <1>1, <3>1
    <3>3. QED
      BY <1>1, <3>1, <3>2 DEF Behind
  <2>3. ASSUME Head(seq) = n, Has(new, m) PROVE Behind(seq, m, n)
    <3>1. PICK i \in 1..Len(new) : new[i] = m
      BY <2>3 DEF Has
    <3>2. i + 1 \in 1..Len(seq) /\ 1 < i + 1 /\ seq[i + 1] = m
      BY <1>1, <3>1
    <3>3. QED
      BY <1>1, <1>2, <2>3, <3>2 DEF Behind
  <2>4. QED
    BY <2>1, <2>2, <2>3
<1>6. ASSUME NEW m, NEW n, Loose(new, m, n) PROVE Loose(seq, m, n)
  <2>1. PICK i \in 1..Len(new) : new[i] = m /\ \A j \in (i + 1)..Len(new) : new[j] # n
    BY <1>6 DEF Loose
  <2>2. ASSUME NEW j \in ((i + 1) + 1)..Len(seq) PROVE seq[j] # n
    <3>1. j - 1 \in (i + 1)..Len(new) /\ j - 1 \in 1..Len(new) /\ (j - 1) + 1 = j
      BY <1>1
    <3>2. QED
      BY <1>1, <2>1, <3>1
  <2>3. QED
    BY <1>1, <1>2, <2>1, <2>2 DEF Loose
<1>7. QED
  BY <1>1, <1>3, <1>4, <1>5, <1>6 DEF new

-----------------------------------------------------------------------------
(* The invariants.                                                         *)

PortTypes ==
  /\ DOMAIN answer = Requests
  /\ portOf \in [Requests -> Ports \cup {None}]
  /\ wire \in Seq(Messages) /\ incoming \in Seq(Frames)
  /\ served \in [Ports -> Requests \cup {None}]
  /\ active \in [Ports -> Requests \cup {None}]
  /\ halves \in [Ports -> SUBSET Both]
  /\ inputOpen \in [Requests -> BOOLEAN] /\ outputOpen \in [Requests -> BOOLEAN]
  /\ at \in [Requests -> {"idle", "close", "eof", "forget"}]

\* Both halves of a service are closed on Android.
Dead(r) == ~inputOpen[r] /\ ~outputOpen[r]

\* One call at a time: nobody closes a port while a request is under way, and who
\* closes one is the only service that is still alive on it.
OneRequest ==
  \A r, s \in Requests : UnderWay(r) => (UnderWay(s) => r = s) /\ at[s] = "idle"
OneCloses ==
  \A r \in Requests : at[r] # "idle" =>
    /\ pc[r] = "open" /\ served[portOf[r]] \in {r, None}
    /\ \A s \in Requests \ {r} : at[s] = "idle" /\ (portOf[s] = portOf[r] => Dead(s))
    /\ at[r] = "close" => ~inputOpen[r]
    /\ at[r] = "eof" => ~outputOpen[r]
ThreadsInv ==
  \A r \in Requests :
    /\ portOf[r] = None <=> pc[r] # "open"
    /\ pc[r] # "open" => inputOpen[r] /\ outputOpen[r]
    /\ pc[r] = "flip" => buffer = [of |-> r, pos |-> 1, lim |-> 2]
    /\ pc[r] = "write" => buffer = [of |-> r, pos |-> 0, lim |-> 1]
CallInv == OneRequest /\ OneCloses /\ ThreadsInv

\* What an answer tells the thread that asked: a port of its own with both halves
\* open, or that it has none.
Serving(r) == \E p \in Ports : served[p] = r
Given(r, a) ==
  IF a.success THEN a.port \in Ports /\ served[a.port] = r /\ halves[a.port] = Both
               ELSE ~Serving(r)

Answer(a) == a \in Frames /\ a.kind = "answer"
NoAnswer == \A a \in Frames : Answer(a) => ~Has(incoming, a)

\* A request is in one place at a time: on its way to the accessory, ...
AskedInv ==
  \A r \in Requests : Has(wire, r) =>
    /\ pc[r] = "wait" /\ ~Serving(r) /\ NoAnswer /\ answers = << >>
    /\ \A m \in Messages : Behind(wire, m, r) => m = Ping
\* ... answered with the answer on its way, ...
AnsweredInv ==
  \A a \in Frames : Answer(a) /\ Has(incoming, a) =>
    /\ answers = << >>
    /\ \A b \in Frames : Answer(b) => ~Behind(incoming, b, a)
    /\ \E r \in Requests : pc[r] = "wait" /\ Given(r, a)
\* ... with the answer in the queue, or in the hands of the thread.
TakenInv ==
  /\ answers # << >> =>
       \E r \in Requests : /\ pc[r] \in {"wait", "take"}
                           /\ Answer(answers[1]) /\ Given(r, answers[1])
  /\ \A r \in Requests : pc[r] \in {"register", "assign"} =>
       Answer(answer[r]) /\ answer[r].success /\ Given(r, answer[r])
RequestInv == AskedInv /\ AnsweredInv /\ TakenInv

\* The accessory's table: a service has one port, the one Android knows it by; a
\* status on its way concerns the service that is there, or none.
TableInv ==
  \A p \in Ports :
    /\ served[p] = None => halves[p] = Both
    /\ served[p] # None =>
         /\ pc[served[p]] \in {"wait", "take", "register", "assign", "open"}
         /\ pc[served[p]] = "open" => portOf[served[p]] = p
         /\ \A q \in Ports : served[q] = served[p] => q = p
StatusInv ==
  \A p \in Ports, k \in {"close", "eof"} :
    Has(wire, OnWire(k, p)) /\ served[p] # None =>
      /\ pc[served[p]] = "open"
      /\ k = "close" => ~inputOpen[served[p]]
      /\ k = "eof" => ~outputOpen[served[p]]
ServedInv == TableInv /\ StatusInv

\* The receiver works on a status of the port.
Ending(p) == rx \in {"flagged", "cleanup"} /\ handling = p

\* Android's table: who is in it is about to open its port, or has its input open, or
\* is closing it with no data under way that it could leave unread, or is about to
\* leave the table for a status.
ActiveInv ==
  /\ rx # "astray"
  /\ \A r \in Requests : pc[r] = "assign" => active[answer[r].port] = r
  /\ \A p \in Ports : active[p] # None =>
       \/ pc[active[p]] = "assign" /\ answer[active[p]].port = p
       \/ /\ pc[active[p]] = "open" /\ portOf[active[p]] = p
          /\ \/ inputOpen[active[p]]
             \/ at[active[p]] \in {"close", "forget"} /\ ~Has(incoming, Data(p))
             \/ Ending(p)

\* A half that is open on Android belongs to the service the accessory has there, and
\* is open there, or what ends it is on its way, before the port is opened again.
HalvesInv ==
  \A r \in Requests : pc[r] = "open" =>
    LET p == portOf[r]
    IN /\ inputOpen[r] => active[p] = r
       /\ inputOpen[r] /\ (served[p] # r \/ "output" \notin halves[p]) =>
            First(incoming, Eof(p), Opened(p))
       /\ outputOpen[r] /\ (served[p] # r \/ "input" \notin halves[p]) =>
            First(incoming, CloseOf(p), Opened(p))
       /\ served[p] \notin {r, None} /\ ~Has(incoming, Opened(p)) => Dead(r)
       /\ \A s \in Requests \ {r} : pc[s] = "open" /\ portOf[s] = p => Dead(s) \/ Dead(r)

\* A CLOSE finds its service in Android's table; an EOF that is not of the service
\* that is there comes before the port is opened again.
ClosesInv ==
  \A p \in Ports : Has(incoming, CloseOf(p)) =>
    /\ \E r \in Requests : pc[r] = "open" /\ portOf[r] = p /\ inputOpen[r]
    /\ ~Behind(incoming, CloseOf(p), Eof(p)) /\ ~Behind(incoming, CloseOf(p), Opened(p))
EofsInv ==
  \A p \in Ports : served[p] # None /\ "output" \in halves[p] =>
    ~Loose(incoming, Eof(p), Opened(p))
EndInv == HalvesInv /\ ClosesInv /\ EofsInv

\* What the receiver holds between two steps: the port of a status, which nobody is
\* about to open and, when it is to leave the table, nobody reads from any more; ...
StageInv == rx \in {"flagged", "cleanup"} =>
  /\ handling \in Ports
  /\ \A r \in Requests : pc[r] \in {"register", "assign"} => answer[r].port # handling
  /\ rx = "cleanup" =>
       \A r \in Requests : pc[r] = "open" /\ portOf[r] = handling => ~inputOpen[r]
\* ... or the service that the data at the head of the stream is for, and that takes it.
TargetInv == rx = "found" =>
  /\ incoming # << >> /\ Head(incoming).kind = "data"
  /\ target \in Requests /\ inputOpen[target]
  /\ \/ pc[target] = "assign" /\ answer[target].port = Head(incoming).port
     \/ pc[target] = "open" /\ portOf[target] = Head(incoming).port
ReceiverInv == StageInv /\ TargetInv

PortsInv == /\ PortTypes /\ CallInv /\ RequestInv /\ ServedInv /\ ActiveInv /\ EndInv
            /\ ReceiverInv
BridgeInv == /\ HandInv
             /\ up /\ rx # "adrift" => PortsInv
             /\ rx = "adrift" => ~SkipWorks

-----------------------------------------------------------------------------
(* What a step leaves alone.                                               *)

\* Of the threads, the ports depend only on who has one and who is about to.
SameOpen == \A s \in Requests : pc'[s] = "open" <=> pc[s] = "open"
SameAssign ==
  \A s \in Requests : /\ pc'[s] = "assign" <=> pc[s] = "assign"
                      /\ pc[s] = "assign" => answer'[s] = answer[s]

\* Who closes a port goes on closing it while threads move that have none.
LEMMA CloseFrame ==
  ASSUME OneCloses, SameOpen, UNCHANGED <<at, served, portOf, inputOpen, outputOpen>>
  PROVE  OneCloses'
<1> SUFFICES ASSUME NEW r \in Requests, at[r] # "idle"
             PROVE  /\ pc'[r] = "open" /\ served[portOf[r]] \in {r, None}
                    /\ \A s \in Requests \ {r} : at[s] = "idle" /\ (portOf[s] = portOf[r] => Dead(s)')
                    /\ at[r] = "close" => ~inputOpen[r]
                    /\ at[r] = "eof" => ~outputOpen[r]
  BY DEF OneCloses
<1>1. \A s \in Requests : Dead(s)' <=> Dead(s)
  BY DEF Dead
<1>2. QED
  BY <1>1 DEF OneCloses, SameOpen

\* Android's table stays as it is while no thread enters or leaves its constructor.
LEMMA ActiveFrame ==
  ASSUME PortTypes, ActiveInv, SameOpen, SameAssign,
         UNCHANGED <<rx, handling, active, portOf, inputOpen, at, incoming>>
  PROVE  ActiveInv'
<1>1. \A p \in Ports : active[p] # None => active[p] \in Requests
  BY DEF PortTypes
<1>2. rx' # "astray"
  BY DEF ActiveInv
<1>3. \A r \in Requests : pc'[r] = "assign" => active'[answer'[r].port] = r
  BY DEF ActiveInv, SameAssign
<1>4. \A p \in Ports : active'[p] # None =>
        \/ pc'[active'[p]] = "assign" /\ answer'[active'[p]].port = p
        \/ /\ pc'[active'[p]] = "open" /\ portOf'[active'[p]] = p
           /\ \/ inputOpen'[active'[p]]
              \/ at'[active'[p]] \in {"close", "forget"} /\ ~Has(incoming', Data(p))
              \/ Ending(p)'
  BY <1>1 DEF ActiveInv, SameOpen, SameAssign, Ending
<1>5. QED
  BY <1>2, <1>3, <1>4 DEF ActiveInv

Holds == {"wait", "take", "register", "assign", "open"}

\* The accessory's table stays as it is while the services it names stay alive.
LEMMA ServedFrame ==
  ASSUME PortTypes, ServedInv, SameOpen,
         UNCHANGED <<served, portOf, halves, inputOpen, outputOpen>>,
         \A k \in {"close", "eof"}, p \in Ports : Has(wire', OnWire(k, p)) => Has(wire, OnWire(k, p)),
         \A s \in Requests : pc[s] \in Holds /\ Serving(s) => pc'[s] \in Holds
  PROVE  ServedInv'
<1>1. \A p \in Ports : served[p] # None => served[p] \in Requests /\ Serving(served[p])
  BY DEF PortTypes, Serving
<1>2. TableInv'
  BY <1>1 DEF ServedInv, TableInv, SameOpen, Holds
<1>3. StatusInv'
  BY <1>1 DEF ServedInv, StatusInv, SameOpen
<1>4. QED
  BY <1>2, <1>3 DEF ServedInv

\* The halves and what is said of them under way stay as they are.
LEMMA EndFrame ==
  ASSUME EndInv, SameOpen,
         UNCHANGED <<portOf, inputOpen, outputOpen, active, served, halves, incoming>>
  PROVE  EndInv'
<1>1. HalvesInv'
  <2>1. \A s \in Requests : Dead(s)' <=> Dead(s)
    BY DEF Dead
  <2>2. ASSUME NEW r \in Requests, pc'[r] = "open", NEW p, p = portOf[r]
        PROVE  /\ inputOpen[r] => active[p] = r
               /\ inputOpen[r] /\ (served[p] # r \/ "output" \notin halves[p]) =>
                    First(incoming, Eof(p), Opened(p))
               /\ outputOpen[r] /\ (served[p] # r \/ "input" \notin halves[p]) =>
                    First(incoming, CloseOf(p), Opened(p))
               /\ served[p] \notin {r, None} /\ ~Has(incoming, Opened(p)) => Dead(r)
               /\ \A s \in Requests \ {r} : pc'[s] = "open" /\ portOf[s] = p => Dead(s) \/ Dead(r)
    BY <2>2 DEF EndInv, HalvesInv, SameOpen
  <2>3. QED
    BY <2>1, <2>2 DEF HalvesInv
<1>2. ClosesInv'
  BY DEF EndInv, ClosesInv, SameOpen
<1>3. EofsInv'
  BY DEF EndInv, EofsInv
<1>4. QED
  BY <1>1, <1>2, <1>3 DEF EndInv

\* What the receiver holds is not touched by a thread that neither takes, has nor
\* opens a port, nor by frames that are added to those under way.
LEMMA ReceiverFrame ==
  ASSUME PortTypes, ReceiverInv, UNCHANGED <<rx, target, handling, portOf, inputOpen>>,
         UNCHANGED incoming \/ \E x \in Frames : incoming' = Append(incoming, x),
         \A s \in Requests :
           \/ pc'[s] = pc[s] /\ answer'[s] = answer[s]
           \/ {pc[s], pc'[s]} \cap {"register", "assign", "open"} = {}
  PROVE  ReceiverInv'
<1>1. StageInv'
  BY DEF ReceiverInv, StageInv
<1>2. incoming # << >> => incoming' # << >> /\ Head(incoming') = Head(incoming)
  BY DEF PortTypes
<1>3. TargetInv'
  BY <1>2 DEF ReceiverInv, TargetInv
<1>4. QED
  BY <1>1, <1>3 DEF ReceiverInv

-----------------------------------------------------------------------------
(* The threads of the application.                                         *)

\* clear() and the put()s.
LEMMA PutKeeps ==
  ASSUME HandInv, PortsInv, ~Overlap, NEW r \in Requests, RequestStep(r), Put(r)
  PROVE  PortsInv'
<1>1. /\ pc[r] = "idle" /\ pc'[r] = "flip" /\ \A s \in Requests \ {r} : pc'[s] = pc[s]
      /\ \A s \in Requests : ~UnderWay(s) /\ (s # r => at[s] = "idle")
      /\ buffer' = [of |-> r, pos |-> 1, lim |-> 2]
  BY DEF Put, HandInv, Alone, RequestStep
<1>2. UNCHANGED <<answer, portOf, wire, served, incoming, rx, answers, active, up,
                  inputOpen, outputOpen, at, halves, target, handling>>
  BY DEF Put, RequestStep, accVars, spawnVars, portVars
<1>3. PortTypes'
  BY <1>2 DEF PortsInv, PortTypes
<1>4. CallInv'
  <2>1. at[r] = "idle"
    BY <1>1 DEF PortsInv, CallInv, OneCloses
  <2>2. OneRequest'
    BY <1>1, <1>2, <2>1 DEF OneRequest, UnderWay
  <2>3. OneCloses'
    BY <1>1, <1>2, <2>1 DEF OneCloses
  <2>4. ThreadsInv'
    BY <1>1, <1>2 DEF PortsInv, CallInv, ThreadsInv, UnderWay
  <2>5. QED
    BY <2>2, <2>3, <2>4 DEF CallInv
<1>5. RequestInv'
  BY <1>1, <1>2 DEF PortsInv, RequestInv, AskedInv, AnsweredInv, TakenInv, Serving, Given, NoAnswer
<1>6. ServedInv' /\ ActiveInv'
  <2>1. ServedInv'
    BY <1>1, <1>2, ServedFrame DEF PortsInv, SameOpen, Holds
  <2>2. QED
    BY <2>1, <1>1, <1>2, ActiveFrame DEF PortsInv, SameOpen, SameAssign
<1>7. EndInv'
  BY <1>1, <1>2, EndFrame DEF PortsInv, SameOpen
<1>8. ReceiverInv'
  BY <1>1, <1>2, ReceiverFrame DEF PortsInv
<1>9. QED
  BY <1>3, <1>4, <1>5, <1>6, <1>7, <1>8 DEF PortsInv

\* flip().
LEMMA FlipKeeps ==
  ASSUME HandInv, PortsInv, NEW r \in Requests, RequestStep(r), Flip(r)
  PROVE  PortsInv'
<1>1. /\ pc[r] = "flip" /\ pc'[r] = "write" /\ \A s \in Requests \ {r} : pc'[s] = pc[s]
      /\ buffer' = [buffer EXCEPT !.lim = buffer.pos, !.pos = 0]
  BY DEF Flip, HandInv
<1>2. UNCHANGED <<answer, portOf, wire, served, incoming, rx, answers, active, up,
                  inputOpen, outputOpen, at, halves, target, handling>>
  BY DEF Flip, RequestStep, accVars, spawnVars, portVars
<1>3. PortTypes'
  BY <1>2 DEF PortsInv, PortTypes
<1>4. CallInv'
  <2>1. OneRequest'
    BY <1>1, <1>2 DEF PortsInv, CallInv, OneRequest, UnderWay
  <2>2. OneCloses'
    BY <1>1, <1>2, CloseFrame DEF PortsInv, CallInv, SameOpen
  <2>3. ThreadsInv'
    <3>1. buffer' = [of |-> r, pos |-> 0, lim |-> 1]
      <4>1. buffer = [of |-> r, pos |-> 1, lim |-> 2]
        BY <1>1 DEF PortsInv, CallInv, ThreadsInv
      <4>2. QED
        BY <1>1, <4>1
    <3>2. \A s \in Requests \ {r} : pc[s] \notin {"flip", "write"}
      BY <1>1 DEF PortsInv, CallInv, OneRequest, UnderWay
    <3>3. QED
      <4>1. \A s \in Requests : portOf[s] = None <=> pc[s] # "open"
        BY DEF PortsInv, CallInv, ThreadsInv
      <4>2. \A s \in Requests : pc[s] # "open" => inputOpen[s] /\ outputOpen[s]
        BY DEF PortsInv, CallInv, ThreadsInv
      <4>3. \A s \in Requests : pc'[s] # "flip" /\ (pc'[s] = "write" => s = r)
        BY <1>1, <3>2
      <4>4. /\ \A s \in Requests : pc'[s] = "open" <=> pc[s] = "open"
            /\ UNCHANGED <<portOf, inputOpen, outputOpen>>
        BY <1>1, <1>2
      <4>5. QED
        BY <1>1, <3>1, <4>1, <4>2, <4>3, <4>4 DEF ThreadsInv
  <2>4. QED
    BY <2>1, <2>2, <2>3 DEF CallInv
<1>5. RequestInv'
  BY <1>1, <1>2 DEF PortsInv, RequestInv, AskedInv, AnsweredInv, TakenInv, Serving, Given, NoAnswer
<1>6. ServedInv' /\ ActiveInv'
  <2>1. ServedInv'
    BY <1>1, <1>2, ServedFrame DEF PortsInv, SameOpen, Holds
  <2>2. QED
    BY <2>1, <1>1, <1>2, ActiveFrame DEF PortsInv, SameOpen, SameAssign
<1>7. EndInv'
  BY <1>1, <1>2, EndFrame DEF PortsInv, SameOpen
<1>8. ReceiverInv'
  BY <1>1, <1>2, ReceiverFrame DEF PortsInv
<1>9. QED
  BY <1>3, <1>4, <1>5, <1>6, <1>7, <1>8 DEF PortsInv

\* The write of the request: no other is under way, nor any answer.
LEMMA WriteRequestKeeps ==
  ASSUME HandInv, PortsInv, up, NEW r \in Requests, RequestStep(r), WriteRequest(r)
  PROVE  PortsInv'
<1>1. /\ pc[r] = "write" /\ pc'[r] = "wait" /\ \A s \in Requests \ {r} : pc'[s] = pc[s]
      /\ wire' = wire \/ wire' = Append(wire, r)
  <2>1. buffer.of = r /\ buffer.pos = 0 /\ buffer.lim = 1
    BY DEF WriteRequest, PortsInv, CallInv, ThreadsInv
  <2>2. QED
    BY <2>1 DEF WriteRequest, HandInv, Sent
<1>2. UNCHANGED <<answer, portOf, served, incoming, rx, answers, active, up,
                  inputOpen, outputOpen, at, halves, target, handling>>
  BY DEF WriteRequest, RequestStep, spawnVars, portVars
<1>3. /\ wire' \in Seq(Messages)
      /\ \A m : Has(wire', m) => Has(wire, m) \/ m = r
      /\ \A m, n : Behind(wire', m, n) => Behind(wire, m, n) \/ (m = r /\ Has(wire, n))
  <2>1. wire \in Seq(Messages) /\ r \in Messages
    BY MessageFacts DEF PortsInv, PortTypes
  <2>2. QED
    <3>1. /\ Append(wire, r) \in Seq(Messages)
          /\ \A m : Has(Append(wire, r), m) <=> Has(wire, m) \/ r = m
          /\ \A m, n : Behind(Append(wire, r), m, n) <=> Behind(wire, m, n) \/ (r = m /\ Has(wire, n))
      BY <2>1, AppendFacts
    <3>2. CASE wire' = wire
      BY <2>1, <3>2
    <3>3. CASE wire' = Append(wire, r)
      <4>1. PICK w : w = Append(wire, r)
        OBVIOUS
      <4>2. QED
        BY <3>1, <3>3, <4>1
    <3>4. QED
      BY <1>1, <3>2, <3>3
<1>4. PortTypes'
  BY <1>2, <1>3 DEF PortsInv, PortTypes
<1>5. \A s \in Requests \ {r} : ~UnderWay(s)
  BY <1>1 DEF PortsInv, CallInv, OneRequest, UnderWay
<1>6. CallInv'
  <2>1. OneRequest'
    BY <1>1, <1>2 DEF PortsInv, CallInv, OneRequest, UnderWay
  <2>2. OneCloses'
    BY <1>1, <1>2, CloseFrame DEF PortsInv, CallInv, SameOpen
  <2>3. ThreadsInv'
    BY <1>1, <1>2, <1>5 DEF PortsInv, CallInv, ThreadsInv, UnderWay
  <2>4. QED
    BY <2>1, <2>2, <2>3 DEF CallInv
<1>7. \A s \in Requests : ~Has(wire, s)
  BY <1>1, <1>5 DEF PortsInv, RequestInv, AskedInv, UnderWay
<1>8. RequestInv'
  <2>1. NoAnswer /\ answers = << >>
    BY <1>1, <1>5 DEF PortsInv, RequestInv, AnsweredInv, TakenInv, NoAnswer, UnderWay
  <2>2. ~Serving(r)
    <3>1. r # None
      BY RequestsAssumption
    <3>2. QED
      BY <1>1, <3>1 DEF PortsInv, ServedInv, TableInv, Serving
  <2>3. AskedInv'
    <3>1. \A s \in Requests : Has(wire', s) => s = r
      BY <1>3, <1>7
    <3>2. \A m \in Messages : ~Behind(wire', m, r)
      BY <1>1, <1>3, <1>7 DEF Behind, Has
    <3>3. QED
      BY <1>1, <1>2, <2>1, <2>2, <3>1, <3>2 DEF AskedInv, NoAnswer, Serving
  <2>4. AnsweredInv' /\ TakenInv'
    BY <1>1, <1>2, <2>1 DEF PortsInv, RequestInv, AnsweredInv, TakenInv, NoAnswer, Given, Serving
  <2>5. QED
    BY <2>3, <2>4 DEF RequestInv
<1>9. ServedInv'
  <2>1. \A k \in {"close", "eof"}, p \in Ports : Has(wire', OnWire(k, p)) => Has(wire, OnWire(k, p))
    BY <1>3, MessageFacts
  <2>2. QED
    BY <1>1, <1>2, <2>1, ServedFrame DEF PortsInv, SameOpen, Holds
<1>10. ActiveInv'
  BY <1>1, <1>2, ActiveFrame DEF PortsInv, SameOpen, SameAssign
<1>11. EndInv'
  BY <1>1, <1>2, EndFrame DEF PortsInv, SameOpen
<1>12. ReceiverInv'
  BY <1>1, <1>2, ReceiverFrame DEF PortsInv
<1>13. QED
  BY <1>4, <1>6, <1>8, <1>9, <1>10, <1>11, <1>12 DEF PortsInv

\* The permit of the semaphore.
LEMMA AcquireKeeps ==
  ASSUME HandInv, PortsInv, up, NEW r \in Requests, RequestStep(r), Acquire(r)
  PROVE  PortsInv'
<1>1. /\ pc[r] = "wait" /\ pc'[r] = "take" /\ \A s \in Requests \ {r} : pc'[s] = pc[s]
  BY DEF Acquire, HandInv
<1>2. UNCHANGED <<answer, portOf, buffer, wire, served, incoming, rx, answers, active, up,
                  inputOpen, outputOpen, at, halves, target, handling>>
  BY DEF Acquire, RequestStep, accVars, portVars
<1>3. PortTypes'
  BY <1>2 DEF PortsInv, PortTypes
<1>4. CallInv'
  BY <1>1, <1>2 DEF PortsInv, CallInv, OneRequest, OneCloses, ThreadsInv, UnderWay, Dead
<1>5. answers # << >>
  <2>1. Offered
    <3>1. up /\ ready > 0
      BY DEF Acquire
    <3>2. ~Empty /\ ~Taking /\ ~Taken
      BY <3>1 DEF Empty, Taking, Taken
    <3>3. QED
      BY <3>1, <3>2 DEF HandInv, Hand
  <2>2. \A a : <<a>> # << >>
    OBVIOUS
  <2>3. QED
    BY <2>1, <2>2 DEF Offered
<1>6. RequestInv'
  <2>1. /\ \A s \in Requests : ~Has(wire, s)
        /\ \A a \in Frames : Answer(a) => ~Has(incoming, a)
    BY <1>5 DEF PortsInv, RequestInv, AskedInv, AnsweredInv
  <2>2. AskedInv' /\ AnsweredInv'
    BY <1>2, <2>1 DEF AskedInv, AnsweredInv
  <2>3. TakenInv'
    BY <1>1, <1>2 DEF PortsInv, RequestInv, TakenInv, Given, Serving
  <2>4. QED
    BY <2>2, <2>3 DEF RequestInv
<1>7. ServedInv' /\ ActiveInv'
  <2>1. ServedInv'
    BY <1>1, <1>2, ServedFrame DEF PortsInv, SameOpen, Holds
  <2>2. QED
    BY <2>1, <1>1, <1>2, ActiveFrame DEF PortsInv, SameOpen, SameAssign
<1>8. EndInv'
  BY <1>1, <1>2, EndFrame DEF PortsInv, SameOpen
<1>9. ReceiverInv'
  BY <1>1, <1>2, ReceiverFrame DEF PortsInv
<1>10. QED
  BY <1>3, <1>4, <1>6, <1>7, <1>8, <1>9 DEF PortsInv

\* The thread takes its answer: it gets a port, or fails.
LEMMA TakeKeeps ==
  ASSUME HandInv, PortsInv, up, NEW r \in Requests, RequestStep(r), Take(r)
  PROVE  PortsInv'
<1>0. Taking /\ rx = "handed"
  <2>1. ~Empty /\ ~Offered /\ ~Taken
    BY DEF Empty, Offered, Taken, Nobody, Take
  <2>2. QED
    BY <2>1 DEF HandInv, Hand
<1>1. PICK a : answers = <<a>>
  BY <1>0 DEF Taking
<1>2. answers # << >> /\ answers[1] = a /\ Head(answers) = a /\ Tail(answers) = << >>
  BY <1>1
<1>3. UNCHANGED <<portOf, buffer, wire, served, incoming, rx, active, up,
                  inputOpen, outputOpen, at, halves, target, handling>>
  BY DEF Take, RequestStep, accVars, portVars
<1>4. /\ pc[r] = "take" /\ \A s \in Requests \ {r} : pc'[s] = pc[s]
      /\ pc'[r] = IF a.success THEN "register" ELSE "failed"
      /\ answers' = << >>
      /\ DOMAIN answer' = Requests /\ answer'[r] = a
      /\ \A s \in Requests \ {r} : answer'[s] = answer[s]
  BY <1>2 DEF Take, HandInv, PortsInv, PortTypes
<1>5. /\ \A s \in Requests \ {r} : ~UnderWay(s)
      /\ \A s \in Requests : ~Has(wire, s)
      /\ NoAnswer
      /\ Answer(a) /\ Given(r, a)
  <2>1. \A s \in Requests \ {r} : ~UnderWay(s)
    BY <1>4 DEF PortsInv, CallInv, OneRequest, UnderWay
  <2>2. PICK s \in Requests : /\ pc[s] \in {"wait", "take"}
                              /\ Answer(a) /\ Given(s, a)
    BY <1>2 DEF PortsInv, RequestInv, TakenInv
  <2>3. s = r
    BY <2>1, <2>2 DEF UnderWay
  <2>4. /\ \A t \in Requests : ~Has(wire, t)
        /\ \A b \in Frames : Answer(b) => ~Has(incoming, b)
    BY <1>2 DEF PortsInv, RequestInv, AskedInv, AnsweredInv
  <2>5. QED
    BY <2>1, <2>2, <2>3, <2>4 DEF NoAnswer
<1>6. PortTypes'
  BY <1>3, <1>4 DEF PortsInv, PortTypes
<1>7. CallInv'
  <2>1. OneRequest'
    BY <1>3, <1>4, <1>5 DEF PortsInv, CallInv, OneRequest, UnderWay
  <2>2. OneCloses'
    BY <1>3, <1>4, CloseFrame DEF PortsInv, CallInv, SameOpen
  <2>3. ThreadsInv'
    BY <1>3, <1>4 DEF PortsInv, CallInv, ThreadsInv
  <2>4. QED
    BY <2>1, <2>2, <2>3 DEF CallInv
<1>8. RequestInv'
  <2>1. AskedInv' /\ AnsweredInv'
    BY <1>3, <1>5 DEF AskedInv, AnsweredInv, NoAnswer
  <2>2. TakenInv'
    <3>1. \A s \in Requests : pc'[s] \in {"register", "assign"} =>
             s = r /\ a.success
      BY <1>4, <1>5 DEF UnderWay
    <3>2. Given(r, a)'
      BY <1>3, <1>5 DEF Given, Serving
    <3>3. QED
      BY <1>4, <1>5, <3>1, <3>2 DEF TakenInv
  <2>3. QED
    BY <2>1, <2>2 DEF RequestInv
<1>9. ServedInv'
  <2>1. ~a.success => ~Serving(r)
    BY <1>5 DEF Given
  <2>2. QED
    BY <1>3, <1>4, <2>1, ServedFrame DEF PortsInv, SameOpen, Holds
<1>10. ActiveInv'
  BY <1>3, <1>4, ActiveFrame DEF PortsInv, SameOpen, SameAssign
<1>11. EndInv'
  BY <1>3, <1>4, EndFrame DEF PortsInv, SameOpen
<1>12. ReceiverInv'
  BY <1>0, <1>3 DEF ReceiverInv, StageInv, TargetInv
<1>13. QED
  BY <1>6, <1>7, <1>8, <1>9, <1>10, <1>11, <1>12 DEF PortsInv

\* A service that has its answer is the one the accessory has on that port; others
\* that had the port are over, and no answer is under way.
LEMMA GivenPort ==
  ASSUME PortsInv, NEW r \in Requests, pc[r] \in {"register", "assign"}
  PROVE  LET p == answer[r].port
         IN /\ p \in Ports /\ served[p] = r /\ halves[p] = Both
            /\ NoAnswer /\ answers = << >>
            /\ \A s \in Requests : ~Has(wire, s) /\ at[s] = "idle" /\ (s # r => ~UnderWay(s))
            /\ \A s \in Requests : pc[s] = "open" /\ portOf[s] = p => Dead(s)
<1> DEFINE p == answer[r].port
<1>1. p \in Ports /\ served[p] = r /\ halves[p] = Both
  BY DEF PortsInv, RequestInv, TakenInv, Given
<1>2. \A s \in Requests : at[s] = "idle" /\ (s # r => ~UnderWay(s))
  BY DEF PortsInv, CallInv, OneRequest, UnderWay
<1>3. \A s \in Requests : pc[s] \notin {"wait", "take"}
  BY <1>2 DEF UnderWay
<1>4. NoAnswer /\ answers = << >> /\ \A s \in Requests : ~Has(wire, s)
  BY <1>3 DEF PortsInv, RequestInv, AskedInv, AnsweredInv, TakenInv, NoAnswer
<1>5. ~Has(incoming, Opened(p))
  BY <1>1, <1>4, FrameFacts DEF NoAnswer, Answer
<1>6. r # None
  BY RequestsAssumption
<1>7. ASSUME NEW s \in Requests, pc[s] = "open", portOf[s] = p PROVE Dead(s)
  <2>1. served[p] \notin {s, None}
    BY <1>1, <1>6, <1>7
  <2>2. QED
    BY <1>5, <1>7, <2>1 DEF PortsInv, EndInv, HalvesInv
<1>8. QED
  BY <1>1, <1>2, <1>4, <1>7

\* The service enters the table.
LEMMA RegisterKeeps ==
  ASSUME HandInv, PortsInv, NEW r \in Requests, RequestStep(r), Register(r)
  PROVE  PortsInv'
<1>1. PICK p : p = answer[r].port
  OBVIOUS
<1>2. /\ pc[r] = "register" /\ pc'[r] = "assign" /\ \A s \in Requests \ {r} : pc'[s] = pc[s]
      /\ active' = [active EXCEPT ![p] = r]
  BY <1>1 DEF Register, HandInv
<1>3. UNCHANGED <<answer, portOf, buffer, wire, served, incoming, rx, answers, up,
                  inputOpen, outputOpen, at, halves, target, handling>>
  BY DEF Register, RequestStep, accVars, portVars, spawnVars
<1>4. /\ p \in Ports /\ served[p] = r /\ halves[p] = Both
      /\ NoAnswer /\ answers = << >>
      /\ \A s \in Requests : ~Has(wire, s) /\ at[s] = "idle" /\ (s # r => ~UnderWay(s))
      /\ \A s \in Requests : pc[s] = "open" /\ portOf[s] = p => Dead(s)
  BY <1>1, <1>2, GivenPort
<1>5. PortTypes'
  BY <1>2, <1>3, <1>4 DEF PortsInv, PortTypes
<1>6. CallInv'
  <2>1. OneRequest'
    BY <1>2, <1>3, <1>4 DEF OneRequest, UnderWay
  <2>2. OneCloses'
    BY <1>2, <1>3, CloseFrame DEF PortsInv, CallInv, SameOpen
  <2>3. ThreadsInv'
    BY <1>2, <1>3 DEF PortsInv, CallInv, ThreadsInv
  <2>4. QED
    BY <2>1, <2>2, <2>3 DEF CallInv
<1>7. RequestInv'
  <2>1. AskedInv' /\ AnsweredInv'
    BY <1>3, <1>4 DEF AskedInv, AnsweredInv, NoAnswer
  <2>2. TakenInv'
    BY <1>2, <1>3, <1>4 DEF PortsInv, RequestInv, TakenInv, Given, Serving
  <2>3. QED
    BY <2>1, <2>2 DEF RequestInv
<1>8. ServedInv'
  BY <1>2, <1>3, ServedFrame DEF PortsInv, SameOpen, Holds
<1>9. /\ active \in [Ports -> Requests \cup {None}]
      /\ active'[p] = r /\ \A q \in Ports \ {p} : active'[q] = active[q]
  BY <1>2, <1>4 DEF PortsInv, PortTypes
<1>10. ActiveInv'
  <2>1. \A s \in Requests : pc'[s] = "assign" => s = r
    BY <1>2, <1>4 DEF UnderWay
  <2>2. \A q \in Ports \ {p} : active[q] # None =>
          /\ pc[active[q]] = "open" /\ portOf[active[q]] = q
          /\ \/ inputOpen[active[q]]
             \/ at[active[q]] \in {"close", "forget"} /\ ~Has(incoming, Data(q))
             \/ Ending(q)
    <3>1. \A q \in Ports : active[q] # None => active[q] \in Requests
      BY <1>9
    <3>2. \A s \in Requests : pc[s] # "assign"
      BY <1>2, <1>4 DEF UnderWay
    <3>3. QED
      BY <3>1, <3>2 DEF PortsInv, ActiveInv
  <2>3. \A q \in Ports \ {p} : active[q] # None => active[q] \in Requests \ {r}
    BY <1>2, <1>9, <2>2
  <2>4. ASSUME NEW q \in Ports, active'[q] # None
        PROVE  \/ pc'[active'[q]] = "assign" /\ answer'[active'[q]].port = q
               \/ /\ pc'[active'[q]] = "open" /\ portOf'[active'[q]] = q
                  /\ \/ inputOpen'[active'[q]]
                     \/ at'[active'[q]] \in {"close", "forget"} /\ ~Has(incoming', Data(q))
                     \/ Ending(q)'
    <3>1. CASE q = p
      BY <1>1, <1>2, <1>3, <1>9, <3>1
    <3>2. CASE q # p
      BY <1>2, <1>3, <1>9, <2>2, <2>3, <2>4, <3>2 DEF Ending
    <3>3. QED
      BY <3>1, <3>2
  <2>5. rx' # "astray"
    BY <1>3 DEF PortsInv, ActiveInv
  <2>6. QED
    BY <1>1, <1>3, <1>9, <2>1, <2>4, <2>5 DEF ActiveInv
<1>11. EndInv'
  <2>1. ClosesInv' /\ EofsInv'
    BY <1>2, <1>3 DEF PortsInv, EndInv, ClosesInv, EofsInv
  <2>2. HalvesInv'
    <3>1. \A s \in Requests : (pc'[s] = "open" <=> pc[s] = "open") /\ (Dead(s)' <=> Dead(s))
      BY <1>2, <1>3 DEF Dead
    <3>2. \A s \in Requests : pc[s] = "open" => portOf[s] \in Ports
      BY DEF PortsInv, PortTypes, CallInv, ThreadsInv
    <3>3. \A s \in Requests : pc[s] = "open" /\ inputOpen[s] => active'[portOf[s]] = s
      BY <1>4, <1>9, <3>2 DEF PortsInv, EndInv, HalvesInv, Dead
    <3>4. QED
      BY <1>3, <3>1, <3>3 DEF PortsInv, EndInv, HalvesInv
  <2>3. QED
    BY <2>1, <2>2 DEF EndInv
<1>12. ReceiverInv'
  <2>1. StageInv'
    BY <1>1, <1>2, <1>3 DEF PortsInv, ReceiverInv, StageInv
  <2>2. TargetInv'
    BY <1>2, <1>3 DEF PortsInv, ReceiverInv, TargetInv
  <2>3. QED
    BY <2>1, <2>2 DEF ReceiverInv
<1>13. QED
  BY <1>5, <1>6, <1>7, <1>8, <1>10, <1>11, <1>12 DEF PortsInv

\* The service's constructor ends: the port is open on Android.
LEMMA AssignPortKeeps ==
  ASSUME HandInv, PortsInv, NEW r \in Requests, RequestStep(r), AssignPort(r)
  PROVE  PortsInv'
<1>1. PICK p : p = answer[r].port
  OBVIOUS
<1>2. /\ pc[r] = "assign" /\ pc'[r] = "open" /\ \A s \in Requests \ {r} : pc'[s] = pc[s]
      /\ portOf' = [portOf EXCEPT ![r] = p]
  BY <1>1 DEF AssignPort, HandInv
<1>3. UNCHANGED <<answer, buffer, wire, served, incoming, rx, answers, active, up,
                  inputOpen, outputOpen, at, halves, target, handling>>
  BY DEF AssignPort, RequestStep, accVars, portVars, spawnVars
<1>4. /\ p \in Ports /\ served[p] = r /\ halves[p] = Both
      /\ NoAnswer /\ answers = << >>
      /\ \A s \in Requests : ~Has(wire, s) /\ at[s] = "idle" /\ (s # r => ~UnderWay(s))
      /\ \A s \in Requests : pc[s] = "open" /\ portOf[s] = p => Dead(s)
  BY <1>1, <1>2, GivenPort
<1>5. /\ portOf'[r] = p /\ \A s \in Requests \ {r} : portOf'[s] = portOf[s]
      /\ portOf' \in [Requests -> Ports \cup {None}]
      /\ p # None /\ r # None /\ inputOpen[r] /\ outputOpen[r]
  BY <1>2, <1>4, RequestsAssumption DEF PortsInv, PortTypes, CallInv, ThreadsInv
<1>6. PortTypes'
  BY <1>3, <1>5 DEF PortsInv, PortTypes
<1>7. \A s \in Requests : ~UnderWay(s)' /\ pc'[s] \notin {"register", "assign", "flip", "write"}
  BY <1>2, <1>4 DEF UnderWay
<1>8. CallInv'
  <2>1. OneRequest' /\ OneCloses'
    BY <1>3, <1>4, <1>7 DEF OneRequest, OneCloses
  <2>2. ThreadsInv'
    BY <1>2, <1>3, <1>5, <1>7 DEF PortsInv, CallInv, ThreadsInv
  <2>3. QED
    BY <2>1, <2>2 DEF CallInv
<1>9. RequestInv'
  BY <1>3, <1>4, <1>7 DEF RequestInv, AskedInv, AnsweredInv, TakenInv, NoAnswer
<1>10. /\ served \in [Ports -> Requests \cup {None}]
       /\ active \in [Ports -> Requests \cup {None}]
  BY DEF PortsInv, PortTypes
<1>11. ServedInv'
  <2>1. TableInv'
    <3>1. \A q \in Ports : served[q] = None => halves[q] = Both
      BY DEF PortsInv, ServedInv, TableInv
    <3>2. ASSUME NEW q \in Ports, served[q] # None
          PROVE  /\ pc'[served[q]] \in {"wait", "take", "register", "assign", "open"}
                 /\ pc'[served[q]] = "open" => portOf'[served[q]] = q
                 /\ \A t \in Ports : served[t] = served[q] => t = q
      <4>1. /\ pc[served[q]] \in {"wait", "take", "register", "assign", "open"}
            /\ pc[served[q]] = "open" => portOf[served[q]] = q
            /\ \A t \in Ports : served[t] = served[q] => t = q
        BY <3>2 DEF PortsInv, ServedInv, TableInv
      <4>2. served[q] \in Requests
        BY <1>10, <3>2
      <4>3. CASE served[q] = r
        BY <1>2, <1>4, <1>5, <4>1, <4>3
      <4>4. CASE served[q] # r
        BY <1>2, <1>5, <4>1, <4>2, <4>4
      <4>5. QED
        BY <4>3, <4>4
    <3>3. QED
      BY <1>3, <3>1, <3>2 DEF TableInv
  <2>2. StatusInv'
    <3>1. \A q \in Ports : served[q] # None /\ pc[served[q]] = "open" => pc'[served[q]] = "open"
      BY <1>2, <1>10
    <3>2. QED
      BY <1>3, <3>1 DEF PortsInv, ServedInv, StatusInv
  <2>3. QED
    BY <2>1, <2>2 DEF ServedInv
<1>12. active[p] = r
  BY <1>1, <1>2 DEF PortsInv, ActiveInv
<1>13. \A s \in Requests : Dead(s)' <=> Dead(s)
  BY <1>3 DEF Dead
<1>14. ActiveInv'
  <2>1. ASSUME NEW q \in Ports, active[q] # None
        PROVE  /\ pc'[active[q]] = "open" /\ portOf'[active[q]] = q
               /\ \/ inputOpen[active[q]]
                  \/ at[active[q]] \in {"close", "forget"} /\ ~Has(incoming, Data(q))
                  \/ Ending(q)
    <3>1. active[q] \in Requests
      BY <1>10, <2>1
    <3>2. CASE active[q] = r
      BY <1>1, <1>2, <1>5, <2>1, <3>2 DEF PortsInv, ActiveInv
    <3>3. CASE active[q] # r
      <4>1. pc[active[q]] # "assign"
        BY <1>4, <3>1, <3>3 DEF UnderWay
      <4>2. QED
        BY <1>2, <1>5, <2>1, <3>1, <3>3, <4>1 DEF PortsInv, ActiveInv
    <3>4. QED
      BY <3>2, <3>3
  <2>2. rx' # "astray"
    BY <1>3 DEF PortsInv, ActiveInv
  <2>3. QED
    BY <1>3, <1>7, <2>1, <2>2 DEF ActiveInv, Ending
<1>15. EndInv'
  <2>1. EofsInv'
    BY <1>3 DEF PortsInv, EndInv, EofsInv
  <2>2. ClosesInv'
    BY <1>2, <1>3, <1>5 DEF PortsInv, EndInv, ClosesInv
  <2>3. HalvesInv'
    <3>1. \A s \in Requests \ {r} : pc'[s] = "open" => pc[s] = "open" /\ portOf'[s] = portOf[s]
      BY <1>2, <1>5
    <3>2. ASSUME NEW s \in Requests, pc'[s] = "open", NEW q, q = portOf'[s]
          PROVE  /\ inputOpen[s] => active[q] = s
                 /\ inputOpen[s] /\ (served[q] # s \/ "output" \notin halves[q]) =>
                      First(incoming, Eof(q), Opened(q))
                 /\ outputOpen[s] /\ (served[q] # s \/ "input" \notin halves[q]) =>
                      First(incoming, CloseOf(q), Opened(q))
                 /\ served[q] \notin {s, None} /\ ~Has(incoming, Opened(q)) => Dead(s)
                 /\ \A t \in Requests \ {s} : pc'[t] = "open" /\ portOf'[t] = q => Dead(t) \/ Dead(s)
      <4>1. CASE s = r
        BY <1>4, <1>5, <1>12, <3>1, <3>2, <4>1 DEF Both
      <4>2. CASE s # r
        <5>1. pc[s] = "open" /\ portOf[s] = q
          BY <3>1, <3>2, <4>2
        <5>2. q = p => Dead(s)
          BY <1>4, <5>1
        <5>3. \A t \in Requests \ {s} : pc'[t] = "open" /\ portOf'[t] = q => Dead(t) \/ Dead(s)
          BY <1>5, <3>1, <5>1, <5>2 DEF PortsInv, EndInv, HalvesInv
        <5>4. QED
          BY <5>1, <5>3 DEF PortsInv, EndInv, HalvesInv
      <4>3. QED
        BY <4>1, <4>2
    <3>3. QED
      BY <1>3, <1>13, <3>2 DEF HalvesInv
  <2>4. QED
    BY <2>1, <2>2, <2>3 DEF EndInv
<1>16. ReceiverInv'
  <2>1. StageInv'
    <3>1. rx \in {"flagged", "cleanup"} => p # handling
      BY <1>1, <1>2 DEF PortsInv, ReceiverInv, StageInv
    <3>2. QED
      BY <1>2, <1>3, <1>5, <3>1 DEF PortsInv, ReceiverInv, StageInv
  <2>2. TargetInv'
    BY <1>1, <1>2, <1>3, <1>5 DEF PortsInv, ReceiverInv, TargetInv
  <2>3. QED
    BY <2>1, <2>2 DEF ReceiverInv
<1>17. QED
  BY <1>6, <1>8, <1>9, <1>11, <1>14, <1>15, <1>16 DEF PortsInv

-----------------------------------------------------------------------------
(* Port.close and Port.eof.                                                *)

\* The application that closes a half of a port closes one of the service that the
\* accessory has there, if it has one.
LEMMA CloserOwns ==
  ASSUME PortsInv, ~Overlap, NEW r \in Requests, Alone(r), pc[r] = "open", ~Dead(r), at[r] = "idle"
  PROVE  /\ portOf[r] \in Ports /\ served[portOf[r]] \in {r, None}
         /\ \A s \in Requests : ~UnderWay(s) /\ at[s] = "idle"
         /\ \A s \in Requests \ {r} : pc[s] = "open" /\ portOf[s] = portOf[r] => Dead(s)
<1>1. \A s \in Requests : ~UnderWay(s) /\ at[s] = "idle"
  BY DEF Alone
<1>2. portOf[r] \in Ports
  BY DEF PortsInv, PortTypes, CallInv, ThreadsInv
<1>3. ~Has(incoming, Opened(portOf[r]))
  <2>1. \A s \in Requests : pc[s] # "wait"
    BY <1>1 DEF UnderWay
  <2>2. Answer(Opened(portOf[r]))
    BY <1>2, FrameFacts DEF Answer
  <2>3. QED
    BY <2>1, <2>2 DEF PortsInv, RequestInv, AnsweredInv, Answer
<1>4. served[portOf[r]] \in {r, None}
  BY <1>3 DEF PortsInv, EndInv, HalvesInv
<1>5. \A s \in Requests \ {r} : pc[s] = "open" /\ portOf[s] = portOf[r] => Dead(s)
  BY DEF PortsInv, EndInv, HalvesInv
<1>6. QED
  BY <1>1, <1>2, <1>4, <1>5

\* No frame of that kind is under way.
LEMMA IncomingFacts ==
  ASSUME PortTypes, NEW p
  PROVE  /\ Has(incoming, Data(p)) => Incoming({"data"}, p)
         /\ Has(incoming, CloseOf(p)) => Incoming({"close"}, p)
BY FrameFacts DEF Has, Incoming

\* Port.close up to the write: the input is closed when no data and no CLOSE is under
\* way for the port, so what stays in the table leaves nothing unread.
LEMMA StartCloseKeeps ==
  ASSUME PortsInv, ~Overlap, ~Crossing, ~CloseLast, NEW r \in Requests, StartClose(r)
  PROVE  PortsInv'
<1>1. PICK p : p = portOf[r]
  OBVIOUS
<1>2. /\ inputOpen[r] /\ inputOpen \in [Requests -> BOOLEAN]
      /\ inputOpen' = [inputOpen EXCEPT ![r] = FALSE]
      /\ at \in [Requests -> {"idle", "close", "eof", "forget"}]
      /\ at' = [at EXCEPT ![r] = "close"]
      /\ ~Has(incoming, Data(p)) /\ ~Has(incoming, CloseOf(p))
  BY <1>1, IncomingFacts DEF StartClose, PortsInv, PortTypes
<1>3. UNCHANGED <<pc, answer, portOf, buffer, wire, served, incoming, rx, answers, active, up,
                  outputOpen, halves, target, handling>>
  BY DEF StartClose, vars, threadVars, accVars, spawnVars
<1>4. /\ pc[r] = "open" /\ at[r] = "idle" /\ Alone(r) /\ ~Dead(r)
  BY <1>2 DEF StartClose, Dead
<1>5. /\ p \in Ports /\ served[p] \in {r, None}
      /\ \A s \in Requests : ~UnderWay(s) /\ at[s] = "idle"
      /\ \A s \in Requests \ {r} : pc[s] = "open" /\ portOf[s] = p => Dead(s)
  BY <1>1, <1>4, CloserOwns
<1>6. /\ at'[r] = "close" /\ \A s \in Requests \ {r} : at'[s] = "idle"
      /\ ~inputOpen'[r] /\ \A s \in Requests \ {r} : inputOpen'[s] = inputOpen[s]
      /\ inputOpen' \in [Requests -> BOOLEAN]
      /\ at' \in [Requests -> {"idle", "close", "eof", "forget"}]
  BY <1>2, <1>5
<1>7. PortTypes'
  BY <1>3, <1>6 DEF PortsInv, PortTypes
<1>8. \A s \in Requests : Dead(s) => Dead(s)'
  BY <1>3, <1>6 DEF Dead
<1>9. CallInv'
  <2>1. OneRequest'
    BY <1>3, <1>5 DEF OneRequest, UnderWay
  <2>2. OneCloses'
    <3>1. \A s \in Requests \ {r} : portOf[s] = p => pc[s] = "open"
      BY <1>5, RequestsAssumption DEF PortsInv, CallInv, ThreadsInv
    <3>2. QED
      BY <1>1, <1>3, <1>4, <1>5, <1>6, <1>8, <3>1 DEF OneCloses
  <2>3. ThreadsInv'
    BY <1>3, <1>4, <1>6 DEF PortsInv, CallInv, ThreadsInv
  <2>4. QED
    BY <2>1, <2>2, <2>3 DEF CallInv
<1>10. RequestInv'
  BY <1>3 DEF PortsInv, RequestInv, AskedInv, AnsweredInv, TakenInv, Given, Serving, NoAnswer
<1>11. /\ \A q \in Ports : served[q] # None => served[q] \in Requests
       /\ \A q \in Ports : active[q] # None => active[q] \in Requests
  BY DEF PortsInv, PortTypes
<1>12. ServedInv'
  <2>1. TableInv'
    BY <1>3 DEF PortsInv, ServedInv, TableInv
  <2>2. StatusInv'
    BY <1>3, <1>6, <1>11 DEF PortsInv, ServedInv, StatusInv
  <2>3. QED
    BY <2>1, <2>2 DEF ServedInv
<1>13. ActiveInv'
  <2>1. ASSUME NEW q \in Ports, active[q] # None
        PROVE  /\ pc[active[q]] = "open" /\ portOf[active[q]] = q
               /\ \/ inputOpen'[active[q]]
                  \/ at'[active[q]] \in {"close", "forget"} /\ ~Has(incoming, Data(q))
                  \/ Ending(q)
    <3>1. active[q] \in Requests /\ pc[active[q]] # "assign" /\ at[active[q]] = "idle"
      BY <1>5, <1>11, <2>1 DEF UnderWay
    <3>2. /\ pc[active[q]] = "open" /\ portOf[active[q]] = q
          /\ inputOpen[active[q]] \/ Ending(q)
      BY <2>1, <3>1 DEF PortsInv, ActiveInv
    <3>3. QED
      BY <1>1, <1>2, <1>6, <3>1, <3>2
  <2>2. QED
    BY <1>3, <2>1 DEF PortsInv, ActiveInv, Ending
<1>14. EndInv'
  <2>1. EofsInv'
    BY <1>3 DEF PortsInv, EndInv, EofsInv
  <2>2. ClosesInv'
    <3>1. ASSUME NEW q \in Ports, Has(incoming, CloseOf(q))
          PROVE  \E s \in Requests : pc[s] = "open" /\ portOf[s] = q /\ inputOpen'[s]
      <4>1. PICK s \in Requests : pc[s] = "open" /\ portOf[s] = q /\ inputOpen[s]
        BY <3>1 DEF PortsInv, EndInv, ClosesInv
      <4>2. s # r
        BY <1>1, <1>2, <3>1, <4>1
      <4>3. QED
        BY <1>6, <4>1, <4>2
    <3>2. QED
      BY <1>3, <3>1 DEF PortsInv, EndInv, ClosesInv
  <2>3. HalvesInv'
    <3>1. \A s \in Requests : inputOpen'[s] => inputOpen[s]
      BY <1>2, <1>6
    <3>2. QED
      BY <1>3, <1>8, <3>1 DEF PortsInv, EndInv, HalvesInv
  <2>4. QED
    BY <2>1, <2>2, <2>3 DEF EndInv
<1>15. ReceiverInv'
  <2>1. StageInv'
    BY <1>2, <1>3, <1>6 DEF PortsInv, ReceiverInv, StageInv
  <2>2. ASSUME rx = "found" PROVE target # r
    <3>1. PICK h : h = Head(incoming)
      OBVIOUS
    <3>2. /\ incoming # << >> /\ h.kind = "data" /\ pc[r] = "open"
          /\ target = r => portOf[r] = h.port
      BY <1>4, <2>2, <3>1 DEF PortsInv, ReceiverInv, TargetInv
    <3>3. h \in Frames /\ Has(incoming, h)
      BY <3>1, <3>2, TailFacts DEF PortsInv, PortTypes
    <3>4. Has(incoming, Data(h.port))
      BY <3>2, <3>3, FrameFacts
    <3>5. QED
      BY <1>1, <1>2, <3>2, <3>4
  <2>3. TargetInv'
    BY <1>3, <1>6, <2>2 DEF PortsInv, ReceiverInv, TargetInv
  <2>4. QED
    BY <2>1, <2>3 DEF ReceiverInv
<1>16. QED
  BY <1>7, <1>9, <1>10, <1>12, <1>13, <1>14, <1>15 DEF PortsInv

\* Port.eof up to the write: the output is closed.
LEMMA StartEofKeeps ==
  ASSUME PortsInv, ~Overlap, NEW r \in Requests, StartEof(r)
  PROVE  PortsInv'
<1>1. PICK p : p = portOf[r]
  OBVIOUS
<1>2. /\ outputOpen[r] /\ outputOpen \in [Requests -> BOOLEAN]
      /\ outputOpen' = [outputOpen EXCEPT ![r] = FALSE]
      /\ at \in [Requests -> {"idle", "close", "eof", "forget"}]
      /\ at' = [at EXCEPT ![r] = "eof"]
  BY DEF StartEof, PortsInv, PortTypes
<1>3. UNCHANGED <<pc, answer, portOf, buffer, wire, served, incoming, rx, answers, active, up,
                  inputOpen, halves, target, handling>>
  BY DEF StartEof, vars, threadVars, accVars, spawnVars
<1>4. /\ pc[r] = "open" /\ at[r] = "idle" /\ Alone(r) /\ ~Dead(r)
  BY <1>2 DEF StartEof, Dead
<1>5. /\ p \in Ports /\ served[p] \in {r, None}
      /\ \A s \in Requests : ~UnderWay(s) /\ at[s] = "idle"
      /\ \A s \in Requests \ {r} : pc[s] = "open" /\ portOf[s] = p => Dead(s)
  BY <1>1, <1>4, CloserOwns
<1>6. /\ at'[r] = "eof" /\ \A s \in Requests \ {r} : at'[s] = "idle"
      /\ ~outputOpen'[r] /\ \A s \in Requests \ {r} : outputOpen'[s] = outputOpen[s]
      /\ outputOpen' \in [Requests -> BOOLEAN]
      /\ at' \in [Requests -> {"idle", "close", "eof", "forget"}]
  BY <1>2, <1>5
<1>7. PortTypes'
  BY <1>3, <1>6 DEF PortsInv, PortTypes
<1>8. \A s \in Requests : Dead(s) => Dead(s)'
  BY <1>3, <1>6 DEF Dead
<1>9. CallInv'
  <2>1. OneRequest'
    BY <1>3, <1>5 DEF OneRequest, UnderWay
  <2>2. OneCloses'
    <3>1. \A s \in Requests \ {r} : portOf[s] = p => pc[s] = "open"
      BY <1>5, RequestsAssumption DEF PortsInv, CallInv, ThreadsInv
    <3>2. QED
      BY <1>1, <1>3, <1>4, <1>5, <1>6, <1>8, <3>1 DEF OneCloses
  <2>3. ThreadsInv'
    BY <1>3, <1>4, <1>6 DEF PortsInv, CallInv, ThreadsInv
  <2>4. QED
    BY <2>1, <2>2, <2>3 DEF CallInv
<1>10. RequestInv'
  BY <1>3 DEF PortsInv, RequestInv, AskedInv, AnsweredInv, TakenInv, Given, Serving, NoAnswer
<1>11. /\ \A q \in Ports : served[q] # None => served[q] \in Requests
       /\ \A q \in Ports : active[q] # None => active[q] \in Requests
  BY DEF PortsInv, PortTypes
<1>12. ServedInv'
  <2>1. TableInv'
    BY <1>3 DEF PortsInv, ServedInv, TableInv
  <2>2. StatusInv'
    BY <1>3, <1>6, <1>11 DEF PortsInv, ServedInv, StatusInv
  <2>3. QED
    BY <2>1, <2>2 DEF ServedInv
<1>13. ActiveInv'
  <2>1. ASSUME NEW q \in Ports, active[q] # None
        PROVE  /\ pc[active[q]] = "open" /\ portOf[active[q]] = q
               /\ inputOpen[active[q]] \/ Ending(q)
    <3>1. active[q] \in Requests /\ pc[active[q]] # "assign" /\ at[active[q]] = "idle"
      BY <1>5, <1>11, <2>1 DEF UnderWay
    <3>2. QED
      BY <2>1, <3>1 DEF PortsInv, ActiveInv
  <2>2. QED
    BY <1>3, <2>1 DEF PortsInv, ActiveInv, Ending
<1>14. EndInv'
  <2>1. EofsInv' /\ ClosesInv'
    BY <1>3 DEF PortsInv, EndInv, EofsInv, ClosesInv
  <2>2. HalvesInv'
    <3>1. \A s \in Requests : outputOpen'[s] => outputOpen[s]
      BY <1>2, <1>6
    <3>2. QED
      BY <1>3, <1>8, <3>1 DEF PortsInv, EndInv, HalvesInv
  <2>3. QED
    BY <2>1, <2>2 DEF EndInv
<1>15. ReceiverInv'
  BY <1>3, ReceiverFrame DEF PortsInv
<1>16. QED
  BY <1>7, <1>9, <1>10, <1>12, <1>13, <1>14, <1>15 DEF PortsInv

\* The write of the status: the service it is for is there, or none.
LEMMA WriteStatusKeeps ==
  ASSUME PortsInv, up, NEW r \in Requests, WriteStatus(r)
  PROVE  PortsInv'
<1>1. PICK p : p = portOf[r]
  OBVIOUS
<1>2. /\ at[r] \in {"close", "eof"} /\ at \in [Requests -> {"idle", "close", "eof", "forget"}]
      /\ at' = [at EXCEPT ![r] = "forget"]
      /\ wire' = wire \/ wire' = Append(wire, OnWire(at[r], p))
  BY <1>1 DEF WriteStatus, PortsInv, PortTypes, Sent
<1>3. UNCHANGED <<pc, answer, portOf, buffer, served, incoming, rx, answers, active, up,
                  inputOpen, outputOpen, halves, target, handling>>
  BY DEF WriteStatus, threadVars, spawnVars
<1>4. /\ at[r] # "idle" /\ at'[r] = "forget" /\ \A s \in Requests \ {r} : at'[s] = at[s]
      /\ at' \in [Requests -> {"idle", "close", "eof", "forget"}]
  BY <1>2
<1>5. /\ pc[r] = "open" /\ served[p] \in {r, None} /\ p \in Ports
      /\ at[r] = "close" => ~inputOpen[r]
      /\ at[r] = "eof" => ~outputOpen[r]
      /\ \A s \in Requests : ~UnderWay(s)
  BY <1>1, <1>4 DEF PortsInv, PortTypes, CallInv, OneRequest, OneCloses, ThreadsInv
<1>6. /\ wire' \in Seq(Messages)
      /\ \A m : Has(wire', m) => Has(wire, m) \/ m = OnWire(at[r], p)
  <2>1. wire \in Seq(Messages) /\ OnWire(at[r], p) \in Messages
    BY <1>2, <1>5, MessageFacts DEF PortsInv, PortTypes
  <2>2. /\ Append(wire, OnWire(at[r], p)) \in Seq(Messages)
        /\ \A m : Has(Append(wire, OnWire(at[r], p)), m) <=> Has(wire, m) \/ OnWire(at[r], p) = m
    BY <2>1, AppendFacts
  <2>3. CASE wire' = wire
    BY <2>1, <2>3
  <2>4. CASE wire' = Append(wire, OnWire(at[r], p))
    BY <2>2, <2>4
  <2>5. QED
    BY <1>2, <2>3, <2>4
<1>7. PortTypes'
  BY <1>3, <1>4, <1>6 DEF PortsInv, PortTypes
<1>8. CallInv'
  <2>1. OneRequest'
    BY <1>3, <1>5 DEF OneRequest, UnderWay
  <2>2. OneCloses'
    <3>1. \A s \in Requests : Dead(s)' <=> Dead(s)
      BY <1>3 DEF Dead
    <3>2. \A s \in Requests \ {r} : at[s] = "idle" /\ (portOf[s] = p => Dead(s))
      BY <1>1, <1>4 DEF PortsInv, CallInv, OneCloses
    <3>3. QED
      BY <1>1, <1>3, <1>4, <1>5, <3>1, <3>2 DEF OneCloses
  <2>3. ThreadsInv'
    BY <1>3 DEF PortsInv, CallInv, ThreadsInv
  <2>4. QED
    BY <2>1, <2>2, <2>3 DEF CallInv
<1>9. RequestInv'
  <2>1. AskedInv'
    <3>1. \A s \in Requests : pc[s] # "wait"
      BY <1>5 DEF UnderWay
    <3>2. \A s \in Requests : ~Has(wire', s)
      BY <1>2, <1>5, <1>6, <3>1, MessageFacts DEF PortsInv, RequestInv, AskedInv
    <3>3. QED
      BY <3>2 DEF AskedInv
  <2>2. AnsweredInv' /\ TakenInv'
    BY <1>3 DEF PortsInv, RequestInv, AnsweredInv, TakenInv, Given, Serving
  <2>3. QED
    BY <2>1, <2>2 DEF RequestInv
<1>10. ServedInv'
  <2>1. TableInv'
    BY <1>3 DEF PortsInv, ServedInv, TableInv
  <2>2. ASSUME NEW q \in Ports, NEW k \in {"close", "eof"}, Has(wire', OnWire(k, q)), served[q] # None
        PROVE  /\ pc[served[q]] = "open"
               /\ k = "close" => ~inputOpen[served[q]]
               /\ k = "eof" => ~outputOpen[served[q]]
    <3>1. CASE Has(wire, OnWire(k, q))
      BY <2>2, <3>1 DEF PortsInv, ServedInv, StatusInv
    <3>2. CASE OnWire(k, q) = OnWire(at[r], p)
      <4>1. k = at[r] /\ q = p
        BY <3>2, MessageFacts
      <4>2. QED
        BY <1>5, <2>2, <4>1
    <3>3. QED
      BY <1>6, <2>2, <3>1, <3>2
  <2>3. QED
    BY <1>3, <2>1, <2>2 DEF ServedInv, StatusInv
<1>11. ActiveInv'
  <2>1. \A q \in Ports : active[q] # None => active[q] \in Requests
    BY DEF PortsInv, PortTypes
  <2>2. \A s \in Requests : at[s] \in {"close", "forget"} => at'[s] = "forget" \/ at'[s] = at[s]
    BY <1>4
  <2>3. QED
    BY <1>3, <2>1, <2>2 DEF PortsInv, ActiveInv, Ending
<1>12. EndInv'
  BY <1>3, EndFrame DEF PortsInv, SameOpen
<1>13. ReceiverInv'
  BY <1>3, ReceiverFrame DEF PortsInv
<1>14. QED
  BY <1>7, <1>8, <1>9, <1>10, <1>11, <1>12, <1>13 DEF PortsInv

\* The service leaves Android's table, and takes no other with it.
LEMMA ForgetKeeps ==
  ASSUME PortsInv, NEW r \in Requests, Forget(r)
  PROVE  PortsInv'
<1>1. PICK p : p = portOf[r]
  OBVIOUS
<1>2. /\ at[r] = "forget" /\ at \in [Requests -> {"idle", "close", "eof", "forget"}]
      /\ at' = [at EXCEPT ![r] = "idle"]
      /\ active' = IF inputOpen[r] THEN active ELSE [active EXCEPT ![p] = None]
  BY <1>1 DEF Forget, PortsInv, PortTypes, BothClosed
<1>3. UNCHANGED <<pc, answer, portOf, buffer, wire, served, incoming, rx, answers, up,
                  inputOpen, outputOpen, halves, target, handling>>
  BY DEF Forget, threadVars, accVars, spawnVars
<1>4. /\ pc[r] = "open" /\ p \in Ports
      /\ \A s \in Requests \ {r} : at[s] = "idle" /\ (portOf[s] = p => Dead(s))
      /\ \A s \in Requests : ~UnderWay(s)
  BY <1>1, <1>2 DEF PortsInv, PortTypes, CallInv, OneRequest, OneCloses, ThreadsInv
<1>5. /\ at' \in [Requests -> {"idle", "close", "eof", "forget"}]
      /\ \A s \in Requests : at'[s] = "idle"
  BY <1>2, <1>4
<1>6. active \in [Ports -> Requests \cup {None}] /\ active' \in [Ports -> Requests \cup {None}]
  BY <1>2, <1>4 DEF PortsInv, PortTypes
<1>7. PortTypes'
  BY <1>3, <1>5, <1>6 DEF PortsInv, PortTypes
<1>8. CallInv'
  BY <1>3, <1>5 DEF PortsInv, CallInv, OneRequest, OneCloses, ThreadsInv, UnderWay
<1>9. RequestInv'
  BY <1>3 DEF PortsInv, RequestInv, AskedInv, AnsweredInv, TakenInv, Given, Serving, NoAnswer
<1>10. ServedInv'
  BY <1>3 DEF PortsInv, ServedInv, TableInv, StatusInv
<1>11. \A q \in Ports : active'[q] # None =>
         active'[q] = active[q] /\ (inputOpen[active[q]] \/ Ending(q))
  <2>1. ASSUME NEW q \in Ports, active'[q] # None
        PROVE  active'[q] = active[q] /\ (inputOpen[active[q]] \/ Ending(q))
    <3>1. active'[q] = active[q] /\ (q = p => inputOpen[r])
      BY <1>2, <1>4, <1>6, <2>1
    <3>2. active[q] \in Requests /\ pc[active[q]] # "assign"
      BY <1>4, <1>6, <2>1, <3>1 DEF UnderWay
    <3>3. portOf[active[q]] = q /\ (active[q] # r => inputOpen[active[q]] \/ Ending(q))
      BY <1>4, <2>1, <3>1, <3>2 DEF PortsInv, ActiveInv
    <3>4. QED
      BY <1>1, <3>1, <3>3
  <2>2. QED
    BY <2>1
<1>12. ActiveInv'
  BY <1>3, <1>4, <1>6, <1>11 DEF PortsInv, ActiveInv, UnderWay, Ending
<1>13. EndInv'
  <2>1. EofsInv' /\ ClosesInv'
    BY <1>3 DEF PortsInv, EndInv, EofsInv, ClosesInv
  <2>2. ASSUME NEW s \in Requests, pc[s] = "open", inputOpen[s] PROVE active'[portOf[s]] = s
    <3>1. active[portOf[s]] = s /\ portOf[s] \in Ports
      BY <2>2 DEF PortsInv, EndInv, HalvesInv, CallInv, ThreadsInv, PortTypes
    <3>2. portOf[s] = p => s = r
      BY <1>4, <2>2 DEF Dead
    <3>3. QED
      BY <1>2, <1>6, <2>2, <3>1, <3>2
  <2>3. \A s \in Requests : Dead(s)' <=> Dead(s)
    BY <1>3 DEF Dead
  <2>4. HalvesInv'
    BY <1>3, <2>2, <2>3 DEF PortsInv, EndInv, HalvesInv
  <2>5. QED
    BY <2>1, <2>4 DEF EndInv
<1>14. ReceiverInv'
  BY <1>3, ReceiverFrame DEF PortsInv
<1>15. QED
  BY <1>7, <1>8, <1>9, <1>10, <1>12, <1>13, <1>14 DEF PortsInv

-----------------------------------------------------------------------------
(* The accessory.                                                          *)

\* Nothing but pings is added to the messages on the wire.
NoneSent ==
  /\ wire' \in Seq(Messages)
  /\ \A m : Has(wire', m) => Has(wire, m) \/ m = Ping
  /\ \A m, n : Behind(wire', m, n) => Behind(wire, m, n) \/ m = Ping

\* No answer is added to the frames under way.
NoneAnswered ==
  /\ incoming' \in Seq(Frames)
  /\ \A a : Answer(a) /\ Has(incoming', a) => Has(incoming, a)
  /\ \A a, b : Answer(a) /\ Answer(b) /\ Behind(incoming', b, a) => Behind(incoming, b, a)

\* Then the requests are where they were, if the accessory keeps to what it answered.
LEMMA RequestFrame ==
  ASSUME RequestInv, NoneSent, NoneAnswered, UNCHANGED <<pc, answer, answers>>,
         \A r \in Requests, a \in Frames :
           pc[r] \in {"wait", "take", "register", "assign"} /\ Given(r, a) => Given(r, a)',
         \A r \in Requests : Serving(r)' => Serving(r)
  PROVE  RequestInv'
<1>1. NoAnswer => NoAnswer'
  BY DEF NoAnswer, NoneAnswered
<1>2. AskedInv'
  BY <1>1, MessageFacts DEF RequestInv, AskedInv, NoneSent
<1>3. AnsweredInv'
  <2>1. ASSUME NEW a \in Frames, Answer(a), Has(incoming', a)
        PROVE  /\ answers = << >>
               /\ \A b \in Frames : Answer(b) => ~Behind(incoming', b, a)
               /\ \E r \in Requests : pc[r] = "wait" /\ Given(r, a)'
    <3>1. Has(incoming, a)
      BY <2>1 DEF NoneAnswered
    <3>2. PICK r \in Requests : pc[r] = "wait" /\ Given(r, a)
      BY <2>1, <3>1 DEF RequestInv, AnsweredInv
    <3>3. Given(r, a)'
      BY <2>1, <3>2
    <3>4. QED
      BY <2>1, <3>1, <3>2, <3>3 DEF RequestInv, AnsweredInv, NoneAnswered
  <2>2. QED
    BY <2>1 DEF AnsweredInv, Answer
<1>4. TakenInv'
  <2>1. ASSUME answers # << >>
        PROVE \E r \in Requests : /\ pc[r] \in {"wait", "take"}
                                  /\ Answer(answers[1]) /\ Given(r, answers[1])'
    <3>1. PICK r \in Requests : /\ pc[r] \in {"wait", "take"}
                                /\ Answer(answers[1]) /\ Given(r, answers[1])
      BY <2>1 DEF RequestInv, TakenInv
    <3>2. Given(r, answers[1])'
      BY <3>1 DEF Answer
    <3>3. QED
      BY <3>1, <3>2
  <2>2. ASSUME NEW r \in Requests, pc[r] \in {"register", "assign"}
        PROVE  Answer(answer[r]) /\ answer[r].success /\ Given(r, answer[r])'
    <3>1. Answer(answer[r]) /\ answer[r].success /\ Given(r, answer[r])
      BY <2>2 DEF RequestInv, TakenInv
    <3>2. QED
      BY <2>2, <3>1 DEF Answer
  <2>3. (answers # << >> =>
           \E r \in Requests : /\ pc[r] \in {"wait", "take"}
                               /\ Answer(answers[1]) /\ Given(r, answers[1]))'
    BY <2>1 DEF Given, Serving
  <2>4. (\A r \in Requests : pc[r] \in {"register", "assign"} =>
           Answer(answer[r]) /\ answer[r].success /\ Given(r, answer[r]))'
    BY <2>2 DEF Given, Serving
  <2>5. QED
    BY <2>3, <2>4 DEF TakenInv
<1>5. QED
  BY <1>2, <1>3, <1>4 DEF RequestInv

\* What is there with no n at all is before every n and has none behind it.
LEMMA NoneIn ==
  ASSUME NEW seq, NEW m, NEW n, Has(seq, m), ~Has(seq, n), Len(seq) \in Nat
  PROVE  Loose(seq, m, n)
<1>1. PICK i \in 1..Len(seq) : seq[i] = m
  BY DEF Has
<1>2. \A j \in (i + 1)..Len(seq) : j \in 1..Len(seq)
  OBVIOUS
<1>3. QED
  BY <1>1, <1>2 DEF Has, Loose

\* The accessory closes a half of the port of a service that Android has open, or frees
\* the port, and may tell Android so: EOF when the output is closed, CLOSE when the
\* input is.  It need not when Android closed that half itself.
Closes(p) ==
  /\ \/ /\ served' = [served EXCEPT ![p] = None]
        /\ halves' = [halves EXCEPT ![p] = Both]
     \/ /\ UNCHANGED served
        /\ \E half \in Both : halves' = [halves EXCEPT ![p] = @ \ {half}]
  /\ \/ UNCHANGED incoming
     \/ /\ incoming' = Append(incoming, Eof(p))
        /\ served'[p] = None \/ "output" \notin halves'[p]
     \/ /\ incoming' = Append(incoming, CloseOf(p))
        /\ inputOpen[served[p]] /\ "output" \in halves[p]
  /\ inputOpen[served[p]] /\ "output" \in halves[p]
       /\ (served'[p] = None \/ "output" \notin halves'[p]) =>
         incoming' = Append(incoming, Eof(p))
  /\ outputOpen[served[p]] /\ "input" \in halves[p]
       /\ (served'[p] = None \/ "input" \notin halves'[p]) =>
         incoming' = Append(incoming, CloseOf(p))

\* A half of the service on p closes on the accessory, with its status sent or not: who
\* has the other half on Android will read the status before the port is opened again.
LEMMA ClosesKeeps ==
  ASSUME PortsInv, NoneSent, NEW p \in Ports, Closes(p),
         served[p] # None, pc[served[p]] = "open",
         UNCHANGED <<pc, answer, portOf, buffer, answers, active, inputOpen, outputOpen, at, rx, target, handling>>
  PROVE  PortsInv'
<1>1. PICK s : s = served[p]
  OBVIOUS
<1>2. /\ served \in [Ports -> Requests \cup {None}] /\ halves \in [Ports -> SUBSET Both]
      /\ incoming \in Seq(Frames)
      /\ active \in [Ports -> Requests \cup {None}]
  BY DEF PortsInv, PortTypes
<1>3. s \in Requests /\ pc[s] = "open" /\ portOf[s] = p /\ s # None
  BY <1>1, <1>2 DEF PortsInv, ServedInv, TableInv
<1>4. /\ served' \in [Ports -> Requests \cup {None}] /\ halves' \in [Ports -> SUBSET Both]
      /\ \A q \in Ports \ {p} : served'[q] = served[q] /\ halves'[q] = halves[q]
      /\ \/ served'[p] = None /\ halves'[p] = Both
         \/ served'[p] = s /\ halves'[p] \subseteq halves[p]
  <2>1. CASE served' = [served EXCEPT ![p] = None] /\ halves' = [halves EXCEPT ![p] = Both]
    BY <1>2, <2>1
  <2>2. ASSUME UNCHANGED served, NEW half \in Both, halves' = [halves EXCEPT ![p] = @ \ {half}]
        PROVE  /\ halves' \in [Ports -> SUBSET Both]
               /\ \A q \in Ports \ {p} : halves'[q] = halves[q]
               /\ halves'[p] \subseteq halves[p]
    BY <1>2, <2>2
  <2>3. QED
    BY <1>1, <1>2, <2>1, <2>2 DEF Closes
<1>5. ~Has(incoming, Opened(p))
  <2>1. Answer(Opened(p))
    BY FrameFacts DEF Answer
  <2>2. ASSUME Has(incoming, Opened(p)) PROVE FALSE
    <3>1. PICK r \in Requests : pc[r] = "wait" /\ Given(r, Opened(p))
      BY <2>1, <2>2 DEF PortsInv, RequestInv, AnsweredInv, Answer
    <3>2. served[p] = r
      BY <3>1, FrameFacts DEF Given
    <3>3. QED
      BY <1>1, <1>3, <3>1, <3>2
  <2>3. QED
    BY <2>2
<1>6. /\ incoming' \in Seq(Frames)
      /\ \A m : Has(incoming', m) => \/ Has(incoming, m)
                                     \/ m = Eof(p) /\ (served'[p] = None \/ "output" \notin halves'[p])
                                     \/ m = CloseOf(p) /\ inputOpen[s] /\ "output" \in halves[p]
      /\ \A m : Has(incoming, m) => Has(incoming', m)
      /\ \A m, n : First(incoming, m, n) => First(incoming', m, n)
      /\ \A m, n : Behind(incoming', m, n) => \/ Behind(incoming, m, n)
                                              \/ m \in {Eof(p), CloseOf(p)} /\ Has(incoming, n)
      /\ \A m, n : Loose(incoming', m, n) => \/ Loose(incoming, m, n)
                                             \/ m = Eof(p) /\ (served'[p] = None \/ "output" \notin halves'[p])
                                             \/ m = CloseOf(p)
      /\ incoming' = Append(incoming, Eof(p)) => First(incoming', Eof(p), Opened(p))
      /\ incoming' = Append(incoming, CloseOf(p)) => First(incoming', CloseOf(p), Opened(p))
  <2>1. ASSUME NEW x \in Frames
        PROVE  /\ Append(incoming, x) \in Seq(Frames)
               /\ \A m : Has(Append(incoming, x), m) <=> Has(incoming, m) \/ x = m
               /\ \A m, n : First(Append(incoming, x), m, n) <=> First(incoming, m, n) \/ (x = m /\ ~Has(incoming, n))
               /\ \A m, n : Behind(Append(incoming, x), m, n) <=> Behind(incoming, m, n) \/ (x = m /\ Has(incoming, n))
               /\ \A m, n : Loose(Append(incoming, x), m, n) => x = m \/ (x # n /\ Loose(incoming, m, n))
    BY <1>2, AppendFacts
  <2>2. Eof(p) \in Frames /\ CloseOf(p) \in Frames /\ Eof(p) # CloseOf(p)
    <3>1. Eof(p).kind # CloseOf(p).kind
      BY FrameFacts
    <3>2. QED
      BY <3>1, FrameFacts
  <2>3. CASE UNCHANGED incoming /\ incoming' # Append(incoming, Eof(p))
                                /\ incoming' # Append(incoming, CloseOf(p))
    BY <1>2, <2>3
  <2>4. CASE incoming' = Append(incoming, Eof(p)) /\ (served'[p] = None \/ "output" \notin halves'[p])
    <3>1. Append(incoming, Eof(p)) # Append(incoming, CloseOf(p))
      BY <1>2, <2>2
    <3>2. QED
      BY <1>5, <2>1, <2>2, <2>4, <3>1
  <2>5. CASE incoming' = Append(incoming, CloseOf(p)) /\ inputOpen[s] /\ "output" \in halves[p]
    <3>1. Append(incoming, Eof(p)) # Append(incoming, CloseOf(p))
      BY <1>2, <2>2
    <3>2. QED
      BY <1>5, <2>1, <2>2, <2>5, <3>1
  <2>6. CASE UNCHANGED incoming
    <3>1. \A x \in Frames : Append(incoming, x) # incoming
      BY <1>2
    <3>2. QED
      BY <2>2, <2>3, <2>6, <3>1
  <2>7. QED
    BY <1>1, <2>4, <2>5, <2>6 DEF Closes
<1>7. PortTypes'
  BY <1>4, <1>6 DEF PortsInv, PortTypes, NoneSent
<1>8. CallInv'
  <2>1. OneRequest' /\ ThreadsInv'
    BY DEF PortsInv, CallInv, OneRequest, ThreadsInv, UnderWay
  <2>2. \A r \in Requests : pc[r] = "open" => portOf[r] \in Ports
    BY DEF PortsInv, PortTypes, CallInv, ThreadsInv
  <2>3. \A r \in Requests : Dead(r)' <=> Dead(r)
    BY DEF Dead
  <2>4. \A q \in Ports : served'[q] \in {served[q], None}
    BY <1>1, <1>4
  <2>5. OneCloses'
    BY <2>2, <2>3, <2>4 DEF PortsInv, CallInv, OneCloses
  <2>6. QED
    BY <2>1, <2>5 DEF CallInv
<1>9. \A r \in Requests : Serving(r)' => Serving(r)
  <2>1. ASSUME NEW r \in Requests, NEW q \in Ports, served'[q] = r PROVE served[q] = r
    <3>1. r # None
      BY RequestsAssumption
    <3>2. QED
      BY <1>1, <1>4, <2>1, <3>1
  <2>2. QED
    BY <2>1 DEF Serving
<1>10. RequestInv'
  <2>1. NoneAnswered
    <3>1. \A a : Answer(a) => a # Eof(p) /\ a # CloseOf(p)
      BY FrameFacts DEF Answer
    <3>2. QED
      BY <1>6, <3>1 DEF NoneAnswered
  <2>2. ASSUME NEW r \in Requests, NEW a \in Frames, Given(r, a),
               pc[r] \in {"wait", "take", "register", "assign"}
        PROVE  Given(r, a)'
    <3>1. CASE a.success
      <4>1. a.port \in Ports /\ served[a.port] = r /\ halves[a.port] = Both
        BY <2>2, <3>1 DEF Given
      <4>2. a.port # p
        BY <1>1, <1>3, <2>2, <4>1
      <4>3. QED
        BY <1>4, <3>1, <4>1, <4>2 DEF Given
    <3>2. CASE ~a.success
      BY <1>9, <2>2, <3>2 DEF Given
    <3>3. QED
      BY <3>1, <3>2
  <2>3. QED
    BY <1>9, <2>1, <2>2, RequestFrame DEF PortsInv
<1>11. \A q \in Ports : served'[q] # None => served'[q] = served[q]
  BY <1>1, <1>4
<1>12. ServedInv'
  <2>1. TableInv'
    <3>1. \A q \in Ports : served'[q] = None => halves'[q] = Both
      BY <1>3, <1>4 DEF PortsInv, ServedInv, TableInv
    <3>2. QED
      BY <1>11, <3>1 DEF PortsInv, ServedInv, TableInv
  <2>2. StatusInv'
    <3>1. \A q, k : k \in {"close", "eof"} => OnWire(k, q) # Ping
      BY MessageFacts
    <3>2. QED
      BY <1>11, <3>1 DEF PortsInv, ServedInv, StatusInv, NoneSent
  <2>3. QED
    BY <2>1, <2>2 DEF ServedInv
<1>13. ActiveInv'
  <2>1. \A q : Data(q) # Eof(p) /\ Data(q) # CloseOf(p)
    BY FrameFacts
  <2>2. \A q : Has(incoming', Data(q)) => Has(incoming, Data(q))
    BY <1>6, <2>1
  <2>3. QED
    BY <2>2 DEF PortsInv, ActiveInv, Ending
<1>14. \A q \in Ports \ {p} :
         /\ Eof(q) \notin {Eof(p), CloseOf(p)} /\ CloseOf(q) \notin {Eof(p), CloseOf(p)}
         /\ Opened(q) \notin {Eof(p), CloseOf(p)}
  BY FrameFacts
<1>15. /\ Opened(p) \notin {Eof(p), CloseOf(p)} /\ Eof(p) # CloseOf(p)
  <2>1. /\ Opened(p).kind # Eof(p).kind /\ Opened(p).kind # CloseOf(p).kind
        /\ Eof(p).kind # CloseOf(p).kind
    BY FrameFacts
  <2>2. QED
    BY <2>1
<1>16. EofsInv'
  <2>1. ASSUME NEW q \in Ports, served'[q] # None, "output" \in halves'[q]
        PROVE  ~Loose(incoming', Eof(q), Opened(q))
    <3>1. served[q] # None /\ "output" \in halves[q]
      BY <1>4, <1>11, <2>1
    <3>2. ~Loose(incoming, Eof(q), Opened(q))
      BY <3>1 DEF PortsInv, EndInv, EofsInv
    <3>3. CASE q = p
      BY <1>6, <1>15, <2>1, <3>2, <3>3
    <3>4. CASE q # p
      BY <1>6, <1>14, <3>2, <3>4
    <3>5. QED
      BY <3>3, <3>4
  <2>2. QED
    BY <2>1 DEF EofsInv
<1>17. ClosesInv'
  <2>1. ASSUME NEW q \in Ports, Has(incoming', CloseOf(q))
        PROVE  /\ \E r \in Requests : pc[r] = "open" /\ portOf[r] = q /\ inputOpen[r]
               /\ ~Behind(incoming', CloseOf(q), Eof(q)) /\ ~Behind(incoming', CloseOf(q), Opened(q))
    <3>1. CASE q # p
      BY <1>6, <1>14, <2>1, <3>1 DEF PortsInv, EndInv, ClosesInv
    <3>2. CASE q = p /\ Has(incoming, CloseOf(p)) /\ incoming' # Append(incoming, CloseOf(p))
      <4>1. /\ \E r \in Requests : pc[r] = "open" /\ portOf[r] = q /\ inputOpen[r]
            /\ ~Behind(incoming, CloseOf(q), Eof(q)) /\ ~Behind(incoming, CloseOf(q), Opened(q))
        BY <3>2 DEF PortsInv, EndInv, ClosesInv
      <4>2. CASE UNCHANGED incoming
        BY <4>1, <4>2
      <4>3. CASE incoming' = Append(incoming, Eof(p))
        <5>1. \A n : Behind(incoming', CloseOf(p), n) => Behind(incoming, CloseOf(p), n)
          BY <1>2, <1>15, <4>3, FrameFacts, AppendFacts
        <5>2. QED
          BY <3>2, <4>1, <5>1
      <4>4. QED
        BY <3>2, <4>2, <4>3 DEF Closes
    <3>3. CASE q = p /\ inputOpen[s] /\ "output" \in halves[p]
      <4>1. ~Has(incoming, Eof(p))
        <5>1. ~Loose(incoming, Eof(p), Opened(p))
          BY <1>1, <1>3, <3>3 DEF PortsInv, EndInv, EofsInv
        <5>2. Len(incoming) \in Nat
          BY <1>2
        <5>3. QED
          BY <1>5, <5>1, <5>2, NoneIn
      <4>2. ~Behind(incoming, CloseOf(p), Eof(p)) /\ ~Behind(incoming, CloseOf(p), Opened(p))
        BY <1>5, <4>1 DEF Behind, Has
      <4>3. QED
        BY <1>3, <1>5, <1>6, <3>3, <4>1, <4>2
    <3>4. QED
      BY <1>1, <1>6, <1>15, <2>1, <3>1, <3>2, <3>3 DEF Closes
  <2>2. QED
    BY <2>1 DEF ClosesInv
<1>18. HalvesInv'
  <2>1. \A r \in Requests : Dead(r)' <=> Dead(r)
    BY DEF Dead
  <2>2. ASSUME NEW r \in Requests, pc[r] = "open", NEW q, q = portOf[r]
        PROVE  /\ inputOpen[r] => active[q] = r
               /\ inputOpen[r] /\ (served'[q] # r \/ "output" \notin halves'[q]) =>
                    First(incoming', Eof(q), Opened(q))
               /\ outputOpen[r] /\ (served'[q] # r \/ "input" \notin halves'[q]) =>
                    First(incoming', CloseOf(q), Opened(q))
               /\ served'[q] \notin {r, None} /\ ~Has(incoming', Opened(q)) => Dead(r)
               /\ \A t \in Requests \ {r} : pc[t] = "open" /\ portOf[t] = q => Dead(t) \/ Dead(r)
    <3>1. /\ inputOpen[r] => active[q] = r
          /\ inputOpen[r] /\ (served[q] # r \/ "output" \notin halves[q]) =>
               First(incoming, Eof(q), Opened(q))
          /\ outputOpen[r] /\ (served[q] # r \/ "input" \notin halves[q]) =>
               First(incoming, CloseOf(q), Opened(q))
          /\ served[q] \notin {r, None} /\ ~Has(incoming, Opened(q)) => Dead(r)
          /\ \A t \in Requests \ {r} : pc[t] = "open" /\ portOf[t] = q => Dead(t) \/ Dead(r)
      BY <2>2 DEF PortsInv, EndInv, HalvesInv
    <3>2. q \in Ports /\ r # None
      BY <2>2, RequestsAssumption DEF PortsInv, PortTypes, CallInv, ThreadsInv
    <3>3. served'[q] \notin {r, None} /\ ~Has(incoming', Opened(q)) => Dead(r)
      BY <1>6, <1>11, <3>1, <3>2
    <3>4. CASE q # p \/ r # s
      <4>1. \A h : (served'[q] # r \/ h \notin halves'[q]) => (served[q] # r \/ h \notin halves[q])
        BY <1>1, <1>4, <3>2, <3>4
      <4>2. QED
        BY <1>6, <3>1, <3>3, <4>1
    <3>5. CASE q = p /\ r = s
      <4>1. inputOpen[s] /\ (served'[p] # s \/ "output" \notin halves'[p]) =>
               First(incoming', Eof(p), Opened(p))
        <5>1. CASE "output" \in halves[p]
          BY <1>1, <1>4, <1>6, <3>5, <5>1 DEF Closes
        <5>2. CASE "output" \notin halves[p]
          BY <1>6, <3>1, <3>5, <5>2
        <5>3. QED
          BY <5>1, <5>2
      <4>2. outputOpen[s] /\ (served'[p] # s \/ "input" \notin halves'[p]) =>
               First(incoming', CloseOf(p), Opened(p))
        <5>1. CASE "input" \in halves[p]
          BY <1>1, <1>4, <1>6, <3>5, <5>1 DEF Closes
        <5>2. CASE "input" \notin halves[p]
          BY <1>6, <3>1, <3>5, <5>2
        <5>3. QED
          BY <5>1, <5>2
      <4>3. QED
        BY <3>1, <3>3, <3>5, <4>1, <4>2
    <3>6. QED
      BY <3>4, <3>5
  <2>3. QED
    BY <2>1, <2>2 DEF HalvesInv
<1>19. ReceiverInv'
  <2>1. UNCHANGED incoming \/ \E x \in Frames : incoming' = Append(incoming, x)
    BY FrameFacts DEF Closes
  <2>2. QED
    BY <2>1, ReceiverFrame DEF PortsInv
<1>20. QED
  BY <1>7, <1>8, <1>10, <1>12, <1>13, <1>16, <1>17, <1>18, <1>19 DEF PortsInv, EndInv

\* Traffic that concerns no port's opening or closing: pings, pongs, and data of a
\* service whose port Android is not closing.
LEMMA TrafficKeeps ==
  ASSUME PortsInv, NoneSent,
         \/ UNCHANGED incoming
         \/ \E x \in Frames :
              /\ incoming' = Append(incoming, x)
              /\ \/ x = Pong
                 \/ \E p \in Ports : x = Data(p) /\ served[p] # None /\ at[served[p]] = "idle",
         UNCHANGED <<pc, answer, portOf, buffer, answers, served, active, inputOpen, outputOpen,
                     at, halves, rx, target, handling>>
  PROVE  PortsInv'
<1>1. incoming \in Seq(Frames) /\ wire \in Seq(Messages)
  BY DEF PortsInv, PortTypes
<1>2. /\ incoming' \in Seq(Frames)
      /\ \A m : Has(incoming, m) => Has(incoming', m)
      /\ \A m : Has(incoming', m) => \/ Has(incoming, m) \/ m = Pong
                                     \/ \E p \in Ports : m = Data(p) /\ served[p] # None /\ at[served[p]] = "idle"
      /\ \A m, n : First(incoming, m, n) => First(incoming', m, n)
      /\ \A m, n : Behind(incoming', m, n) => Behind(incoming, m, n) \/ m.kind \in {"pong", "data"}
      /\ \A m, n : Loose(incoming', m, n) => Loose(incoming, m, n) \/ m.kind \in {"pong", "data"}
  <2>1. CASE UNCHANGED incoming
    BY <1>1, <2>1
  <2>2. ASSUME NEW x \in Frames, incoming' = Append(incoming, x),
               \/ x = Pong
               \/ \E p \in Ports : x = Data(p) /\ served[p] # None /\ at[served[p]] = "idle"
        PROVE  /\ incoming' \in Seq(Frames)
               /\ \A m : Has(incoming', m) <=> Has(incoming, m) \/ m = x
               /\ \A m, n : First(incoming, m, n) => First(incoming', m, n)
               /\ \A m, n : Behind(incoming', m, n) => Behind(incoming, m, n) \/ m = x
               /\ \A m, n : Loose(incoming', m, n) => Loose(incoming, m, n) \/ m = x
               /\ x.kind \in {"pong", "data"}
    <3>1. x.kind \in {"pong", "data"}
      BY <2>2, FrameFacts
    <3>2. QED
      BY <1>1, <2>2, <3>1, AppendFacts
  <2>3. QED
    BY <2>1, <2>2
<1>3. \A p : /\ Eof(p).kind \notin {"pong", "data"} /\ CloseOf(p).kind \notin {"pong", "data"}
             /\ Opened(p).kind \notin {"pong", "data"}
  BY FrameFacts
<1>4. \A m : Has(incoming', m) => Has(incoming, m) \/ m.kind \in {"pong", "data"}
  BY <1>2, FrameFacts
<1>5. PortTypes'
  BY <1>2 DEF PortsInv, PortTypes, NoneSent
<1>6. CallInv'
  BY DEF PortsInv, CallInv, OneRequest, OneCloses, ThreadsInv, UnderWay, Dead
<1>7. RequestInv'
  <2>1. NoneAnswered
    BY <1>2, <1>4 DEF NoneAnswered, Answer
  <2>2. QED
    BY <2>1, RequestFrame DEF PortsInv, Given, Serving
<1>8. ServedInv'
  <2>1. \A q, k : k \in {"close", "eof"} => OnWire(k, q) # Ping
    BY MessageFacts
  <2>2. QED
    BY <2>1 DEF PortsInv, ServedInv, TableInv, StatusInv, NoneSent
<1>9. ActiveInv'
  <2>1. ASSUME NEW p \in Ports, active[p] # None,
               at[active[p]] \in {"close", "forget"}, pc[active[p]] = "open", portOf[active[p]] = p,
               ~Has(incoming, Data(p))
        PROVE  ~Has(incoming', Data(p))
    <3>1. active[p] \in Requests
      BY <2>1 DEF PortsInv, PortTypes
    <3>2. served[p] \in {active[p], None}
      BY <2>1, <3>1 DEF PortsInv, CallInv, OneCloses
    <3>3. \A q \in Ports : Data(q) = Data(p) => q = p
      BY FrameFacts
    <3>4. Data(p) # Pong
      BY FrameFacts
    <3>5. QED
      BY <1>2, <2>1, <3>2, <3>3, <3>4
  <2>2. QED
    BY <2>1 DEF PortsInv, ActiveInv, Ending
<1>10. EndInv'
  <2>1. EofsInv'
    BY <1>2, <1>3 DEF PortsInv, EndInv, EofsInv
  <2>2. ClosesInv'
    BY <1>2, <1>3, <1>4 DEF PortsInv, EndInv, ClosesInv
  <2>3. HalvesInv'
    <3>1. \A r \in Requests : Dead(r)' <=> Dead(r)
      BY DEF Dead
    <3>2. QED
      BY <1>2, <3>1 DEF PortsInv, EndInv, HalvesInv
  <2>4. QED
    BY <2>1, <2>2, <2>3 DEF EndInv
<1>11. ReceiverInv'
  BY ReceiverFrame DEF PortsInv
<1>12. QED
  BY <1>5, <1>6, <1>7, <1>8, <1>9, <1>10, <1>11 DEF PortsInv

\* How the wire may change.
LEMMA WireFacts ==
  ASSUME PortTypes,
         \/ UNCHANGED wire \/ wire' = << >>
         \/ wire # << >> /\ wire' = Tail(wire)
         \/ wire' = Append(wire, Ping)
  PROVE  NoneSent
<1>1. wire \in Seq(Messages) /\ Ping \in Messages
  BY MessageFacts DEF PortTypes
<1>2. CASE UNCHANGED wire
  BY <1>1, <1>2 DEF NoneSent
<1>3. CASE wire' = << >>
  <2>1. << >> \in Seq(Messages) /\ Len(<< >>) = 0 /\ 1..0 = {}
    OBVIOUS
  <2>2. \A m, n : ~Has(wire', m) /\ ~Behind(wire', m, n)
    BY <1>3, <2>1 DEF Has, Behind
  <2>3. QED
    BY <1>3, <2>1, <2>2 DEF NoneSent
<1>4. CASE wire # << >> /\ wire' = Tail(wire)
  BY <1>1, <1>4, TailFacts DEF NoneSent
<1>5. CASE wire' = Append(wire, Ping)
  BY <1>1, <1>5, AppendFacts DEF NoneSent
<1>6. QED
  BY <1>2, <1>3, <1>4, <1>5

\* The services' traffic and the keepalive's, and an accessory that falls silent.
LEMMA TrafficSteps ==
  ASSUME PortsInv, ~Crossing, up', up,
         \/ \E p \in Ports : Sends(p)
         \/ KeepaliveOnBytesReceived \/ KeepaliveStep \/ LinkFails
  PROVE  PortsInv'
<1> USE DEF portVars, threadVars, spawnVars, accVars
<1>1. PortTypes
  BY DEF PortsInv
<1>2. ASSUME NEW p \in Ports, Sends(p) PROVE PortsInv'
  <2>1. /\ served[p] # None /\ at[served[p]] = "idle"
        /\ incoming' = Append(incoming, Data(p))
        /\ UNCHANGED <<pc, answer, portOf, buffer, wire, answers, served, active, inputOpen, outputOpen,
                       at, halves, rx, target, handling>>
    BY <1>2 DEF Sends, ServiceSends, Data
  <2>2. Data(p) \in Frames
    BY FrameFacts
  <2>3. QED
    BY <1>1, <2>1, <2>2, WireFacts, TrafficKeeps
<1>3. CASE KeepaliveOnBytesReceived
  <2>1. /\ wire # << >> /\ wire' = Tail(wire)
        /\ incoming' = Append(incoming, Pong)
        /\ UNCHANGED <<pc, answer, portOf, buffer, answers, served, active, inputOpen, outputOpen,
                       at, halves, rx, target, handling>>
    BY <1>3 DEF KeepaliveOnBytesReceived
  <2>2. QED
    BY <1>1, <2>1, FrameFacts, WireFacts, TrafficKeeps
<1>4. CASE KeepaliveStep
  <2>1. /\ UNCHANGED wire \/ wire' = Append(wire, Ping)
        /\ UNCHANGED <<pc, answer, portOf, buffer, answers, served, active, inputOpen, outputOpen,
                       at, halves, rx, incoming, target, handling>>
    BY <1>4 DEF KeepaliveStep, Construct, Tick, sendKeepalive, handleMessage, Cut, vars, Sent
  <2>2. QED
    BY <1>1, <2>1, WireFacts, TrafficKeeps
<1>5. CASE LinkFails
  <2>1. /\ wire' = << >>
        /\ UNCHANGED <<pc, answer, portOf, buffer, answers, served, active, inputOpen, outputOpen,
                       at, halves, rx, incoming, target, handling>>
    BY <1>5 DEF LinkFails, Lost, FallsSilent, Cut
  <2>2. QED
    BY <1>1, <2>1, WireFacts, TrafficKeeps
<1>6. QED
  BY <1>2, <1>3, <1>4, <1>5

\* A payload closes one of its fifos.
LEMMA EndsKeeps ==
  ASSUME PortsInv, ~Crossing, ~CloseLast, NEW p \in Ports, sendEof(p) \/ sendClose(p)
  PROVE  PortsInv'
<1> USE DEF portVars, threadVars, spawnVars
<1>1. /\ served[p] # None /\ pc[served[p]] = "open"
      /\ UNCHANGED <<pc, answer, portOf, buffer, wire, answers, active, inputOpen, outputOpen, at, rx, target, handling>>
  BY DEF sendEof, sendClose, Ends
<1>2. halves \in [Ports -> SUBSET Both] /\ served \in [Ports -> Requests \cup {None}]
  BY DEF PortsInv, PortTypes
<1>3. NoneSent
  BY <1>1, WireFacts DEF PortsInv
<1>4. served[p] # None => served[p] \in Requests
  BY <1>2
<1>5. ASSUME sendEof(p) PROVE Closes(p)
  <2>1. /\ "output" \in halves[p] /\ incoming' = Append(incoming, Eof(p))
        /\ CloseHalf(p, "output")
    BY <1>5 DEF sendEof, Ends, Eof
  <2>2. CASE halves[p] \subseteq {"output"}
    <3>1. served' = [served EXCEPT ![p] = None] /\ halves' = [halves EXCEPT ![p] = Both]
      BY <2>1, <2>2 DEF CloseHalf, Both
    <3>2. served'[p] = None /\ "input" \notin halves[p]
      BY <1>2, <2>2, <3>1
    <3>3. QED
      BY <2>1, <3>1, <3>2 DEF Closes
  <2>3. CASE ~(halves[p] \subseteq {"output"})
    <3>1. served' = served /\ halves' = [halves EXCEPT ![p] = @ \ {"output"}]
      BY <2>1, <2>3 DEF CloseHalf
    <3>2. "output" \notin halves'[p] /\ ("input" \in halves[p] => "input" \in halves'[p])
      BY <1>2, <3>1
    <3>3. QED
      BY <1>1, <2>1, <3>1, <3>2 DEF Closes, Both
  <2>4. QED
    BY <2>2, <2>3
<1>6. ASSUME sendClose(p) PROVE Closes(p)
  <2>1. /\ "input" \in halves[p] /\ incoming' = Append(incoming, CloseOf(p))
        /\ inputOpen[served[p]] /\ "output" \in halves[p]
        /\ CloseHalf(p, "input")
    BY <1>6 DEF sendClose, Ends, CloseOf
  <2>2. served' = served /\ halves' = [halves EXCEPT ![p] = @ \ {"input"}]
    BY <2>1 DEF CloseHalf
  <2>3. "output" \in halves'[p]
    BY <1>2, <2>1, <2>2
  <2>4. QED
    BY <1>1, <2>1, <2>2, <2>3 DEF Closes, Both
<1>7. QED
  BY <1>1, <1>3, <1>5, <1>6, ClosesKeeps

\* A status of Android arrives: at the service it was meant for, or at none.
LEMMA onStatusKeeps ==
  ASSUME PortsInv, onStatus
  PROVE  PortsInv'
<1> USE DEF portVars, threadVars, spawnVars
<1>1. PICK m : m = Head(wire)
  OBVIOUS
<1>2. /\ wire # << >> /\ wire' = Tail(wire) /\ m.kind \in {"close", "eof"} /\ m \notin Requests
      /\ UNCHANGED <<pc, answer, portOf, buffer, answers, active, inputOpen, outputOpen, at, rx, target, handling>>
  BY <1>1 DEF onStatus
<1>3. PortTypes
  BY DEF PortsInv
<1>4. wire \in Seq(Messages) /\ m \in Messages /\ Has(wire, m)
  BY <1>1, <1>2, <1>3, TailFacts DEF PortTypes
<1>5. PICK p : p = m.port
  OBVIOUS
<1>6. p \in Ports /\ m = OnWire(m.kind, p)
  BY <1>2, <1>4, <1>5, MessageFacts
<1>7. NoneSent
  BY <1>2, <1>3, WireFacts
<1>8. CASE served[p] = None
  <2>1. UNCHANGED <<served, halves, incoming>>
    BY <1>1, <1>5, <1>8 DEF onStatus
  <2>2. QED
    BY <1>2, <1>7, <2>1, TrafficKeeps
<1>9. CASE served[p] # None
  <2>1. /\ pc[served[p]] = "open"
        /\ m.kind = "close" => ~inputOpen[served[p]]
        /\ m.kind = "eof" => ~outputOpen[served[p]]
    BY <1>2, <1>4, <1>6, <1>9 DEF PortsInv, ServedInv, StatusInv
  <2>2. halves \in [Ports -> SUBSET Both] /\ served \in [Ports -> Requests \cup {None}]
    BY <1>3 DEF PortTypes
  <2>3. PICK half : half = IF m.kind = "eof" THEN "input" ELSE "output"
    OBVIOUS
  <2>4. ASSUME CloseHalf(p, half), UNCHANGED incoming PROVE Closes(p)
    <3>1. CASE halves[p] \subseteq {half}
      <4>1. served' = [served EXCEPT ![p] = None] /\ halves' = [halves EXCEPT ![p] = Both]
        BY <2>4, <3>1 DEF CloseHalf, Both
      <4>2. QED
        BY <1>2, <2>1, <2>3, <2>4, <3>1, <4>1 DEF Closes
    <3>2. CASE ~(halves[p] \subseteq {half})
      <4>1. served' = served /\ halves' = [halves EXCEPT ![p] = @ \ {half}]
        BY <2>4, <3>2 DEF CloseHalf
      <4>2. \A h \in Both : h \in halves[p] /\ h # half => h \in halves'[p]
        BY <1>6, <2>2, <4>1
      <4>3. half \in Both
        BY <2>3 DEF Both
      <4>4. served'[p] # None
        BY <1>9, <4>1
      <4>5. QED
        BY <1>2, <2>1, <2>3, <2>4, <4>1, <4>2, <4>3, <4>4 DEF Closes, Both
    <3>3. QED
      BY <3>1, <3>2
  <2>5. ASSUME m.kind = "eof", served' = [served EXCEPT ![p] = None], halves' = [halves EXCEPT ![p] = Both],
               incoming' = Append(incoming, Eof(p))
        PROVE  Closes(p)
    <3>1. served'[p] = None
      BY <1>6, <2>2, <2>5
    <3>2. QED
      BY <2>1, <2>5, <3>1 DEF Closes
  <2>6. Closes(p)
    BY <1>1, <1>5, <1>9, <2>3, <2>4, <2>5 DEF onStatus, Eof, Both
  <2>7. QED
    BY <1>2, <1>6, <1>7, <1>9, <2>1, <2>6, ClosesKeeps
<1>10. QED
  BY <1>8, <1>9

\* A set of natural numbers that is not empty has a least element.
LEMMA LeastNatural ==
  ASSUME NEW S \in SUBSET Nat, S # {}
  PROVE  \E m \in S : \A n \in S : m <= n
<1>1. PICK m \in S : \A n \in S : <<n, m>> \notin OpToRel(<, Nat)
  BY NatLessThanWellFounded, WFMin
<1>2. ASSUME NEW n \in S, n < m PROVE FALSE
  <2>1. <<n, m>> \in OpToRel(<, Nat)
    BY <1>2 DEF OpToRel
  <2>2. QED
    BY <1>1, <2>1
<1>3. QED
  BY <1>2

\* There are as many ports as requests: there is one for a service that has none.
LEMMA FreePort ==
  ASSUME PortTypes, TableInv, NEW r \in Requests, ~Serving(r)
  PROVE  LET p == CHOOSE q \in Ports : served[q] = None /\ \A o \in 1..(q - 1) : served[o] # None
         IN p \in Ports /\ served[p] = None
<1> DEFINE free == {q \in Ports : served[q] = None}
<1>1. /\ Cardinality(Requests) \in Nat /\ Ports \subseteq Nat
      /\ IsFiniteSet(Ports) /\ Cardinality(Ports) = Cardinality(Requests)
  <2>1. Cardinality(Requests) \in Nat
    BY RequestsAssumption, FS_CardinalityType
  <2>2. IsFiniteSet(1..Cardinality(Requests)) /\ Cardinality(1..Cardinality(Requests)) = Cardinality(Requests)
    BY <2>1, FS_Interval
  <2>3. QED
    BY <2>1, <2>2 DEF Ports
<1>2. free # {}
  <2> SUFFICES ASSUME \A q \in Ports : served[q] # None PROVE FALSE
    OBVIOUS
  <2>1. served \in [Ports -> Requests \ {r}]
    BY DEF PortTypes, Serving
  <2>2. IsFiniteSet(Requests \ {r}) /\ Cardinality(Requests \ {r}) < Cardinality(Ports)
    <3>1. IsFiniteSet(Requests \ {r}) /\ Cardinality(Requests \ {r}) = Cardinality(Requests) - 1
      BY RequestsAssumption, FS_RemoveElement
    <3>2. QED
      BY <1>1, <3>1
  <2>3. PICK p, q \in Ports : p # q /\ served[p] = served[q]
    BY <1>1, <2>1, <2>2, FS_PigeonHole
  <2>4. QED
    BY <2>3 DEF TableInv
<1>3. PICK q \in free : \A o \in free : q <= o
  <2>1. free \in SUBSET Nat
    BY <1>1
  <2> HIDE DEF free
  <2>2. QED
    BY <1>2, <2>1, LeastNatural
<1>4. \A o \in 1..(q - 1) : o \in Ports /\ ~(q <= o)
  BY <1>1, <1>3 DEF Ports
<1>5. served[q] = None /\ \A o \in 1..(q - 1) : served[o] # None
  BY <1>3, <1>4
<1>6. \E p \in Ports : served[p] = None /\ \A o \in 1..(p - 1) : served[o] # None
  BY <1>3, <1>5
<1>7. QED
  BY <1>6

\* Who is behind something is in the sequence, and so is what it is behind.
LEMMA BehindIsIn ==
  ASSUME NEW seq, NEW m, NEW n, Behind(seq, m, n)
  PROVE  Has(seq, m) /\ Has(seq, n)
BY DEF Behind, Has

\* A request is answered: with a port that is free and has been told to nobody yet, or
\* with a denial.
LEMMA AnswersKeeps ==
  ASSUME PortsInv, Answers
  PROVE  PortsInv'
<1> USE DEF portVars, threadVars, spawnVars
<1>1. PICK r : r = Head(wire)
  OBVIOUS
<1>2. /\ wire # << >> /\ wire' = Tail(wire)
      /\ UNCHANGED <<pc, answer, portOf, buffer, answers, active, inputOpen, outputOpen, at, halves, rx, target, handling>>
  BY DEF Answers, ServiceSpawnerOnBytesReceived
<1>3. PortTypes
  BY DEF PortsInv
<1>4. CASE UNCHANGED <<served, incoming>>
  BY <1>2, <1>3, <1>4, WireFacts, TrafficKeeps
<1>5. ASSUME r \in Requests, NEW p, NEW ok \in BOOLEAN,
             p = (CHOOSE q \in Ports : served[q] = None /\ \A o \in 1..(q - 1) : served[o] # None),
             served' = (IF ok THEN [served EXCEPT ![p] = r] ELSE served),
             incoming' = Append(incoming, Frame("answer", p, ok))
      PROVE  PortsInv'
  <2>1. /\ wire \in Seq(Messages) /\ wire' \in Seq(Messages) /\ Has(wire, r)
        /\ \A m : Has(wire', m) => Behind(wire, m, r) /\ Has(wire, m)
    BY <1>1, <1>2, <1>3, TailFacts DEF PortTypes
  <2>2. pc[r] = "wait" /\ ~Serving(r) /\ NoAnswer /\ answers = << >>
    BY <1>5, <2>1 DEF PortsInv, RequestInv, AskedInv
  <2>3. \A m : Has(wire', m) => m = Ping
    <3>1. \A m : Has(wire, m) => m \in Messages
      BY <2>1 DEF Has
    <3>2. QED
      BY <1>5, <2>1, <3>1 DEF PortsInv, RequestInv, AskedInv
  <2>4. p \in Ports /\ served[p] = None /\ halves[p] = Both
    BY <1>3, <1>5, <2>2, FreePort DEF PortsInv, ServedInv, TableInv
  <2>5. \A s \in Requests : at[s] = "idle" /\ (s # r => ~UnderWay(s))
    BY <1>5, <2>2 DEF PortsInv, CallInv, OneRequest, UnderWay
  <2>6. r # None
    BY <1>5, RequestsAssumption
  <2>7. /\ served \in [Ports -> Requests \cup {None}] /\ served' \in [Ports -> Requests \cup {None}]
        /\ \A q \in Ports : served'[q] = IF ok /\ q = p THEN r ELSE served[q]
    BY <1>3, <1>5, <2>4 DEF PortTypes
  <2>8. PICK x : x = Frame("answer", p, ok)
    OBVIOUS
  <2>9. /\ x \in Frames /\ Answer(x) /\ x.success = ok /\ x.port = p
        /\ ok => x = Opened(p)
    BY <2>4, <2>8, FrameFacts DEF Answer, Frame, Opened
  <2>10. /\ incoming' \in Seq(Frames)
         /\ \A m : Has(incoming', m) <=> Has(incoming, m) \/ m = x
         /\ \A m, n : First(incoming, m, n) => First(incoming', m, n)
         /\ \A m, n : Behind(incoming', m, n) => Behind(incoming, m, n) \/ (m = x /\ Has(incoming, n))
         /\ \A m, n : Loose(incoming', m, n) => m = x \/ (n # x /\ Loose(incoming, m, n))
    <3>1. incoming \in Seq(Frames) /\ incoming' = Append(incoming, x)
      BY <1>3, <1>5, <2>8 DEF PortTypes
    <3>2. QED
      BY <2>9, <3>1, AppendFacts
  <2>11. \A q : Eof(q) # x /\ CloseOf(q) # x /\ Data(q) # x
    BY <2>9, FrameFacts DEF Answer
  <2>12. PortTypes'
    BY <1>2, <1>3, <2>1, <2>7, <2>10 DEF PortTypes
  <2>13. CallInv'
    BY <1>2, <2>5 DEF PortsInv, CallInv, OneRequest, OneCloses, ThreadsInv, UnderWay
  <2>14. RequestInv'
    <3>1. AskedInv'
      BY <2>3, MessageFacts DEF AskedInv
    <3>2. Given(r, x)'
      <4>1. CASE ok
        BY <1>2, <2>4, <2>7, <2>9, <4>1 DEF Given
      <4>2. CASE ~ok
        BY <1>2, <2>2, <2>7, <2>9, <4>2 DEF Given, Serving
      <4>3. QED
        BY <4>1, <4>2
    <3>3. \A a \in Frames : Answer(a) /\ Has(incoming', a) => a = x
      BY <2>2, <2>10 DEF NoAnswer
    <3>4. \A b \in Frames : Answer(b) => ~Behind(incoming', b, x)
      BY <2>2, <2>9, <2>10, BehindIsIn DEF NoAnswer
    <3>5. AnsweredInv'
      BY <1>2, <1>5, <2>2, <3>2, <3>3, <3>4 DEF AnsweredInv, Answer
    <3>6. TakenInv'
      <4>1. \A s \in Requests : pc[s] \notin {"register", "assign"}
        BY <2>2, <2>5 DEF UnderWay
      <4>2. QED
        BY <1>2, <2>2, <4>1 DEF TakenInv
    <3>7. QED
      BY <3>1, <3>5, <3>6 DEF RequestInv
  <2>15. ServedInv'
    <3>1. StatusInv'
      <4>1. \A k, q : k \in {"close", "eof"} => OnWire(k, q) # Ping
        BY MessageFacts
      <4>2. QED
        BY <2>3, <4>1 DEF StatusInv
    <3>2. TableInv'
      <4>1. \A q \in Ports : served[q] # r
        BY <2>2 DEF Serving
      <4>2. QED
        BY <1>2, <2>2, <2>4, <2>7, <4>1 DEF PortsInv, ServedInv, TableInv
    <3>3. QED
      BY <3>1, <3>2 DEF ServedInv
  <2>16. ActiveInv'
    BY <1>2, <2>10, <2>11 DEF PortsInv, ActiveInv, Ending
  <2>17. EndInv'
    <3>1. EofsInv'
      <4>1. ASSUME NEW q \in Ports, served'[q] # None, "output" \in halves[q]
            PROVE  ~Loose(incoming', Eof(q), Opened(q))
        <5>1. CASE q = p /\ ok
          BY <2>9, <2>10, <2>11, <5>1
        <5>2. CASE ~(q = p /\ ok)
          <6>1. ~Loose(incoming, Eof(q), Opened(q))
            BY <2>7, <4>1, <5>2 DEF PortsInv, EndInv, EofsInv
          <6>2. QED
            BY <2>10, <2>11, <6>1
        <5>3. QED
          BY <5>1, <5>2
      <4>2. QED
        BY <1>2, <4>1 DEF EofsInv
    <3>2. ClosesInv'
      BY <1>2, <2>10, <2>11 DEF PortsInv, EndInv, ClosesInv
    <3>3. HalvesInv'
      <4>1. \A s \in Requests : Dead(s)' <=> Dead(s)
        BY <1>2 DEF Dead
      <4>2. ASSUME NEW s \in Requests, pc[s] = "open", NEW q, q = portOf[s]
            PROVE  /\ inputOpen[s] => active[q] = s
                   /\ inputOpen[s] /\ (served'[q] # s \/ "output" \notin halves[q]) =>
                        First(incoming', Eof(q), Opened(q))
                   /\ outputOpen[s] /\ (served'[q] # s \/ "input" \notin halves[q]) =>
                        First(incoming', CloseOf(q), Opened(q))
                   /\ served'[q] \notin {s, None} /\ ~Has(incoming', Opened(q)) => Dead(s)
                   /\ \A t \in Requests \ {s} : pc[t] = "open" /\ portOf[t] = q => Dead(t) \/ Dead(s)
        <5>1. q \in Ports /\ s # None /\ s # r
          BY <2>2, <4>2, RequestsAssumption DEF PortsInv, PortTypes, CallInv, ThreadsInv
        <5>2. served'[q] # s => served[q] # s
          BY <2>4, <2>7, <5>1
        <5>3. served'[q] \notin {s, None} /\ ~Has(incoming', Opened(q)) =>
                served[q] \notin {s, None} /\ ~Has(incoming, Opened(q))
          BY <2>7, <2>9, <2>10, <5>1
        <5>4. QED
          BY <2>10, <4>2, <5>2, <5>3 DEF PortsInv, EndInv, HalvesInv
      <4>3. QED
        BY <1>2, <4>1, <4>2 DEF HalvesInv
    <3>4. QED
      BY <3>1, <3>2, <3>3 DEF EndInv
  <2>18. ReceiverInv'
    BY <1>2, <1>5, <2>8, <2>9, ReceiverFrame DEF PortsInv, Answer
  <2>19. QED
    BY <2>12, <2>13, <2>14, <2>15, <2>16, <2>17, <2>18 DEF PortsInv
<1>6. QED
  BY <1>1, <1>4, <1>5 DEF Answers, ServiceSpawnerOnBytesReceived

-----------------------------------------------------------------------------
(* The receiver.                                                           *)

\* A frame leaves the head of those under way.
Reads(h) ==
  /\ h \in Frames /\ incoming' \in Seq(Frames)
  /\ \A m : Has(incoming, m) <=> h = m \/ Has(incoming', m)
  /\ \A m, n : First(incoming, m, n) => h = m \/ (h # n /\ First(incoming', m, n))
  /\ \A m, n : Behind(incoming', m, n) => Behind(incoming, m, n)
  /\ \A m, n : h = n /\ Has(incoming', m) => Behind(incoming, m, n)
  /\ \A m, n : Loose(incoming', m, n) => Loose(incoming, m, n)

\* What the receiver takes from the connection was its first frame.
LEMMA ReadsFacts ==
  ASSUME PortTypes, incoming # << >>, incoming' = Tail(incoming)
  PROVE  Reads(Head(incoming))
<1>1. incoming \in Seq(Frames)
  BY DEF PortTypes
<1>2. QED
  BY <1>1, TailFacts DEF Reads

\* Data, pongs and answers end no half: with the answer that opens a port anew, the
\* services that had it are over.
LEMMA EndTail ==
  ASSUME EndInv, NEW h, Reads(h), h.kind \in {"pong", "data", "answer"},
         UNCHANGED <<pc, portOf, inputOpen, outputOpen, active, served, halves>>
  PROVE  EndInv'
<1>1. \A p : Eof(p) # h /\ CloseOf(p) # h
  BY FrameFacts
<1>2. EofsInv'
  BY DEF EndInv, EofsInv, Reads
<1>3. ClosesInv'
  BY DEF EndInv, ClosesInv, Reads
<1>4. HalvesInv'
  <2>1. \A r \in Requests : Dead(r)' <=> Dead(r)
    BY DEF Dead
  <2>2. ASSUME NEW r \in Requests, pc[r] = "open", NEW p, p = portOf[r]
        PROVE  /\ inputOpen[r] => active[p] = r
               /\ inputOpen[r] /\ (served[p] # r \/ "output" \notin halves[p]) =>
                    First(incoming', Eof(p), Opened(p))
               /\ outputOpen[r] /\ (served[p] # r \/ "input" \notin halves[p]) =>
                    First(incoming', CloseOf(p), Opened(p))
               /\ served[p] \notin {r, None} /\ ~Has(incoming', Opened(p)) => Dead(r)
               /\ \A s \in Requests \ {r} : pc[s] = "open" /\ portOf[s] = p => Dead(s) \/ Dead(r)
    <3>1. /\ inputOpen[r] => active[p] = r
          /\ inputOpen[r] /\ (served[p] # r \/ "output" \notin halves[p]) =>
               First(incoming, Eof(p), Opened(p))
          /\ outputOpen[r] /\ (served[p] # r \/ "input" \notin halves[p]) =>
               First(incoming, CloseOf(p), Opened(p))
          /\ served[p] \notin {r, None} /\ ~Has(incoming, Opened(p)) => Dead(r)
          /\ \A s \in Requests \ {r} : pc[s] = "open" /\ portOf[s] = p => Dead(s) \/ Dead(r)
      BY <2>2 DEF EndInv, HalvesInv
    <3>2. /\ First(incoming, Eof(p), Opened(p)) => First(incoming', Eof(p), Opened(p)) /\ h # Opened(p)
          /\ First(incoming, CloseOf(p), Opened(p)) => First(incoming', CloseOf(p), Opened(p)) /\ h # Opened(p)
      BY <1>1 DEF Reads
    <3>3. ASSUME served[p] \notin {r, None}, ~Has(incoming', Opened(p)) PROVE Dead(r)
      <4>1. CASE h = Opened(p)
        BY <3>1, <3>2, <3>3, <4>1 DEF Dead
      <4>2. CASE h # Opened(p)
        BY <3>1, <3>3, <4>2 DEF Reads
      <4>3. QED
        BY <4>1, <4>2
    <3>4. QED
      BY <3>1, <3>2, <3>3
  <2>3. QED
    BY <2>1, <2>2 DEF HalvesInv
<1>5. QED
  BY <1>2, <1>3, <1>4 DEF EndInv

\* Then no answer is added.
LEMMA ReadsNone ==
  ASSUME NEW h, Reads(h)
  PROVE  NoneAnswered
BY DEF Reads, NoneAnswered

\* Data and pongs.
LEMMA ReadKeeps ==
  ASSUME PortsInv, NEW h, Reads(h), h.kind \in {"pong", "data"}, rx \in {"read", "found"}, rx' = "read",
         UNCHANGED <<pc, answer, portOf, buffer, wire, answers, served, active, inputOpen, outputOpen,
                     at, halves, handling>>
  PROVE  PortsInv'
<1>1. PortTypes'
  BY DEF PortsInv, PortTypes, Reads
<1>2. CallInv'
  BY DEF PortsInv, CallInv, OneRequest, OneCloses, ThreadsInv, UnderWay, Dead
<1>3. RequestInv'
  <2>1. NoneSent /\ NoneAnswered
    BY WireFacts, ReadsNone DEF PortsInv
  <2>2. QED
    BY <2>1, RequestFrame DEF PortsInv, Given, Serving
<1>4. ServedInv'
  BY DEF PortsInv, ServedInv, TableInv, StatusInv
<1>5. ActiveInv'
  <2>1. \A m : Has(incoming', m) => Has(incoming, m)
    BY DEF Reads
  <2>2. QED
    BY <2>1 DEF PortsInv, ActiveInv, Ending
<1>6. EndInv'
  BY EndTail DEF PortsInv
<1>7. ReceiverInv'
  <2>1. (rx \notin {"found", "flagged", "cleanup"})'
    OBVIOUS
  <2>2. QED
    BY <2>1 DEF ReceiverInv, StageInv, TargetInv
<1>8. QED
  BY <1>1, <1>2, <1>3, <1>4, <1>5, <1>6, <1>7 DEF PortsInv

\* An answer, which the receiver hands to the thread that waits.
LEMMA ReadAnswerKeeps ==
  ASSUME PortsInv, ReadAnswer, UNCHANGED <<portVars, keepVars>>
  PROVE  PortsInv'
<1> USE DEF portVars, threadVars, accVars
<1>1. PICK h : h = Head(incoming)
  OBVIOUS
<1>2. /\ incoming # << >> /\ incoming' = Tail(incoming) /\ h.kind = "answer"
      /\ rx = "read"
      /\ answers' = Append(answers, h) /\ rx' = "handed"
      /\ UNCHANGED <<pc, answer, portOf, buffer, wire, served, active, inputOpen, outputOpen, at, halves, target, handling>>
  BY <1>1 DEF ReadAnswer, HandOver
<1>3. Reads(h)
  BY <1>1, <1>2, ReadsFacts DEF PortsInv
<1>4. Answer(h) /\ Has(incoming, h)
  BY <1>2, <1>3 DEF Reads, Answer
<1>5. /\ answers = << >>
      /\ \A b \in Frames : Answer(b) => ~Behind(incoming, b, h)
      /\ \E r \in Requests : pc[r] = "wait" /\ Given(r, h)
  BY <1>4 DEF PortsInv, RequestInv, AnsweredInv, Answer
<1>6. PICK r \in Requests : pc[r] = "wait" /\ Given(r, h)
  BY <1>5
<1>7. answers' = <<h>>
  BY <1>2, <1>5
<1>8. NoAnswer'
  BY <1>3, <1>5 DEF NoAnswer, Reads
<1>9. PortTypes'
  BY <1>2, <1>3 DEF PortsInv, PortTypes, Reads
<1>10. CallInv'
  BY <1>2 DEF PortsInv, CallInv, OneRequest, OneCloses, ThreadsInv, UnderWay, Dead
<1>11. RequestInv'
  <2>1. \A s \in Requests : ~Has(wire, s)
    BY <1>4 DEF PortsInv, RequestInv, AskedInv, NoAnswer, Answer
  <2>2. AskedInv' /\ AnsweredInv'
    BY <1>2, <1>8, <2>1 DEF AskedInv, AnsweredInv, NoAnswer
  <2>3. Given(r, h)' /\ <<h>>[1] = h
    BY <1>2, <1>6 DEF Given, Serving
  <2>4. \A s \in Requests : pc[s] \notin {"register", "assign"}
    BY <1>6 DEF PortsInv, CallInv, OneRequest, UnderWay
  <2>5. TakenInv'
    BY <1>2, <1>4, <1>6, <1>7, <2>3, <2>4 DEF TakenInv
  <2>6. QED
    BY <2>2, <2>5 DEF RequestInv
<1>12. ServedInv'
  BY <1>2 DEF PortsInv, ServedInv, TableInv, StatusInv
<1>13. ActiveInv'
  <2>1. \A m : Has(incoming', m) => Has(incoming, m)
    BY <1>3 DEF Reads
  <2>2. QED
    BY <1>2, <2>1 DEF PortsInv, ActiveInv, Ending
<1>14. EndInv'
  BY <1>2, <1>3, EndTail DEF PortsInv
<1>15. ReceiverInv'
  BY <1>2 DEF ReceiverInv, StageInv, TargetInv
<1>16. QED
  BY <1>9, <1>10, <1>11, <1>12, <1>13, <1>14, <1>15 DEF PortsInv

\* The receiver's place, what it holds, and the table are no part of the others.
LEMMA RestKeeps ==
  ASSUME PortsInv, active' \in [Ports -> Requests \cup {None}],
         UNCHANGED <<pc, answer, portOf, buffer, wire, incoming, answers, served, inputOpen,
                     outputOpen, at, halves>>
  PROVE  /\ (PortTypes /\ CallInv /\ RequestInv /\ ServedInv)'
         /\ active' = active => EndInv'
<1>1. PortTypes'
  BY DEF PortsInv, PortTypes
<1>2. CallInv'
  BY DEF PortsInv, CallInv, OneRequest, OneCloses, ThreadsInv, UnderWay, Dead
<1>3. RequestInv'
  BY DEF PortsInv, RequestInv, AskedInv, AnsweredInv, TakenInv, Given, Serving, NoAnswer
<1>4. ServedInv'
  BY DEF PortsInv, ServedInv, TableInv, StatusInv
<1>5. active' = active => EndInv'
  BY EndFrame DEF PortsInv, SameOpen
<1>6. QED
  BY <1>1, <1>2, <1>3, <1>4, <1>5

\* The thread has taken the answer; the receiver goes on.
LEMMA AcquireDoneKeeps ==
  ASSUME PortsInv, AcquireDone, UNCHANGED <<portVars, keepVars>>
  PROVE  PortsInv'
<1>1. /\ rx = "handed" /\ rx' = "read"
      /\ UNCHANGED <<pc, answer, portOf, buffer, wire, incoming, answers, served, active, inputOpen,
                     outputOpen, at, halves>>
  BY DEF AcquireDone, portVars, threadVars, accVars
<1>2. (PortTypes /\ CallInv /\ RequestInv /\ ServedInv /\ EndInv)'
  BY <1>1, RestKeeps DEF PortsInv, PortTypes
<1>3. ActiveInv'
  BY <1>1 DEF PortsInv, ActiveInv, Ending
<1>4. ReceiverInv'
  BY <1>1 DEF ReceiverInv, StageInv, TargetInv
<1>5. QED
  BY <1>2, <1>3, <1>4 DEF PortsInv

\* Who is found in the table takes the data: a closed input has none under way.
LEMMA LookupKeeps ==
  ASSUME PortsInv, Lookup, UNCHANGED <<portVars, keepVars>>
  PROVE  PortsInv'
<1>1. PICK h : h = Head(incoming)
  OBVIOUS
<1>2. PICK s : s = active[h.port]
  OBVIOUS
<1>3. /\ rx = "read" /\ incoming # << >> /\ h.kind = "data" /\ s # None
      /\ rx' = "found" /\ target' = s
      /\ UNCHANGED <<pc, answer, portOf, buffer, wire, incoming, answers, served, active, inputOpen,
                     outputOpen, at, halves>>
  BY <1>1, <1>2 DEF Lookup, portVars, threadVars, accVars, spawnVars
<1>4. (PortTypes /\ CallInv /\ RequestInv /\ ServedInv /\ EndInv)'
  BY <1>3, RestKeeps DEF PortsInv, PortTypes
<1>5. ActiveInv'
  BY <1>3 DEF PortsInv, ActiveInv, Ending
<1>6. h \in Frames /\ Has(incoming, h)
  BY <1>1, <1>3, TailFacts DEF PortsInv, PortTypes
<1>7. h.port \in Ports /\ Has(incoming, Data(h.port))
  BY <1>3, <1>6, FrameFacts
<1>8. s \in Requests
  BY <1>2, <1>3, <1>7 DEF PortsInv, PortTypes
<1>9. \/ pc[s] = "assign" /\ answer[s].port = h.port
      \/ pc[s] = "open" /\ portOf[s] = h.port /\ inputOpen[s]
  BY <1>2, <1>3, <1>7 DEF PortsInv, ActiveInv, Ending
<1>10. inputOpen[s]
  BY <1>8, <1>9 DEF PortsInv, CallInv, ThreadsInv
<1>11. ReceiverInv'
  BY <1>1, <1>3, <1>8, <1>9, <1>10 DEF ReceiverInv, StageInv, TargetInv
<1>12. QED
  BY <1>4, <1>5, <1>11 DEF PortsInv

\* The data is read as a whole, by a service that takes it or by skip().
LEMMA ReadDataKeeps ==
  ASSUME PortsInv, Read, rx # "adrift", up', rx' # "adrift"
  PROVE  PortsInv'
<1>1. UNCHANGED <<portVars, keepVars>>
  BY DEF Read
<1>2. CASE Skip
  <2>1. /\ incoming # << >> /\ incoming' = Tail(incoming) /\ Head(incoming).kind = "data"
        /\ rx = "read" /\ rx' = "read"
        /\ UNCHANGED <<pc, answer, portOf, buffer, wire, answers, served, active, inputOpen, outputOpen,
                       at, halves, target, handling>>
    BY <1>1, <1>2 DEF Skip, portVars, threadVars, accVars, spawnVars
  <2>2. Reads(Head(incoming))
    BY <2>1, ReadsFacts DEF PortsInv
  <2>3. QED
    BY <2>1, <2>2, ReadKeeps
<1>3. CASE Lookup
  BY <1>1, <1>3, LookupKeeps
<1>4. CASE Deliver({r \in Requests : ~inputOpen[r]})
  <2>1. /\ rx = "found" /\ incoming' = Tail(incoming)
        /\ UNCHANGED <<pc, answer, portOf, buffer, wire, answers, served, active, inputOpen, outputOpen,
                       at, halves, handling>>
    BY <1>1, <1>4 DEF Deliver, portVars, threadVars, accVars, spawnVars
  <2>2. /\ incoming # << >> /\ Head(incoming).kind = "data"
        /\ target \in Requests /\ inputOpen[target]
    BY <2>1 DEF PortsInv, ReceiverInv, TargetInv
  <2>3. rx' = "read"
    BY <1>4, <2>2 DEF Deliver, Stop
  <2>4. Reads(Head(incoming))
    BY <2>1, <2>2, ReadsFacts DEF PortsInv
  <2>5. QED
    BY <2>1, <2>2, <2>3, <2>4, ReadKeeps
<1>5. ~Misread
  BY DEF Misread, PortsInv, ActiveInv
<1>6. QED
  BY <1>2, <1>3, <1>4, <1>5 DEF Read, Receive

\* The answer to a ping.
LEMMA PongKeeps ==
  ASSUME PortsInv, KeepaliveOnDataReady
  PROVE  PortsInv'
<1> USE DEF portVars, threadVars, accVars, spawnVars
<1>1. /\ incoming # << >> /\ incoming' = Tail(incoming) /\ Head(incoming) = Pong
      /\ rx = "read" /\ rx' = "read"
      /\ UNCHANGED <<pc, answer, portOf, buffer, wire, answers, served, active, inputOpen, outputOpen,
                     at, halves, target, handling>>
  BY DEF KeepaliveOnDataReady
<1>2. Reads(Pong)
  BY <1>1, ReadsFacts DEF PortsInv
<1>3. QED
  BY <1>1, <1>2, FrameFacts, ReadKeeps

\* A status closes a half of the service it was sent by; the receiver goes on to see
\* whether the input of that service is still open.
LEMMA StatusKeeps ==
  ASSUME PortsInv, StatusOnDataReady
  PROVE  PortsInv'
<1> USE DEF portVars, threadVars, accVars, spawnVars
<1>1. PICK h : h = Head(incoming)
  OBVIOUS
<1>2. PICK p : p = h.port
  OBVIOUS
<1>3. PICK s : s = active[p]
  OBVIOUS
<1>4. /\ incoming # << >> /\ incoming' = Tail(incoming) /\ h.kind \in {"eof", "close"} /\ rx = "read"
      /\ UNCHANGED <<pc, answer, portOf, buffer, wire, answers, served, active, at, halves, target>>
      /\ IF s = None \/ portOf[s] = None
         THEN UNCHANGED <<rx, inputOpen, outputOpen, handling>>
         ELSE /\ inputOpen' = [inputOpen EXCEPT ![s] = @ /\ h.kind # "eof"]
              /\ outputOpen' = [outputOpen EXCEPT ![s] = @ /\ h.kind = "eof"]
              /\ rx' = "flagged" /\ handling' = p
  BY <1>1, <1>2, <1>3 DEF StatusOnDataReady
<1>5. Reads(h)
  BY <1>1, <1>4, ReadsFacts DEF PortsInv
<1>6. p \in Ports /\ h \in {Eof(p), CloseOf(p)} /\ Has(incoming, h)
  BY <1>2, <1>4, <1>5, FrameFacts DEF Reads
<1>7. PortTypes /\ HalvesInv
  BY DEF PortsInv, EndInv
<1>8. s \in Requests /\ portOf[s] # None => pc[s] = "open" /\ portOf[s] = p
  BY <1>3, <1>6, RequestsAssumption DEF PortsInv, CallInv, ThreadsInv, ActiveInv
\* What becomes of the halves.
<1>9. /\ inputOpen' \in [Requests -> BOOLEAN] /\ outputOpen' \in [Requests -> BOOLEAN]
      /\ \A r \in Requests : /\ inputOpen'[r] => inputOpen[r]
                             /\ outputOpen'[r] => outputOpen[r]
                             /\ pc[r] # "open" => inputOpen'[r] = inputOpen[r] /\ outputOpen'[r] = outputOpen[r]
                             /\ inputOpen[r] /\ ~inputOpen'[r] => /\ h = Eof(p) /\ portOf[r] = p
                                                               /\ rx' = "flagged"
                             /\ pc[r] = "open" /\ portOf[r] = p =>
                                  /\ h = Eof(p) => ~inputOpen'[r]
                                  /\ h = CloseOf(p) => ~outputOpen'[r]
  <2>1. h.kind = "eof" <=> h = Eof(p)
    BY <1>6, FrameFacts
  <2>2. CASE s = None \/ portOf[s] = None
    <3>1. ASSUME NEW r \in Requests, pc[r] = "open", portOf[r] = p PROVE ~inputOpen[r]
      <4>1. r # None /\ portOf[r] # None
        BY <1>6, <3>1, RequestsAssumption
      <4>2. inputOpen[r] => active[p] = r
        BY <1>7, <3>1 DEF HalvesInv
      <4>3. QED
        BY <1>3, <2>2, <4>1, <4>2
    <3>2. h # CloseOf(p)
      BY <1>6, <3>1 DEF PortsInv, EndInv, ClosesInv
    <3>3. QED
      BY <1>4, <1>7, <2>2, <3>1, <3>2 DEF PortTypes
  <2>3. CASE ~(s = None \/ portOf[s] = None) /\ h = Eof(p)
    <3>1. s \in Requests /\ pc[s] = "open" /\ portOf[s] = p
      BY <1>3, <1>6, <1>7, <1>8, <2>3 DEF PortTypes
    <3>2. /\ inputOpen' \in [Requests -> BOOLEAN] /\ outputOpen' \in [Requests -> BOOLEAN]
          /\ \A r \in Requests : /\ inputOpen'[r] <=> inputOpen[r] /\ r # s
                                 /\ r # s => inputOpen'[r] = inputOpen[r]
                                 /\ outputOpen'[r] = outputOpen[r]
      <4>1. /\ inputOpen' = [inputOpen EXCEPT ![s] = @ /\ FALSE]
            /\ outputOpen' = [outputOpen EXCEPT ![s] = @ /\ TRUE]
        BY <1>4, <2>1, <2>3
      <4>2. inputOpen \in [Requests -> BOOLEAN] /\ outputOpen \in [Requests -> BOOLEAN]
        BY <1>7 DEF PortTypes
      <4>3. QED
        BY <3>1, <4>1, <4>2
    <3>3. rx' = "flagged"
      BY <1>4, <2>3
    <3>4. ASSUME NEW r \in Requests, pc[r] = "open", portOf[r] = p PROVE ~inputOpen'[r]
      BY <1>3, <1>7, <3>2, <3>4 DEF HalvesInv
    <3>5. h # CloseOf(p)
      BY <2>1, <2>3, FrameFacts
    <3>6. QED
      <4>1. \A r \in Requests : inputOpen[r] /\ ~inputOpen'[r] => portOf[r] = p
        BY <3>1, <3>2
      <4>2. \A r \in Requests : pc[r] # "open" => inputOpen'[r] = inputOpen[r]
        BY <3>1, <3>2
      <4>3. QED
        BY <2>3, <3>1, <3>2, <3>3, <3>4, <3>5, <4>1, <4>2
  <2>4. CASE ~(s = None \/ portOf[s] = None) /\ h = CloseOf(p)
    <3>1. s \in Requests /\ pc[s] = "open" /\ portOf[s] = p
      BY <1>3, <1>6, <1>7, <1>8, <2>4 DEF PortTypes
    <3>2. h # Eof(p)
      BY <2>4, FrameFacts
    <3>3. /\ inputOpen' \in [Requests -> BOOLEAN] /\ outputOpen' \in [Requests -> BOOLEAN]
          /\ \A r \in Requests : /\ inputOpen'[r] = inputOpen[r]
                                 /\ outputOpen'[r] <=> outputOpen[r] /\ r # s
                                 /\ r # s => outputOpen'[r] = outputOpen[r]
      <4>1. /\ inputOpen' = [inputOpen EXCEPT ![s] = @ /\ TRUE]
            /\ outputOpen' = [outputOpen EXCEPT ![s] = @ /\ FALSE]
        BY <1>4, <2>1, <2>4, <3>2
      <4>2. inputOpen[s] \in BOOLEAN
        BY <1>7, <3>1 DEF PortTypes
      <4>3. inputOpen' = [inputOpen EXCEPT ![s] = inputOpen[s]]
        BY <4>1, <4>2
      <4>4. outputOpen' = [outputOpen EXCEPT ![s] = FALSE]
        BY <4>1
      <4>5. QED
        BY <1>7, <3>1, <4>3, <4>4 DEF PortTypes
    <3>4. PICK o \in Requests : pc[o] = "open" /\ portOf[o] = p /\ inputOpen[o]
      BY <1>6, <2>4 DEF PortsInv, EndInv, ClosesInv
    <3>5. o = s
      BY <1>3, <1>7, <3>4 DEF HalvesInv
    <3>6. ASSUME NEW r \in Requests, pc[r] = "open", portOf[r] = p, r # s PROVE ~outputOpen[r]
      <4>1. Dead(r) \/ Dead(s)
        BY <1>7, <3>1, <3>6 DEF HalvesInv
      <4>2. QED
        BY <3>4, <3>5, <4>1 DEF Dead
    <3>7. QED
      <4>1. \A r \in Requests : pc[r] # "open" => outputOpen'[r] = outputOpen[r]
        BY <3>1, <3>3
      <4>2. \A r \in Requests : pc[r] = "open" /\ portOf[r] = p => ~outputOpen'[r]
        BY <3>3, <3>6
      <4>3. QED
        BY <2>4, <3>2, <3>3, <4>1, <4>2
  <2>5. QED
    BY <1>6, <2>2, <2>3, <2>4
<1>10. PortTypes'
  BY <1>4, <1>5, <1>9 DEF PortsInv, PortTypes, Reads
<1>11. \A r \in Requests : Dead(r) => Dead(r)'
  BY <1>9 DEF Dead
<1>12. CallInv'
  <2>1. OneRequest' /\ ThreadsInv'
    BY <1>4, <1>9 DEF PortsInv, CallInv, OneRequest, ThreadsInv, UnderWay
  <2>2. OneCloses'
    BY <1>4, <1>9, <1>11 DEF PortsInv, CallInv, OneCloses
  <2>3. QED
    BY <2>1, <2>2 DEF CallInv
<1>13. RequestInv'
  <2>1. NoneSent /\ NoneAnswered
    BY <1>4, <1>5, <1>7, WireFacts, ReadsNone
  <2>2. QED
    BY <1>4, <2>1, RequestFrame DEF PortsInv, Given, Serving
<1>14. ServedInv'
  <2>1. TableInv'
    BY <1>4 DEF PortsInv, ServedInv, TableInv
  <2>2. StatusInv'
    <3>1. \A q \in Ports : served[q] # None => served[q] \in Requests
      BY <1>7 DEF PortTypes
    <3>2. QED
      BY <1>4, <1>9, <3>1 DEF PortsInv, ServedInv, StatusInv
  <2>3. QED
    BY <2>1, <2>2 DEF ServedInv
<1>15. ActiveInv'
  <2>1. \A q \in Ports : active[q] # None => active[q] \in Requests
    BY <1>7 DEF PortTypes
  <2>2. \A m : Has(incoming', m) => Has(incoming, m)
    BY <1>5 DEF Reads
  <2>3. rx' \in {"read", "flagged"} /\ (rx' = "flagged" => handling' = p)
    BY <1>4
  <2>4. ASSUME NEW q \in Ports, active[q] # None
        PROVE  \/ pc[active[q]] = "assign" /\ answer[active[q]].port = q
               \/ /\ pc[active[q]] = "open" /\ portOf[active[q]] = q
                  /\ \/ inputOpen'[active[q]]
                     \/ at[active[q]] \in {"close", "forget"} /\ ~Has(incoming', Data(q))
                     \/ Ending(q)'
    <3>1. \/ pc[active[q]] = "assign" /\ answer[active[q]].port = q
          \/ /\ pc[active[q]] = "open" /\ portOf[active[q]] = q
             /\ \/ inputOpen[active[q]]
                \/ at[active[q]] \in {"close", "forget"} /\ ~Has(incoming, Data(q))
      BY <1>4, <2>4 DEF PortsInv, ActiveInv, Ending
    <3>2. inputOpen[active[q]] /\ ~inputOpen'[active[q]] /\ portOf[active[q]] = q => Ending(q)'
      BY <1>9, <2>1, <2>3, <2>4 DEF Ending
    <3>3. QED
      BY <2>2, <3>1, <3>2
  <2>5. \A r \in Requests : pc[r] = "assign" => active[answer[r].port] = r
    BY DEF PortsInv, ActiveInv
  <2>6. QED
    BY <1>4, <2>3, <2>4, <2>5 DEF ActiveInv
<1>16. EofsInv'
  BY <1>4, <1>5 DEF PortsInv, EndInv, EofsInv, Reads
<1>17. ClosesInv'
  <2>1. ASSUME NEW q \in Ports, Has(incoming', CloseOf(q))
        PROVE  /\ \E r \in Requests : pc[r] = "open" /\ portOf[r] = q /\ inputOpen'[r]
               /\ ~Behind(incoming', CloseOf(q), Eof(q)) /\ ~Behind(incoming', CloseOf(q), Opened(q))
    <3>1. Has(incoming, CloseOf(q)) /\ (h = Eof(q) => Behind(incoming, CloseOf(q), Eof(q)))
      BY <1>5, <2>1 DEF Reads
    <3>2. /\ \E r \in Requests : pc[r] = "open" /\ portOf[r] = q /\ inputOpen[r]
          /\ ~Behind(incoming, CloseOf(q), Eof(q)) /\ ~Behind(incoming, CloseOf(q), Opened(q))
      BY <3>1 DEF PortsInv, EndInv, ClosesInv
    <3>3. PICK r \in Requests : pc[r] = "open" /\ portOf[r] = q /\ inputOpen[r]
      BY <3>2
    <3>4. inputOpen'[r]
      BY <1>9, <3>1, <3>2, <3>3
    <3>5. QED
      BY <1>5, <3>2, <3>3, <3>4 DEF Reads
  <2>2. QED
    BY <1>4, <2>1 DEF ClosesInv
<1>18. HalvesInv'
  <2>1. ASSUME NEW r \in Requests, pc[r] = "open", NEW q, q = portOf[r]
        PROVE  /\ inputOpen'[r] => active'[q] = r
               /\ inputOpen'[r] /\ (served[q] # r \/ "output" \notin halves[q]) =>
                    First(incoming', Eof(q), Opened(q))
               /\ outputOpen'[r] /\ (served[q] # r \/ "input" \notin halves[q]) =>
                    First(incoming', CloseOf(q), Opened(q))
               /\ served[q] \notin {r, None} /\ ~Has(incoming', Opened(q)) => Dead(r)
               /\ \A t \in Requests \ {r} : pc[t] = "open" /\ portOf[t] = q => Dead(t) \/ Dead(r)
    <3>1. /\ inputOpen[r] => active[q] = r
          /\ inputOpen[r] /\ (served[q] # r \/ "output" \notin halves[q]) =>
               First(incoming, Eof(q), Opened(q))
          /\ outputOpen[r] /\ (served[q] # r \/ "input" \notin halves[q]) =>
               First(incoming, CloseOf(q), Opened(q))
          /\ served[q] \notin {r, None} /\ ~Has(incoming, Opened(q)) => Dead(r)
          /\ \A t \in Requests \ {r} : pc[t] = "open" /\ portOf[t] = q => Dead(t) \/ Dead(r)
      BY <1>7, <2>1 DEF HalvesInv
    <3>2. q \in Ports
      BY <1>7, <2>1 DEF PortsInv, CallInv, ThreadsInv, PortTypes
    <3>3. inputOpen'[r] => h # Eof(q)
      <4>1. h = Eof(q) => p = q
        BY <1>2, FrameFacts
      <4>2. QED
        BY <1>9, <2>1, <4>1
    <3>4. outputOpen'[r] => h # CloseOf(q)
      <4>1. h = CloseOf(q) => p = q
        BY <1>2, FrameFacts
      <4>2. QED
        BY <1>9, <2>1, <4>1
    <3>5. h # Opened(q)
      BY <1>4, FrameFacts
    <3>6. inputOpen'[r] => active'[q] = r
      BY <1>4, <1>9, <2>1, <3>1
    <3>7. /\ First(incoming, Eof(q), Opened(q)) => h = Eof(q) \/ First(incoming', Eof(q), Opened(q))
          /\ First(incoming, CloseOf(q), Opened(q)) => h = CloseOf(q) \/ First(incoming', CloseOf(q), Opened(q))
          /\ Has(incoming, Opened(q)) <=> Has(incoming', Opened(q))
      BY <1>5, <3>5 DEF Reads
    <3>8. QED
      BY <1>9, <1>11, <3>1, <3>3, <3>4, <3>6, <3>7
  <2>2. QED
    BY <1>4, <1>11, <2>1 DEF HalvesInv
<1>19. ASSUME NEW r \in Requests, pc[r] \in {"register", "assign"} PROVE answer[r].port # p
  <2> SUFFICES ASSUME answer[r].port = p PROVE FALSE
    OBVIOUS
  <2>1. /\ served[p] = r /\ halves[p] = Both /\ NoAnswer
        /\ \A t \in Requests : pc[t] = "open" /\ portOf[t] = p => Dead(t)
    BY <1>19, GivenPort
  <2>2. CASE h = CloseOf(p)
    BY <1>6, <2>1, <2>2 DEF PortsInv, EndInv, ClosesInv, Dead
  <2>3. CASE h = Eof(p)
    <3>1. ~Has(incoming, Opened(p))
      BY <1>6, <2>1, FrameFacts DEF NoAnswer, Answer
    <3>2. Loose(incoming, Eof(p), Opened(p))
      BY <1>6, <1>7, <2>3, <3>1, NoneIn DEF PortTypes
    <3>3. served[p] # None /\ "output" \in halves[p]
      BY <2>1, RequestsAssumption DEF Both
    <3>4. QED
      BY <1>6, <3>2, <3>3 DEF PortsInv, EndInv, EofsInv
  <2>4. QED
    BY <1>6, <2>2, <2>3
<1>20. ReceiverInv'
  <2>1. rx' \in {"read", "flagged"} /\ (rx' = "flagged" => handling' = p)
    BY <1>4
  <2>2. StageInv'
    BY <1>4, <1>6, <1>19, <2>1 DEF StageInv
  <2>3. TargetInv'
    BY <2>1 DEF TargetInv
  <2>4. QED
    BY <2>2, <2>3 DEF ReceiverInv
<1>21. QED
  BY <1>10, <1>12, <1>13, <1>14, <1>15, <1>16, <1>17, <1>18, <1>20 DEF PortsInv, EndInv

\* Who is on the port of a status either reads from it still, or nobody does.
LEMMA TestBothClosedKeeps ==
  ASSUME PortsInv, TestBothClosed
  PROVE  PortsInv'
<1>1. PICK p : p = handling
  OBVIOUS
<1>2. PICK s : s = active[p]
  OBVIOUS
<1>3. /\ rx = "flagged"
      /\ UNCHANGED <<pc, answer, portOf, buffer, wire, incoming, answers, served, active, inputOpen,
                     outputOpen, at, halves, target>>
      /\ IF s # None /\ portOf[s] # None /\ ~inputOpen[s]
         THEN rx' = "cleanup" /\ UNCHANGED handling
         ELSE rx' = "read" /\ handling' = 0
  BY <1>1, <1>2 DEF TestBothClosed, BothClosed, threadVars, accVars, spawnVars
<1>4. (PortTypes /\ CallInv /\ RequestInv /\ ServedInv /\ EndInv)'
  BY <1>3, RestKeeps DEF PortsInv, PortTypes
<1>5. p \in Ports /\ \A r \in Requests : pc[r] \in {"register", "assign"} => answer[r].port # p
  BY <1>1, <1>3 DEF PortsInv, ReceiverInv, StageInv
<1>6. CASE rx' = "cleanup"
  <2>1. s # None /\ ~inputOpen[s] /\ UNCHANGED handling
    BY <1>3, <1>6
  <2>2. ActiveInv'
    BY <1>3, <1>6, <2>1 DEF PortsInv, ActiveInv, Ending
  <2>3. \A r \in Requests : pc[r] = "open" /\ portOf[r] = p => ~inputOpen[r]
    BY <1>2, <2>1 DEF PortsInv, EndInv, HalvesInv
  <2>4. ReceiverInv'
    BY <1>1, <1>3, <1>5, <1>6, <2>1, <2>3 DEF ReceiverInv, StageInv, TargetInv
  <2>5. QED
    BY <1>4, <2>2, <2>4 DEF PortsInv
<1>7. CASE rx' = "read"
  <2>1. ASSUME NEW q \in Ports, active[q] # None, pc[active[q]] = "open", portOf[active[q]] = q,
               Ending(q)
        PROVE  inputOpen[active[q]]
    <3>1. q = p /\ q # None
      BY <1>1, <2>1, RequestsAssumption DEF Ending
    <3>2. QED
      BY <1>2, <1>3, <1>7, <2>1, <3>1
  <2>2. ActiveInv'
    BY <1>3, <1>7, <2>1 DEF PortsInv, ActiveInv
  <2>3. ReceiverInv'
    BY <1>7 DEF ReceiverInv, StageInv, TargetInv
  <2>4. QED
    BY <1>4, <2>2, <2>3 DEF PortsInv
<1>8. QED
  BY <1>3, <1>6, <1>7

\* Nobody reads from a port that leaves the table, and nobody is about to open it.
LEMMA CleanupKeeps ==
  ASSUME PortsInv, Cleanup
  PROVE  PortsInv'
<1>1. PICK p : p = handling
  OBVIOUS
<1>2. /\ rx = "cleanup" /\ rx' = "read" /\ active' = [active EXCEPT ![p] = None]
      /\ UNCHANGED <<pc, answer, portOf, buffer, wire, incoming, answers, served, inputOpen,
                     outputOpen, at, halves, target>>
  BY <1>1 DEF Cleanup, threadVars, accVars, spawnVars
<1>3. /\ p \in Ports
      /\ \A r \in Requests : pc[r] \in {"register", "assign"} => answer[r].port # p
      /\ \A r \in Requests : pc[r] = "open" /\ portOf[r] = p => ~inputOpen[r]
  BY <1>1, <1>2 DEF PortsInv, ReceiverInv, StageInv
<1>4. /\ active' \in [Ports -> Requests \cup {None}] /\ active'[p] = None
      /\ \A q \in Ports \ {p} : active'[q] = active[q]
  BY <1>2, <1>3 DEF PortsInv, PortTypes
<1>5. (PortTypes /\ CallInv /\ RequestInv /\ ServedInv)'
  BY <1>2, <1>4, RestKeeps
<1>6. ActiveInv'
  <2>1. ASSUME NEW r \in Requests, pc[r] = "assign" PROVE active'[answer[r].port] = r
    <3>1. answer[r].port \in Ports /\ active[answer[r].port] = r
      BY <2>1, GivenPort DEF PortsInv, ActiveInv
    <3>2. QED
      BY <1>3, <1>4, <2>1, <3>1
  <2>2. \A q \in Ports : active'[q] # None => q # p /\ active'[q] = active[q] /\ ~Ending(q)
    BY <1>1, <1>4 DEF Ending
  <2>3. QED
    BY <1>2, <2>1, <2>2 DEF PortsInv, ActiveInv
<1>7. EndInv'
  <2>1. ClosesInv' /\ EofsInv'
    BY <1>2 DEF PortsInv, EndInv, ClosesInv, EofsInv
  <2>2. HalvesInv'
    <3>1. \A r \in Requests : Dead(r)' <=> Dead(r)
      BY <1>2 DEF Dead
    <3>2. ASSUME NEW r \in Requests, pc[r] = "open", inputOpen[r] PROVE active'[portOf[r]] = r
      <4>1. portOf[r] \in Ports /\ active[portOf[r]] = r
        BY <3>2 DEF PortsInv, PortTypes, CallInv, ThreadsInv, EndInv, HalvesInv
      <4>2. QED
        BY <1>3, <1>4, <3>2, <4>1
    <3>3. QED
      BY <1>2, <3>1, <3>2 DEF PortsInv, EndInv, HalvesInv
  <2>3. QED
    BY <2>1, <2>2 DEF EndInv
<1>8. ReceiverInv'
  BY <1>2 DEF ReceiverInv, StageInv, TargetInv
<1>9. QED
  BY <1>5, <1>6, <1>7, <1>8 DEF PortsInv

-----------------------------------------------------------------------------
(* All together.                                                           *)

\* A connection that was lost does not come back, and neither does a receiver that has
\* lost its place.
LEMMA StaysDown ==
  ASSUME BridgeNext \/ UNCHANGED bridgeVars, up', rx' # "adrift"
  PROVE  up /\ rx # "adrift"
<1> USE DEF bridgeVars, vars
<1>1. ASSUME NEW r \in Requests, RequestStep(r) \/ PortStep(r) PROVE up /\ rx # "adrift"
  BY <1>1 DEF RequestStep, ThreadStep, Put, Flip, WriteRequest, Acquire, Take, Register, AssignPort,
              PortStep, StartClose, StartEof, WriteStatus, Forget
<1>2. CASE BridgeReceiverStep
  BY <1>2 DEF BridgeReceiverStep, SpawnerStep, ReadAnswer, AnswerCutOff, AcquireDone, ReadFails, Read,
              Receive, Skip, Lookup, Deliver, Misread, Stop, StatusOnDataReady,
              TestBothClosed, Cleanup, KeepaliveOnDataReady
<1>3. CASE AccessoryStep
  BY <1>3 DEF AccessoryStep, Answers, ServiceSpawnerOnBytesReceived, onStatus, KeepaliveOnBytesReceived
<1>4. ASSUME NEW p \in Ports, Sends(p) \/ sendEof(p) \/ sendClose(p) PROVE up /\ rx # "adrift"
  BY <1>4 DEF Sends, ServiceSends, sendEof, sendClose, Ends
<1>5. CASE LinkFails \/ KeepaliveStep
  BY <1>5 DEF LinkFails, Lost, FallsSilent, KeepaliveStep, Construct, Tick, sendKeepalive,
              handleMessage, Cut, vars
<1>6. CASE UNCHANGED bridgeVars
  BY <1>6
<1>7. QED
  BY <1>1, <1>2, <1>3, <1>4, <1>5, <1>6 DEF BridgeNext

\* At first no port has been given away.
LEMMA InitPorts == BridgeInit => PortsInv
<1> SUFFICES ASSUME BridgeInit PROVE PortsInv
  OBVIOUS
<1> USE DEF BridgeInit, Init
<1>1. PortTypes
  BY DEF PortTypes, Both, AllHalves
<1>2. \A r \in Requests : pc[r] = "idle" /\ at[r] = "idle" /\ inputOpen[r] /\ outputOpen[r] /\ portOf[r] = None
  OBVIOUS
<1>3. CallInv
  BY <1>2 DEF CallInv, OneRequest, OneCloses, ThreadsInv, UnderWay
<1>4. \A m, n : ~Has(wire, m) /\ ~Has(incoming, m) /\ ~Loose(incoming, m, n)
  BY DEF Has, Loose
<1>5. RequestInv
  BY <1>2, <1>4 DEF RequestInv, AskedInv, AnsweredInv, TakenInv
<1>6. ServedInv
  BY <1>4 DEF ServedInv, TableInv, StatusInv, AllHalves
<1>7. ActiveInv
  BY <1>2 DEF ActiveInv
<1>8. EndInv
  BY <1>2, <1>4 DEF EndInv, HalvesInv, ClosesInv, EofsInv
<1>9. ReceiverInv
  BY DEF ReceiverInv, StageInv, TargetInv
<1>10. QED
  BY <1>1, <1>3, <1>5, <1>6, <1>7, <1>8, <1>9 DEF PortsInv

\* A step that changes nothing.
LEMMA StutterKeeps ==
  ASSUME PortsInv, UNCHANGED bridgeVars
  PROVE  PortsInv'
<1> USE DEF bridgeVars, vars, portVars, threadVars, accVars, spawnVars
<1>1. PortTypes' /\ CallInv'
  BY DEF PortsInv, PortTypes, CallInv, OneRequest, OneCloses, ThreadsInv, UnderWay, Dead
<1>2. RequestInv'
  BY DEF PortsInv, RequestInv, AskedInv, AnsweredInv, TakenInv, Given, Serving, NoAnswer
<1>3. ServedInv' /\ ActiveInv'
  BY DEF PortsInv, ServedInv, TableInv, StatusInv, ActiveInv, Ending
<1>4. EndInv'
  BY DEF PortsInv, EndInv, HalvesInv, ClosesInv, EofsInv, Dead
<1>5. ReceiverInv'
  BY DEF PortsInv, ReceiverInv, StageInv, TargetInv
<1>6. QED
  BY <1>1, <1>2, <1>3, <1>4, <1>5 DEF PortsInv

\* The receiver loses its place where skip() does not work, and only there.
LEMMA DriftKeeps ==
  ASSUME rx = "adrift" => ~SkipWorks,
         BridgeNext \/ UNCHANGED bridgeVars
  PROVE  rx' = "adrift" => ~SkipWorks
<1> USE DEF bridgeVars, vars
<1>1. ASSUME NEW r \in Requests, RequestStep(r) \/ PortStep(r) PROVE rx' = rx
  BY <1>1 DEF RequestStep, ThreadStep, Put, Flip, WriteRequest, Acquire, Take, Register, AssignPort,
              PortStep, StartClose, StartEof, WriteStatus, Forget
<1>2. ASSUME BridgeReceiverStep, rx' = "adrift" PROVE rx = "adrift" \/ ~SkipWorks
  BY <1>2 DEF BridgeReceiverStep, SpawnerStep, ReadAnswer, HandOver, AnswerCutOff, AcquireDone, ReadFails,
              Read, Receive, Skip, Lookup, Deliver, Misread, Stop, StatusOnDataReady,
              TestBothClosed, Cleanup, KeepaliveOnDataReady
<1>3. AccessoryStep => rx' = rx
  BY DEF AccessoryStep, Answers, ServiceSpawnerOnBytesReceived, onStatus, KeepaliveOnBytesReceived
<1>4. ASSUME NEW p \in Ports, Sends(p) \/ sendEof(p) \/ sendClose(p) PROVE rx' = rx
  BY <1>4 DEF Sends, ServiceSends, sendEof, sendClose, Ends
<1>5. LinkFails \/ KeepaliveStep \/ UNCHANGED bridgeVars => rx' = rx
  BY DEF LinkFails, Lost, FallsSilent, KeepaliveStep, Construct, Tick, sendKeepalive, handleMessage
<1>6. QED
  BY <1>1, <1>2, <1>3, <1>4, <1>5 DEF BridgeNext

\* Every step of the whole keeps the invariant.
LEMMA BridgeKeeps ==
  ASSUME BridgeInv, BridgeNext \/ UNCHANGED bridgeVars, ~Overlap, ~Crossing, ~CloseLast
  PROVE  BridgeInv'
<1>1. HandInv'
  BY RequestHand, PortHand DEF BridgeInv, BridgeNext, BridgeReceiverStep, AccessoryStep
<1>2. ASSUME up', rx' # "adrift" PROVE PortsInv'
  <2>1. up /\ rx # "adrift" /\ PortsInv /\ HandInv
    BY <1>2, StaysDown DEF BridgeInv
  <2>2. ASSUME NEW r \in Requests, RequestStep(r) PROVE PortsInv'
    <3>1. ThreadStep(r)
      BY <2>2 DEF RequestStep
    <3>2. QED
      BY <2>1, <2>2, <3>1, PutKeeps, FlipKeeps, WriteRequestKeeps, AcquireKeeps, TakeKeeps,
         RegisterKeeps, AssignPortKeeps DEF ThreadStep
  <2>3. ASSUME NEW r \in Requests, PortStep(r) PROVE PortsInv'
    BY <2>1, <2>3, StartCloseKeeps, StartEofKeeps, WriteStatusKeeps, ForgetKeeps DEF PortStep
  <2>4. CASE SpawnerStep
    <3>1. ~AnswerCutOff /\ ~ReadFails
      BY <2>1 DEF AnswerCutOff, ReadFails
    <3>2. QED
      BY <2>1, <2>4, <3>1, ReadAnswerKeeps, AcquireDoneKeeps DEF SpawnerStep
  <2>5. CASE Read \/ StatusOnDataReady \/ TestBothClosed \/ Cleanup \/ KeepaliveOnDataReady
    BY <1>2, <2>1, <2>5, ReadDataKeeps, StatusKeeps, TestBothClosedKeeps, CleanupKeeps, PongKeeps
  <2>6. CASE Answers \/ onStatus
    BY <2>1, <2>6, AnswersKeeps, onStatusKeeps
  <2>7. CASE \/ \E p \in Ports : Sends(p)
             \/ KeepaliveOnBytesReceived \/ KeepaliveStep \/ LinkFails
    BY <1>2, <2>1, <2>7, TrafficSteps
  <2>8. ASSUME NEW p \in Ports, sendEof(p) \/ sendClose(p) PROVE PortsInv'
    BY <2>1, <2>8, EndsKeeps
  <2>9. CASE UNCHANGED bridgeVars
    BY <2>1, <2>9, StutterKeeps
  <2>10. QED
    BY <2>2, <2>3, <2>4, <2>5, <2>6, <2>7, <2>8, <2>9
    DEF BridgeNext, BridgeReceiverStep, AccessoryStep
<1>3. rx' = "adrift" => ~SkipWorks
  BY DriftKeeps DEF BridgeInv
<1>4. QED
  BY <1>1, <1>2, <1>3 DEF BridgeInv

\* What the invariant says of a frame's place, the property says of its presence.
LEMMA PortsAgree ==
  ASSUME BridgeInv
  PROVE  EndsAgree
<1> SUFFICES ASSUME up, rx # "adrift" PROVE PortIsOwn /\ rx # "astray"
  BY DEF EndsAgree, BridgeInv
<1>1. PortsInv
  BY DEF BridgeInv
<1>2. \A p, n : /\ First(incoming, Eof(p), n) => Incoming({"eof"}, p)
                /\ First(incoming, CloseOf(p), n) => Incoming({"close"}, p)
  BY FrameFacts DEF First, Incoming
<1>3. ASSUME NEW r \in Requests, pc[r] = "open", NEW p, p = portOf[r]
      PROVE  /\ inputOpen[r] => /\ active[p] = r
                                /\ served[p] = r \/ Incoming({"eof"}, p)
             /\ outputOpen[r] => served[p] = r \/ Incoming({"close"}, p)
  BY <1>1, <1>2, <1>3 DEF PortsInv, EndInv, HalvesInv
<1>4. PortIsOwn
  BY <1>3 DEF PortIsOwn
<1>5. QED
  BY <1>1, <1>4 DEF PortsInv, ActiveInv

\* While the connection is there, both ends agree on whose port is whose and the
\* receiver on where a frame begins, however often ports are closed half by half
\* and given away again, and whatever an application thread does between two
\* uses of the table by the receiver (AccessoryBridge, CleanupService,
\* ReceiverThread.run): when the application makes one call after the other
\* (~Overlap), no frame of a service crosses the opening or the closing of its port
\* (~Crossing), and no payload stops reading after the input of its port on Android
\* was closed (~CloseLast).  With USB, where skip() of the stream may not skip, a
\* receiver that has skipped data for a port nobody serves has lost its place, and
\* that is all that can go wrong; with Bluetooth (SkipWorks) nothing can.
THEOREM EndsAgreeHolds ==
  ASSUME ~Overlap, ~Crossing, ~CloseLast
  PROVE  BridgeSpec => []EndsAgree
<1>1. BridgeInit => BridgeInv
  <2> SUFFICES ASSUME BridgeInit PROVE BridgeInv
    OBVIOUS
  <2>1. Init /\ rx = "read"
    BY DEF BridgeInit, Init
  <2>2. QED
    BY <2>1, InitHand, InitPorts DEF BridgeInv
<1>2. BridgeInv /\ [BridgeNext]_bridgeVars => BridgeInv'
  BY BridgeKeeps
<1>3. BridgeInv => EndsAgree
  BY PortsAgree
<1>4. QED
  BY <1>1, <1>2, <1>3, PTL DEF BridgeSpec
=============================================================================
