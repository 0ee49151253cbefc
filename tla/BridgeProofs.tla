---------------------------- MODULE BridgeProofs ----------------------------
(***************************************************************************)
(* What the accessory's side of the bridge promises, proved for every size *)
(* of the port table and of the queues and for every bound of Bridge.      *)
(***************************************************************************)
EXTENDS Bridge, TLAPS, WellFoundedInduction

USE BridgeAssumption DEF main, receiver, sender, nobody
-----------------------------------------------------------------------------
(* The operators of Bridge.                                                *)

\* A set of natural numbers that is not empty has a least element.
LEMMA LeastNatural ==
  ASSUME NEW S \in SUBSET Nat, S # {}
  PROVE  \E m \in S : \A n \in S : m <= n
<1>1. \E m \in S : \A n \in S : <<n, m>> \notin OpToRel(<, Nat)
  BY NatLessThanWellFounded, WFMin
<1>2. ASSUME NEW n \in Nat, NEW m \in Nat, n < m
      PROVE  <<n, m>> \in OpToRel(<, Nat)
  BY <1>2 DEF OpToRel
<1>3. PICK m \in S : \A n \in S : <<n, m>> \notin OpToRel(<, Nat)
  BY <1>1
<1>4. \A n \in S : ~(n < m)
  BY <1>2, <1>3
<1>5. QED
  BY <1>4

\* Whatever the port given last, the search of openNewPort ends at a free port
\* if there is one (bridge.c).
LEMMA OpenedIsFree ==
  ASSUME lastAllocatedPort \in Ports, FreePorts # {}
  PROVE  openNewPort \in FreePorts
<1> DEFINE D == {Distance(p) : p \in FreePorts}
<1>1. \A p \in FreePorts : Distance(p) \in Nat
  BY DEF FreePorts, Distance, Ports
<1>2. D \subseteq Nat /\ D # {}
  BY <1>1
<1> HIDE DEF D
<1>3. PICK m \in D : \A n \in D : m <= n
  BY <1>2, LeastNatural
<1> USE DEF D
<1>4. \E p \in FreePorts : \A q \in FreePorts : Distance(p) <= Distance(q)
  BY <1>3
<1>5. QED
  BY <1>4 DEF openNewPort
-----------------------------------------------------------------------------
(* Types.                                                                  *)

\* What Android sends is for a port of the table, or asks for a service.
Addressed(m) ==
  /\ m.type \in {"data", "eof", "close"} => m.port \in Ports
  /\ m.type = "open" => m.inst \in Instances /\ m.kind \in Kinds
  /\ m.type \in {"NULL", "ping", "open", "data", "eof", "close"}


\* What the receiver has read.
IncomingInv ==
  /\ \A i \in 1 .. Len(receiveQueue) : Addressed(receiveQueue[i])
  /\ Addressed(held[receiver])

\* What main handles, by where it is.
HandledInv ==
  /\ pc[main] \in {"dispatch", "call", "apply"} => Addressed(held[main])
  /\ pc[main] = "call" => held[main].type = "data"
  /\ pc[main] = "apply" => held[main].type \in {"eof", "close"}

\* A service thread has a port of the table.
PlacedInv == \A k \in Instances : pc[k] # "none" => at[k] \in Ports

\* TypeOK and what it needs to be inductive.
TypeInv == TypeOK /\ IncomingInv /\ HandledInv /\ PlacedInv

\* The empty message is typed.
LEMMA NullType == NULL \in AllMessages /\ Addressed(NULL)
BY DEF NULL, Message, AllMessages, MessageTypes, Addressed

\* The program starts typed.
LEMMA InitType == Init => TypeInv
<1> SUFFICES ASSUME Init PROVE TypeInv
  OBVIOUS
<1> USE DEF Init
<1>1. PcType
  <2>1. /\ DOMAIN pc = Threads /\ pc[main] = "accept"
        /\ pc[receiver] = "ended" /\ pc[sender] = "ended"
        /\ \A k \in Instances : pc[k] = "none"
    BY DEF Threads, Workers, Instances
  <2>2. QED
    BY <2>1 DEF PcType, ThreadPc, MainPc
<1>2. ThreadType
  BY NullType DEF ThreadType
<1>10. \A q : q = << >> => q \in Seq(AllMessages) /\ Len(q) <= MESSAGEQUEMAX
  OBVIOUS
<1>3. QueueType
  BY <1>10 DEF QueueType
<1>11. LockType
  BY DEF LockType
<1>4. TableType
  BY DEF TableType, Ports, Free
<1>5. AndroidType
  BY DEF AndroidType, Ports, Unknown
<1>6. IncomingInv
  BY NullType DEF IncomingInv, Threads
<1>7. HandledInv /\ PlacedInv
  BY DEF HandledInv, PlacedInv, Threads, Workers, Instances
<1>8. CounterType
  BY DEF CounterType
<1>9. QED
  BY <1>1, <1>2, <1>3, <1>4, <1>5, <1>6, <1>7, <1>8, <1>11 DEF TypeInv, TypeOK

\* The messages Android may send.
LEMMA FromAndroidCases ==
  ASSUME NEW m \in FromAndroid
  PROVE  \/ m = Message("ping", 2, "none", 0)
         \/ opens < MaxOpens /\ \E kind \in Kinds : m = Message("open", 1, kind, opens + 1)
         \/ \E type \in {"data", "eof"}, p \in Ports :
              android[p].output /\ m = Message(type, p, "none", android[p].inst)
         \/ \E p \in Ports :
              android[p].input /\ m = Message("close", p, "none", android[p].inst)
BY DEF FromAndroid

Views == [Ports -> [inst : 0 .. MaxOpens, input : BOOLEAN, output : BOOLEAN]]

\* Android's view stays typed when a port's entry is settled.
LEMMA SettledType ==
  ASSUME android \in Views, NEW p \in Ports, NEW half \in BOOLEAN
  PROVE  /\ [android EXCEPT ![p] = Settle([@ EXCEPT !.input = half])] \in Views
         /\ [android EXCEPT ![p] = Settle([@ EXCEPT !.output = half])] \in Views
BY DEF Views, Settle, Unknown

\* Whatever Android sends next, and what it knows then, is typed.
LEMMA FromAndroidType ==
  ASSUME TypeInv, NEW m \in FromAndroid
  PROVE  /\ m \in AllMessages /\ Addressed(m) /\ m # NULL
         /\ m.type = "open" => m.inst = opens + 1 /\ opens < MaxOpens
         /\ AfterSending(m) \in Views
<1>1. /\ android \in Views /\ opens \in 0 .. MaxOpens
      /\ \A p \in Ports : android[p].inst \in 0 .. MaxOpens
  BY DEF TypeInv, TypeOK, CounterType, Views, AndroidType
<1> USE DEF Message, NULL, AllMessages, MessageTypes, Addressed, AfterSending, Ports, Instances
<1>2. CASE m = Message("ping", 2, "none", 0)
  BY <1>1, <1>2
<1>3. ASSUME opens < MaxOpens, NEW kind \in Kinds, m = Message("open", 1, kind, opens + 1)
      PROVE  /\ m \in AllMessages /\ Addressed(m) /\ m # NULL
             /\ m.type = "open" => m.inst = opens + 1 /\ opens < MaxOpens
             /\ AfterSending(m) \in Views
  BY <1>1, <1>3
<1>4. ASSUME NEW type \in {"data", "eof", "close"}, NEW p \in Ports,
             m = Message(type, p, "none", android[p].inst)
      PROVE  /\ m \in AllMessages /\ Addressed(m) /\ m # NULL
             /\ m.type = "open" => m.inst = opens + 1 /\ opens < MaxOpens
             /\ AfterSending(m) \in Views
  <2>1. m.type = type /\ m.port = p /\ m \in AllMessages
    BY <1>1, <1>4
  <2>2. AfterSending(m) \in Views
    BY <1>1, <2>1, SettledType
  <2>3. QED
    BY <1>4, <2>1, <2>2
<1>5. QED
  BY <1>2, <1>3, <1>4, FromAndroidCases

\* The same for what Android receives.
LEMMA AfterReceivingType ==
  ASSUME TypeInv, NEW m \in AllMessages
  PROVE  AfterReceiving(m) \in Views
<1>1. android \in Views /\ m.inst \in 0 .. MaxOpens
  BY DEF TypeInv, TypeOK, CounterType, Views, AndroidType, AllMessages
<1>2. CASE m.type = "opened"
  BY <1>1, <1>2 DEF AfterReceiving, Views
<1>3. CASE m.type # "opened"
  BY <1>1, <1>3, SettledType DEF AfterReceiving
<1>4. QED
  BY <1>2, <1>3

\* What a group of variables keeps when a step does not touch it.
LEMMA Frames ==
  /\ TableType /\ UNCHANGED table => TableType'
  /\ QueueType /\ UNCHANGED queues => QueueType'
  /\ LockType /\ UNCHANGED locks /\ UNCHANGED conn => LockType'
  /\ PcType /\ UNCHANGED pc => PcType'
  /\ ThreadType /\ UNCHANGED held /\ UNCHANGED where => ThreadType'
  /\ AndroidType /\ UNCHANGED android => AndroidType'
  /\ CounterType /\ UNCHANGED <<received, opens, bounds>> => CounterType'
  /\ IncomingInv /\ UNCHANGED receiveQueue /\ held'[receiver] = held[receiver] => IncomingInv'
  /\ HandledInv /\ pc'[main] = pc[main] /\ held'[main] = held[main] => HandledInv'
  /\ PlacedInv /\ UNCHANGED at /\ (\A k \in Instances : pc'[k] = pc[k]) => PlacedInv'
<1>1. TableType /\ UNCHANGED table => TableType'
  BY DEF TableType, table
<1>2. QueueType /\ UNCHANGED queues => QueueType'
  BY DEF QueueType, queues
<1>3. LockType /\ UNCHANGED locks /\ UNCHANGED conn => LockType'
  BY DEF LockType, locks, conn
<1>4. PcType /\ UNCHANGED pc => PcType'
  BY DEF PcType
<1>5. ThreadType /\ UNCHANGED held /\ UNCHANGED where => ThreadType'
  BY DEF ThreadType, where
<1>6. AndroidType /\ UNCHANGED android => AndroidType'
  BY DEF AndroidType
<1>7. CounterType /\ UNCHANGED <<received, opens, bounds>> => CounterType'
  BY DEF CounterType, bounds
<1>8. IncomingInv /\ UNCHANGED receiveQueue /\ held'[receiver] = held[receiver] => IncomingInv'
  BY DEF IncomingInv, Addressed
<1>9. HandledInv /\ pc'[main] = pc[main] /\ held'[main] = held[main] => HandledInv'
  BY DEF HandledInv, Addressed
<1>10. PlacedInv /\ UNCHANGED at /\ (\A k \in Instances : pc'[k] = pc[k]) => PlacedInv'
  BY DEF PlacedInv
<1>11. QED
  BY <1>1, <1>2, <1>3, <1>4, <1>5, <1>6, <1>7, <1>8, <1>9, <1>10

\* Where the threads may be.
Places(t) ==
  CASE t = main     -> MainPc
    [] t = receiver -> {"read", "add", "stop", "ended"}
    [] t = sender   -> {"test", "poll", "write", "ended"}
    [] OTHER        -> ThreadPc

\* A step of one thread leaves the others where they are.
LEMMA Moves ==
  ASSUME PcType, NEW t \in Threads, NEW from, NEW to \in Places(t), Goto(t, from, to)
  PROVE  /\ PcType' /\ pc[t] = from /\ pc'[t] = to
         /\ \A u \in Threads \ {t} : pc'[u] = pc[u]
BY DEF PcType, Goto, Places, Threads, Workers, Instances

\* A thread takes a message in its hands.
LEMMA Holds ==
  ASSUME ThreadType, UNCHANGED where,
         NEW t \in Threads, NEW m \in AllMessages, held' = [held EXCEPT ![t] = m]
  PROVE  /\ ThreadType' /\ held'[t] = m
         /\ \A u \in Threads \ {t} : held'[u] = held[u]
BY DEF ThreadType, where

\* The ports are among the numbers a message and a thread can name.
LEMMA PortRange ==
  \A p \in Ports : p \in -1 .. MAX_PORTS - 1 /\ p \in 0 .. MAX_PORTS /\ p + 1 \in 0 .. MAX_PORTS
BY DEF Ports

\* The threads are distinct.
LEMMA ThreadsApart ==
  /\ main \in Threads /\ receiver \in Threads /\ sender \in Threads
  /\ main # receiver /\ main # sender /\ receiver # sender
  /\ \A k \in Instances : k \in Threads /\ k # main /\ k # receiver /\ k # sender
BY DEF Threads, Workers, Instances

\* What is put into a queue that is not full, and what is taken from it, is typed.
LEMMA Appended ==
  ASSUME NEW q \in Seq(AllMessages), Len(q) < MESSAGEQUEMAX, NEW m \in AllMessages
  PROVE  /\ Append(q, m) \in Seq(AllMessages) /\ Len(Append(q, m)) <= MESSAGEQUEMAX
         /\ Len(Append(q, m)) = Len(q) + 1 /\ Append(q, m)[Len(q) + 1] = m
         /\ \A i \in 1 .. Len(q) : Append(q, m)[i] = q[i]
BY DEF Ports

\* What removing the head of a queue leaves.
LEMMA Removed ==
  ASSUME NEW q \in Seq(AllMessages), q # << >>
  PROVE  /\ Tail(q) \in Seq(AllMessages) /\ Head(q) \in AllMessages /\ Head(q) = q[1]
         /\ Len(q) >= 1 /\ Len(Tail(q)) = Len(q) - 1
         /\ \A i \in 1 .. Len(q) - 1 : Tail(q)[i] = q[i + 1]
OBVIOUS

USE ThreadsApart

\* The steps of the receiver, the sender and the link keep the types.
LEMMA LinkKeepsType ==
  ASSUME TypeInv, LinkDown \/ Receive \/ ReceiverStep \/ SenderStep \/ Finished
  PROVE  TypeInv'
<1> USE Frames, NullType
<1> USE DEF TypeInv, TypeOK
<1>1. CASE LinkDown
  <2>1. LockType'
    BY <1>1 DEF LinkDown, LockType, locks
  <2>2. QED
    BY <1>1, <2>1 DEF LinkDown, where, peer, queues
<1>2. CASE Receive
  <2>1. PICK m \in FromAndroid :
          /\ held' = [held EXCEPT ![receiver] = m]
          /\ android' = AfterSending(m)
          /\ opens' = IF m.type = "open" THEN m.inst ELSE opens
    BY <1>2 DEF Receive
  <2>2. m \in AllMessages /\ Addressed(m) /\ AndroidType'
    BY <2>1, FromAndroidType DEF AndroidType, Views
  <2>3. opens' \in 0 .. MaxOpens /\ opens' >= opens /\ CounterType'
    BY <1>2, <2>1, FromAndroidType DEF Receive, CounterType, bounds
  <2>4. ThreadType' /\ held'[receiver] = m /\ held'[main] = held[main]
    <3>1. held' = [held EXCEPT ![receiver] = m] /\ UNCHANGED where
      BY <1>2, <2>1 DEF Receive
    <3>2. ThreadType' /\ held'[receiver] = m /\ \A u \in Threads \ {receiver} : held'[u] = held[u]
      BY <2>2, <3>1, Holds
    <3>3. QED
      BY <3>2
  <2>5. IncomingInv'
    BY <1>2, <2>2, <2>4 DEF Receive, IncomingInv, Addressed, queues
  <2>6. PcType' /\ \A u \in Threads \ {receiver} : pc'[u] = pc[u]
    BY <1>2, Moves DEF Receive, Places
  <2>7. QED
    BY <1>2, <2>2, <2>3, <2>4, <2>5, <2>6 DEF Receive, where
<1>3. CASE ReceiverError
  <2>1. ThreadType' /\ held'[receiver] = NULL /\ held'[main] = held[main]
    <3>1. held' = [held EXCEPT ![receiver] = NULL] /\ UNCHANGED where
      BY <1>3 DEF ReceiverError
    <3>2. ThreadType' /\ held'[receiver] = NULL /\ \A u \in Threads \ {receiver} : held'[u] = held[u]
      BY <3>1, Holds
    <3>3. QED
      BY <3>2
  <2>2. IncomingInv'
    BY <1>3, <2>1 DEF ReceiverError, IncomingInv, Addressed, queues
  <2>3. PcType' /\ \A u \in Threads \ {receiver} : pc'[u] = pc[u]
    BY <1>3, Moves DEF ReceiverError, Places
  <2>4. QED
    BY <1>3, <2>1, <2>2, <2>3 DEF ReceiverError, where, peer
<1>4. CASE ReceiverAdd
  <2>1. ThreadType' /\ held'[receiver] = NULL /\ held'[main] = held[main]
    <3>1. held' = [held EXCEPT ![receiver] = NULL] /\ UNCHANGED where
      BY <1>4 DEF ReceiverAdd
    <3>2. ThreadType' /\ held'[receiver] = NULL /\ \A u \in Threads \ {receiver} : held'[u] = held[u]
      BY <3>1, Holds
    <3>3. QED
      BY <3>2
  <2>2. held[receiver] \in AllMessages /\ receiveQueue \in Seq(AllMessages)
    BY DEF ThreadType, QueueType
  <2>3. QueueType'
    BY <1>4, <2>2, Appended DEF ReceiverAdd, QueueType
  <2>4. IncomingInv'
    BY <1>4, <2>1, <2>2, Appended DEF ReceiverAdd, IncomingInv, Addressed
  <2>5. PcType' /\ \A u \in Threads \ {receiver} : pc'[u] = pc[u]
    BY <1>4, Moves DEF ReceiverAdd, Places
  <2>6. QED
    BY <1>4, <2>1, <2>3, <2>4, <2>5 DEF ReceiverAdd, where, peer
<1>5. CASE ReceiverStop
  <2>1. LockType'
    BY <1>5 DEF ReceiverStop, LockType, locks
  <2>2. PcType' /\ \A u \in Threads \ {receiver} : pc'[u] = pc[u]
    BY <1>5, Moves DEF ReceiverStop, Places
  <2>3. QED
    BY <1>5, <2>1, <2>2 DEF ReceiverStop, where, peer, queues
<1>6. CASE SenderTest
  <2>1. PcType' /\ \A u \in Threads \ {sender} : pc'[u] = pc[u]
    BY <1>6, Moves DEF SenderTest, Places
  <2>2. QED
    BY <1>6, <2>1 DEF SenderTest, where, peer, queues
<1>7. CASE SenderPoll
  <2>1. /\ QueueType' /\ Head(sendQueue) \in AllMessages
    BY <1>7, Removed DEF SenderPoll, QueueType
  <2>2. /\ ThreadType' /\ held'[main] = held[main] /\ held'[receiver] = held[receiver]
    <3>1. held' = [held EXCEPT ![sender] = Head(sendQueue)] /\ UNCHANGED where
      BY <1>7 DEF SenderPoll
    <3>2. ThreadType' /\ \A u \in Threads \ {sender} : held'[u] = held[u]
      BY <2>1, <3>1, Holds
    <3>3. QED
      BY <3>2
  <2>3. PcType' /\ \A u \in Threads \ {sender} : pc'[u] = pc[u]
    BY <1>7, Moves DEF SenderPoll, Places
  <2>4. QED
    BY <1>7, <2>1, <2>2, <2>3 DEF SenderPoll, where, peer
<1>8. CASE SenderWrite
  <2>1. AndroidType'
    BY <1>8, AfterReceivingType DEF SenderWrite, AndroidType, Views, ThreadType
  <2>2. LockType'
    BY <1>8 DEF SenderWrite, LockType, locks
  <2>3. /\ ThreadType' /\ held'[main] = held[main] /\ held'[receiver] = held[receiver]
    <3>1. held' = [held EXCEPT ![sender] = NULL] /\ UNCHANGED where
      BY <1>8 DEF SenderWrite
    <3>2. ThreadType' /\ \A u \in Threads \ {sender} : held'[u] = held[u]
      BY <3>1, Holds
    <3>3. QED
      BY <3>2
  <2>4. PcType' /\ \A u \in Threads \ {sender} : pc'[u] = pc[u]
    BY <1>8, Moves DEF SenderWrite, Places
  <2>5. QED
    BY <1>8, <2>1, <2>2, <2>3, <2>4 DEF SenderWrite, where, queues
<1>9. CASE Finished
  BY <1>9 DEF Finished, vars, table, queues, locks, conn, where, bounds
<1>10. QED
  BY <1>1, <1>2, <1>3, <1>4, <1>5, <1>6, <1>7, <1>8, <1>9 DEF ReceiverStep, SenderStep

Services == [port : -1 .. MAX_PORTS - 1,
             kind : {"none", "status", "spawner", "keepalive"} \union Kinds,
             inst : 0 .. MaxOpens, inputOpen : BOOLEAN, outputOpen : BOOLEAN]

\* The table stays typed when the entry of p becomes one that is for p or free.
LEMMA EntryType ==
  ASSUME TableType, NEW p \in Ports, NEW s \in Services, s.port \in {-1, p},
         services' = [services EXCEPT ![p] = s],
         lastAllocatedPort' \in Ports
  PROVE  TableType' /\ services'[p] = s /\ \A q \in Ports \ {p} : services'[q] = services[q]
<1>1. /\ services' \in [Ports -> Services] /\ services'[p] = s
      /\ \A q \in Ports \ {p} : services'[q] = services[q]
  BY DEF TableType, Services
<1>2. QED
  BY <1>1 DEF TableType, Services

\* An entry that is reset is typed and not used.
LEMMA FreeType == Free \in Services /\ Free.port = -1
BY DEF Free, Services

\* A worker goes on, and main not to a message it has still to handle.
LEMMA WorkerMoves ==
  ASSUME TypeInv, NEW t \in Workers, NEW from, NEW to \in Places(t), Goto(t, from, to),
         from # "none", to \notin {"dispatch", "call", "apply"},
         t = main \/ at'[t] \in Ports \/ UNCHANGED at,
         \A u \in Instances \ {t} : at'[u] = at[u],
         t = main \/ held'[main] = held[main]
  PROVE  PcType' /\ HandledInv' /\ PlacedInv'
<1>1. t \in Threads /\ t # receiver /\ t # sender
  BY DEF Threads, Workers, Instances
<1>2. /\ PcType' /\ pc[t] = from /\ pc'[t] = to
      /\ \A u \in Threads \ {t} : pc'[u] = pc[u]
  BY <1>1, Moves DEF TypeInv, TypeOK
<1>3. HandledInv'
  BY <1>2 DEF HandledInv, TypeInv, Addressed
<1>4. PlacedInv'
  BY <1>2 DEF PlacedInv, TypeInv
<1>5. QED
  BY <1>2, <1>3, <1>4

\* What Enqueue does to the queue and to the hands.
LEMMA EnqueueType ==
  ASSUME TypeInv, NEW t \in Threads, Enqueue(t), UNCHANGED where, UNCHANGED receiveQueue
  PROVE  /\ QueueType' /\ ThreadType'
         /\ \A u \in Threads \ {t} : held'[u] = held[u]
<1>1. held[t] \in AllMessages /\ sendQueue \in Seq(AllMessages)
  BY DEF TypeInv, TypeOK, ThreadType, QueueType
<1>2. QueueType'
  BY <1>1, Appended DEF Enqueue, QueueType, TypeInv, TypeOK
<1>3. QED
  BY <1>2, Holds, NullType DEF Enqueue, TypeInv, TypeOK

\* What any thread does with a port keeps the types.
LEMMA PortKeepsType ==
  ASSUME TypeInv, NEW t \in Workers, PortStep(t)
  PROVE  TypeInv'
<1> USE Frames DEF TypeInv, TypeOK
<1>0. /\ t \in Threads /\ t # receiver
      /\ {"both closed?", "lock", "join", "reset", "unlock", "status write"} \subseteq Places(t)
      /\ After(t) \in Places(t) \ {"dispatch", "call", "apply"}
  BY DEF Threads, Workers, Instances, Places, MainPc, ThreadPc, After, ThreadType
<1>1. CASE StatusWrite(t)
  <2>1. QueueType' /\ ThreadType' /\ \A u \in Threads \ {t} : held'[u] = held[u]
    BY <1>0, <1>1, EnqueueType DEF StatusWrite
  <2>2. PcType' /\ HandledInv' /\ PlacedInv'
    BY <1>0, <1>1, <2>1, WorkerMoves DEF StatusWrite, where
  <2>3. QED
    BY <1>0, <1>1, <2>1, <2>2 DEF StatusWrite, peer
<1>2. CASE CheckBothClosed(t)
  <2>1. PcType' /\ HandledInv' /\ PlacedInv'
    BY <1>0, <1>2, WorkerMoves DEF CheckBothClosed, where
  <2>2. QED
    BY <1>2, <2>1 DEF CheckBothClosed, peer, queues
<1>3. CASE CleanupLock(t)
  <2>1. PcType' /\ HandledInv' /\ PlacedInv'
    BY <1>0, <1>3, WorkerMoves DEF CleanupLock
  <2>2. LockType' /\ ThreadType'
    BY <1>3 DEF CleanupLock, LockType, ThreadType, ServiceSpawnerCleanup, SignalsCleanup, conn
  <2>3. QED
    BY <1>3, <2>1, <2>2 DEF CleanupLock, peer, queues
<1>4. CASE CleanupJoin(t)
  <2>1. PcType' /\ HandledInv' /\ PlacedInv'
    BY <1>0, <1>4, WorkerMoves DEF CleanupJoin, where
  <2>2. QED
    BY <1>4, <2>1 DEF CleanupJoin, peer, queues
<1>5. CASE CleanupReset(t)
  <2>1. PcType' /\ HandledInv' /\ PlacedInv'
    BY <1>0, <1>5, WorkerMoves DEF CleanupReset, where
  <2>2. TableType'
    <3>1. CASE at[t] \in Ports
      BY <1>5, <3>1, EntryType, FreeType DEF CleanupReset, TableType
    <3>2. CASE at[t] \notin Ports
      <4>1. services' = services
        BY <1>5, <3>2 DEF CleanupReset, TableType
      <4>2. QED
        BY <1>5, <4>1 DEF CleanupReset, TableType
    <3>3. QED
      BY <3>1, <3>2
  <2>3. QED
    BY <1>5, <2>1, <2>2 DEF CleanupReset, peer, queues
<1>6. CASE CleanupUnlock(t)
  <2>1. PcType' /\ HandledInv' /\ PlacedInv'
    BY <1>0, <1>6, WorkerMoves DEF CleanupUnlock, where
  <2>2. LockType'
    BY <1>6 DEF CleanupUnlock, LockType, conn
  <2>3. QED
    BY <1>6, <2>1, <2>2 DEF CleanupUnlock, peer, queues
<1>7. QED
  BY <1>1, <1>2, <1>3, <1>4, <1>5, <1>6 DEF PortStep

\* sendEof and sendClose up to the write keep the types.
LEMMA SendStatusType ==
  ASSUME TypeInv, NEW t \in Workers, NEW p \in Ports, NEW type \in {"eof", "close"},
         NEW from, from # "none", SendStatus(t, p, type, from),
         UNCHANGED <<lastAllocatedPort, stop>>, returnTo' \in {"poll", "status check", "deinit"}
  PROVE  /\ TableType' /\ ThreadType' /\ PcType' /\ HandledInv' /\ PlacedInv'
         /\ \A u \in Threads \ {t} : held'[u] = held[u]
<1> USE DEF TypeInv, TypeOK
<1>1. /\ services[p] \in Services /\ services[p].port \in {-1, p}
      /\ services \in [Ports -> Services]
  BY DEF TableType, Services
<1>2. TableType'
  <2> DEFINE s == IF type = "eof" THEN [services[p] EXCEPT !.outputOpen = FALSE]
                                  ELSE [services[p] EXCEPT !.inputOpen = FALSE]
  <2>1. s \in Services /\ s.port \in {-1, p}
    BY <1>1 DEF Services
  <2>2. services' = [services EXCEPT ![p] = s]
    BY <1>1 DEF SendStatus
  <2> HIDE DEF s
  <2>3. QED
    BY <2>1, <2>2, EntryType DEF TableType
<1>3. Message(type, services[p].port, "none", services[p].inst) \in AllMessages
  BY <1>1 DEF Message, AllMessages, MessageTypes, Services
<1>4. /\ ThreadType' /\ \A u \in Threads \ {t} : held'[u] = held[u]
  <2> DEFINE m == Message(type, services[p].port, "none", services[p].inst)
  <2>1. held' = [held EXCEPT ![t] = m] /\ at' = [at EXCEPT ![t] = p]
    BY DEF SendStatus
  <2>2. m \in AllMessages
    BY <1>3
  <2>3. p \in 0 .. MAX_PORTS
    BY PortRange
  <2> HIDE DEF m
  <2>4. QED
    BY <2>1, <2>2, <2>3 DEF ThreadType
<1>5. at'[t] \in Ports /\ \A u \in Instances \ {t} : at'[u] = at[u]
  BY DEF SendStatus, ThreadType, Workers
<1>6. "status write" \in Places(t)
  BY DEF Places, Workers, Instances, MainPc, ThreadPc
<1>7. t = main \/ held'[main] = held[main]
  BY <1>4
<1>8. PcType' /\ HandledInv' /\ PlacedInv'
  BY <1>5, <1>6, <1>7, WorkerMoves DEF SendStatus
<1>9. QED
  BY <1>2, <1>4, <1>8

\* The thread of a service keeps the types.
LEMMA ThreadKeepsType ==
  ASSUME TypeInv, NEW k \in Instances, ThreadData(k) \/ BulkReadEnd(k) \/ ThreadStep(k)
  PROVE  TypeInv'
<1> USE Frames DEF TypeInv, TypeOK
<1>0. /\ k \in Workers
      /\ {"read", "stuck", "write", "ended"} \subseteq Places(k)
  BY DEF Workers, Instances, Places, ThreadPc
<1>1. CASE ThreadStart(k)
  <2>1. PcType' /\ HandledInv' /\ PlacedInv'
    BY <1>0, <1>1, WorkerMoves DEF ThreadStart, where
  <2>2. QED
    BY <1>1, <2>1 DEF ThreadStart, peer, queues
<1>2. CASE ThreadData(k)
  <2>1. Message("data", services[at[k]].port, "none", k) \in AllMessages
    <3>1. at[k] \in Ports
      BY <1>2 DEF ThreadData, Goto, PlacedInv
    <3>2. QED
      BY <3>1 DEF TableType, Message, AllMessages, MessageTypes, Instances
  <2>2. ThreadType' /\ held'[main] = held[main] /\ held'[receiver] = held[receiver]
    <3>1. held' = [held EXCEPT ![k] = Message("data", services[at[k]].port, "none", k)] /\ UNCHANGED where
      BY <1>2 DEF ThreadData
    <3>2. ThreadType' /\ \A u \in Threads \ {k} : held'[u] = held[u]
      BY <2>1, <3>1, Holds
    <3>3. QED
      BY <3>2
  <2>3. PcType' /\ HandledInv' /\ PlacedInv'
    BY <1>0, <1>2, <2>2, WorkerMoves DEF ThreadData, where
  <2>4. CounterType'
    BY <1>2 DEF ThreadData, CounterType, peer
  <2>5. QED
    BY <1>2, <2>2, <2>3, <2>4 DEF ThreadData, peer, queues
<1>3. CASE ThreadWrite(k)
  <2>1. QueueType' /\ ThreadType' /\ \A u \in Threads \ {k} : held'[u] = held[u]
    BY <1>3, EnqueueType DEF ThreadWrite
  <2>2. PcType' /\ HandledInv' /\ PlacedInv'
    BY <1>0, <1>3, <2>1, WorkerMoves DEF ThreadWrite, where
  <2>3. QED
    BY <1>3, <2>1, <2>2 DEF ThreadWrite, peer
<1>4. CASE SignalWatchStop(k)
  <2>1. PcType' /\ HandledInv' /\ PlacedInv'
    BY <1>0, <1>4, WorkerMoves DEF SignalWatchStop, where
  <2>2. QED
    BY <1>4, <2>1 DEF SignalWatchStop, peer, queues
<1>5. CASE BulkReadEnd(k)
  <2>1. at[k] \in Ports
    BY <1>5 DEF BulkReadEnd, SendStatus, Goto, PlacedInv
  <2>2. /\ TableType' /\ ThreadType' /\ PcType' /\ HandledInv' /\ PlacedInv'
        /\ \A u \in Threads \ {k} : held'[u] = held[u]
    BY <1>0, <1>5, <2>1, SendStatusType DEF BulkReadEnd, ThreadType
  <2>3. QED
    BY <1>5, <2>2 DEF BulkReadEnd, peer, queues
<1>6. QED
  BY <1>0, <1>1, <1>2, <1>3, <1>4, <1>5, PortKeepsType DEF ThreadStep

\* What main does with a message keeps the types: taking it and answering it.
LEMMA PollKeepsType ==
  ASSUME TypeInv, MainPoll \/ Keepalive \/ MainReply
  PROVE  TypeInv'
<1> USE Frames DEF TypeInv, TypeOK
<1>0. main \in Workers /\ MainPc \subseteq Places(main)
  BY DEF Workers, Places
<1>1. CASE MainPoll
  <2>1. /\ receiveQueue \in Seq(AllMessages) /\ receiveQueue # << >>
        /\ Addressed(Head(receiveQueue)) /\ Head(receiveQueue) \in AllMessages
    BY <1>1, Removed DEF MainPoll, QueueType, IncomingInv
  <2>2. held'[main] = Head(receiveQueue) /\ held'[receiver] = held[receiver]
    BY <1>1 DEF MainPoll, ThreadType
  <2>3. ThreadType' /\ \A k \in Instances : at'[k] = at[k]
    <3>1. /\ held' = [held EXCEPT ![main] = Head(receiveQueue)]
          /\ at' = [at EXCEPT ![main] = 0] /\ UNCHANGED <<returnTo, stop>>
      BY <1>1 DEF MainPoll
    <3>2. \A k \in Instances : k \in Workers
      BY DEF Workers
    <3>3. 0 \in 0 .. MAX_PORTS
      OBVIOUS
    <3>4. held' \in [Threads -> AllMessages] /\ at' \in [Workers -> 0 .. MAX_PORTS]
      BY <2>1, <3>1, <3>3 DEF ThreadType
    <3>5. QED
      BY <3>1, <3>2, <3>4 DEF ThreadType
  <2>4. QueueType'
    BY <1>1, <2>1, Removed DEF MainPoll, QueueType
  <2>5. IncomingInv'
    BY <1>1, <2>1, <2>2, Removed DEF MainPoll, IncomingInv, Addressed
  <2>6. PcType' /\ \A u \in Threads \ {main} : pc'[u] = pc[u]
    BY <1>0, <1>1, Moves DEF MainPoll, MainPc
  <2>7. pc'[main] \in {"deinit", "dispatch"}
    BY <1>1 DEF MainPoll, Goto, PcType
  <2>8. HandledInv' /\ PlacedInv'
    BY <2>1, <2>2, <2>3, <2>6, <2>7 DEF HandledInv, PlacedInv, Addressed
  <2>9. QED
    BY <1>1, <2>3, <2>4, <2>5, <2>6, <2>8 DEF MainPoll, peer
<1>2. CASE Keepalive
  <2>1. Message("pong", 2, "none", 0) \in AllMessages
    BY DEF Message, AllMessages, MessageTypes
  <2>2. ThreadType' /\ held'[receiver] = held[receiver]
    <3>1. held' = [held EXCEPT ![main] = Message("pong", 2, "none", 0)] /\ UNCHANGED where
      BY <1>2 DEF Keepalive
    <3>2. ThreadType' /\ held'[main] = Message("pong", 2, "none", 0) /\ \A u \in Threads \ {main} : held'[u] = held[u]
      BY <2>1, <3>1, Holds
    <3>3. QED
      BY <3>2
  <2>3. PcType' /\ HandledInv' /\ PlacedInv'
    BY <1>0, <1>2, WorkerMoves DEF Keepalive, where, MainPc
  <2>4. QED
    BY <1>2, <2>2, <2>3 DEF Keepalive, peer, queues
<1>3. CASE MainReply
  <2>1. QueueType' /\ ThreadType' /\ \A u \in Threads \ {main} : held'[u] = held[u]
    BY <1>3, EnqueueType DEF MainReply
  <2>2. PcType' /\ HandledInv' /\ PlacedInv'
    BY <1>0, <1>3, WorkerMoves DEF MainReply, where, MainPc
  <2>3. LockType'
    BY <1>3 DEF MainReply, LockType, conn
  <2>4. QED
    BY <1>3, <2>1, <2>2, <2>3 DEF MainReply, peer
<1>4. QED
  BY <1>1, <1>2, <1>3

\* The same for the spawner, which gives a free port to the service it starts.
LEMMA SpawnerKeepsType ==
  ASSUME TypeInv, SpawnerStep
  PROVE  TypeInv'
<1> USE Frames DEF TypeInv, TypeOK
<1>0. /\ main \in Workers /\ MainPc \subseteq Places(main)
      /\ FreePorts \subseteq Ports
      /\ FreePorts # {} => openNewPort \in FreePorts
  BY OpenedIsFree DEF Workers, Places, FreePorts, TableType
<1>1. ASSUME NEW kind \in {"Bulk", "Method", "Signals"}, NEW thread \in {"none", "start"},
             OpenService(kind, thread)
      PROVE  TypeInv'
  <2> DEFINE m == held[main]
             p == openNewPort
             s == [services[p] EXCEPT !.port = p, !.kind = kind, !.inst = m.inst]
  <2>1. p \in Ports /\ m \in AllMessages /\ m.inst \in Instances /\ kind \in Kinds
    BY <1>0, <1>1 DEF OpenService, ThreadType, HandledInv, Addressed
  <2>2. s \in Services /\ s.port = p
    <3>1. services[p] \in Services /\ p \in -1 .. MAX_PORTS - 1 /\ m.inst \in 0 .. MaxOpens
      BY <2>1, PortRange DEF TableType, Services, Instances
    <3> HIDE DEF m, p
    <3>2. QED
      BY <2>1, <3>1 DEF Services
  <2>3. TableType'
    BY <1>1, <2>1, <2>2, EntryType DEF OpenService, TableType
  <2>4. Message("opened", p, "none", m.inst) \in AllMessages
    BY <2>1 DEF Message, AllMessages, MessageTypes, Instances, Ports
  <2>5. ThreadType' /\ held'[receiver] = held[receiver]
    <3>1. /\ held' = [held EXCEPT ![main] = Message("opened", p, "none", m.inst)]
          /\ at' = [at EXCEPT ![m.inst] = p] /\ UNCHANGED <<returnTo, stop>>
      BY <1>1 DEF OpenService
    <3> HIDE DEF m, p
    <3>2. QED
      BY <2>1, <2>4, <3>1, PortRange DEF ThreadType
  <2>6. /\ PcType' /\ pc'[main] = "reply" /\ pc'[m.inst] = thread
        /\ \A k \in Instances \ {m.inst} : pc'[k] = pc[k]
    <3>1. pc' = [pc EXCEPT ![main] = "reply", ![m.inst] = thread]
      BY <1>1 DEF OpenService
    <3>2. m.inst \in Instances
      BY <2>1
    <3> HIDE DEF m, p, s
    <3>3. PICK i \in Instances : i = m.inst
      BY <3>2
    <3>4. /\ DOMAIN pc' = Threads /\ pc'[main] = "reply" /\ pc'[i] = thread
          /\ pc'[receiver] = pc[receiver] /\ pc'[sender] = pc[sender]
          /\ \A k \in Instances \ {i} : pc'[k] = pc[k]
      BY <3>1, <3>3 DEF PcType
    <3>5. "reply" \in MainPc /\ thread \in ThreadPc
      BY <1>1 DEF MainPc, ThreadPc
    <3>6. PcType'
      BY <3>4, <3>5 DEF PcType
    <3>7. QED
      BY <3>3, <3>4, <3>6
  <2>7. HandledInv' /\ PlacedInv'
    BY <1>1, <2>1, <2>6 DEF OpenService, HandledInv, PlacedInv, ThreadType, Workers
  <2>8. LockType'
    BY <1>1 DEF OpenService, LockType, conn
  <2>9. QED
    BY <1>1, <2>3, <2>5, <2>6, <2>7, <2>8 DEF OpenService, peer, queues
<1>2. CASE DenyService
  <2>1. held[main] \in AllMessages
    BY DEF ThreadType
  <2>2. Message("denied", 0, "none", held[main].inst) \in AllMessages
    BY <2>1 DEF Message, AllMessages, MessageTypes
  <2>3. ThreadType' /\ held'[receiver] = held[receiver]
    <3>1. held' = [held EXCEPT ![main] = Message("denied", 0, "none", held[main].inst)] /\ UNCHANGED where
      BY <1>2 DEF DenyService
    <3>2. ThreadType' /\ held'[main] = Message("denied", 0, "none", held[main].inst) /\ \A u \in Threads \ {main} : held'[u] = held[u]
      BY <2>2, <3>1, Holds
    <3>3. QED
      BY <3>2
  <2>4. TableType'
    <3>1. CASE FreePorts # {} /\ services' = [services EXCEPT ![openNewPort].port = openNewPort]
               /\ lastAllocatedPort' = openNewPort
      <4> DEFINE s == [services[openNewPort] EXCEPT !.port = openNewPort]
      <4>1. openNewPort \in Ports /\ services \in [Ports -> Services]
        BY <1>0, <3>1, SMTT(20) DEF TableType, Services
      <4>2. s \in Services /\ s.port = openNewPort
        BY <4>1, PortRange DEF Services
      <4>3. services' = [services EXCEPT ![openNewPort] = s]
        BY <3>1, <4>1
      <4> HIDE DEF s
      <4>4. QED
        BY <3>1, <4>1, <4>2, <4>3, EntryType
    <3>2. QED
      BY <1>2, <3>1 DEF DenyService
  <2>5. PcType' /\ HandledInv' /\ PlacedInv'
    BY <1>0, <1>2, WorkerMoves DEF DenyService, where, MainPc
  <2>6. LockType'
    BY <1>2 DEF DenyService, LockType, conn
  <2>7. QED
    BY <1>2, <2>3, <2>4, <2>5, <2>6 DEF DenyService, peer, queues
<1>3. QED
  BY <1>1, <1>2 DEF SpawnerStep, BulkInit, MethodInit, SignalsInit

\* The same for data and for status messages.
LEMMA HandlersKeepType ==
  ASSUME TypeInv, CheckPort \/ MethodOnBytesReceived \/ BulkOnBytesReceived
                    \/ SignalsOnBytesReceived \/ CallNull \/ StatusStep
  PROVE  TypeInv'
<1> USE Frames DEF TypeInv, TypeOK
<1> DEFINE p == held[main].port
<1>0. main \in Workers /\ MainPc \subseteq Places(main)
  BY DEF Workers, Places
<1>1. CASE CheckPort
  <2>1. PcType' /\ pc[main] = "dispatch" /\ pc'[main] \in {"poll", "call", "apply"}
        /\ \A u \in Threads \ {main} : pc'[u] = pc[u]
    <3>1. PICK to \in {"poll", "call", "apply"} : Goto(main, "dispatch", to)
      BY <1>1 DEF CheckPort
    <3>2. to \in Places(main)
      BY <1>0 DEF MainPc
    <3>3. QED
      BY <3>1, <3>2, Moves
  <2>2. /\ held[main].type \in {"data", "eof", "close"}
        /\ pc'[main] = "call" => held[main].type = "data"
        /\ pc'[main] = "apply" => held[main].type # "data"
    BY <1>1 DEF CheckPort, Goto, PcType
  <2>3. HandledInv' /\ PlacedInv'
    BY <1>1, <2>1, <2>2 DEF CheckPort, where, HandledInv, PlacedInv, Addressed
  <2>4. QED
    BY <1>1, <2>1, <2>3 DEF CheckPort, peer, queues
<1>2. CASE MethodOnBytesReceived
  <2>1. p \in Ports
    BY <1>2 DEF MethodOnBytesReceived, Call, HandledInv, Addressed
  <2>2. Message("data", services[p].port, "none", services[p].inst) \in AllMessages
    BY <2>1 DEF TableType, Message, AllMessages, MessageTypes
  <2>3. ThreadType' /\ held'[receiver] = held[receiver]
    <3>1. UNCHANGED where
      BY <1>2 DEF MethodOnBytesReceived
    <3>2. CASE UNCHANGED held
      BY <3>1, <3>2 DEF ThreadType, where
    <3>3. CASE held' = [held EXCEPT ![main] = Message("data", services[p].port, "none", services[p].inst)]
      <4>1. ThreadType' /\ \A u \in Threads \ {main} : held'[u] = held[u]
        BY <2>2, <3>1, <3>3, Holds
      <4>2. QED
        BY <4>1
    <3>4. QED
      BY <1>2, <3>2, <3>3 DEF MethodOnBytesReceived
  <2>4. PcType' /\ HandledInv' /\ PlacedInv'
    BY <1>0, <1>2, WorkerMoves DEF MethodOnBytesReceived, where, MainPc
  <2>5. QED
    BY <1>2, <2>3, <2>4 DEF MethodOnBytesReceived, peer, queues
<1>3. CASE BulkOnBytesReceived
  <2>1. p \in Ports
    BY <1>3 DEF BulkOnBytesReceived, Call, HandledInv, Addressed
  <2>2. CASE Goto(main, "call", "poll") /\ UNCHANGED <<services, held, at, returnTo>>
    <3>1. PcType' /\ HandledInv' /\ PlacedInv'
      BY <1>0, <2>2, WorkerMoves DEF MainPc
    <3>2. QED
      BY <1>3, <2>2, <3>1 DEF BulkOnBytesReceived, peer, queues, table, where
  <2>3. CASE SendStatus(main, p, "close", "call") /\ returnTo' = "poll"
    <3>1. /\ TableType' /\ ThreadType' /\ PcType' /\ HandledInv' /\ PlacedInv'
          /\ \A u \in Threads \ {main} : held'[u] = held[u]
      BY <1>0, <1>3, <2>1, <2>3, SendStatusType DEF BulkOnBytesReceived
    <3>2. QED
      BY <1>3, <3>1 DEF BulkOnBytesReceived, peer, queues
  <2>4. QED
    BY <1>3, <2>2, <2>3 DEF BulkOnBytesReceived
<1>4. CASE SignalsOnBytesReceived
  <2>1. PcType' /\ HandledInv' /\ PlacedInv'
    BY <1>0, <1>4, WorkerMoves DEF SignalsOnBytesReceived, where, MainPc
  <2>2. QED
    BY <1>4, <2>1 DEF SignalsOnBytesReceived, peer, queues
<1>5. CASE CallNull
  <2>1. PcType' /\ HandledInv' /\ PlacedInv'
    BY <1>0, <1>5, WorkerMoves DEF CallNull, where, MainPc
  <2>2. QED
    BY <1>5, <2>1 DEF CallNull, peer, queues
<1>6. ASSUME p \in Ports, UNCHANGED lastAllocatedPort,
             \/ services' = [services EXCEPT ![p].outputOpen = FALSE]
             \/ services' = [services EXCEPT ![p].inputOpen = FALSE]
             \/ services' = [services EXCEPT ![p].inputOpen = FALSE, ![p].outputOpen = FALSE]
      PROVE  TableType'
  <2>1. services \in [Ports -> Services] /\ services[p] \in Services /\ services[p].port \in {-1, p}
    BY <1>6 DEF TableType, Services
  <2>2. ASSUME NEW s \in Services, s.port \in {-1, p}, services' = [services EXCEPT ![p] = s]
        PROVE  TableType'
    BY <1>6, <2>2, EntryType DEF TableType
  <2>3. CASE services' = [services EXCEPT ![p].outputOpen = FALSE]
    <3> DEFINE s == [services[p] EXCEPT !.outputOpen = FALSE]
    <3>1. s \in Services /\ s.port = services[p].port
      BY <2>1 DEF Services
    <3>2. services' = [services EXCEPT ![p] = s]
      BY <2>1, <2>3
    <3> HIDE DEF s
    <3>3. QED
      BY <2>1, <2>2, <3>1, <3>2
  <2>4. CASE services' = [services EXCEPT ![p].inputOpen = FALSE]
    <3> DEFINE s == [services[p] EXCEPT !.inputOpen = FALSE]
    <3>1. s \in Services /\ s.port = services[p].port
      BY <2>1 DEF Services
    <3>2. services' = [services EXCEPT ![p] = s]
      BY <2>1, <2>4
    <3> HIDE DEF s
    <3>3. QED
      BY <2>1, <2>2, <3>1, <3>2
  <2>5. CASE services' = [services EXCEPT ![p].inputOpen = FALSE, ![p].outputOpen = FALSE]
    <3> DEFINE s == [services[p] EXCEPT !.inputOpen = FALSE, !.outputOpen = FALSE]
    <3>1. s \in Services /\ s.port = services[p].port
      BY <2>1 DEF Services
    <3>2. services' = [services EXCEPT ![p] = s]
      BY <2>1, <2>5
    <3> HIDE DEF s
    <3>3. QED
      BY <2>1, <2>2, <3>1, <3>2
  <2>6. QED
    BY <1>6, <2>3, <2>4, <2>5
<1>7. CASE OnClose \/ OnEof
  <2>1. p \in Ports
    BY <1>7 DEF OnClose, OnEof, Goto, HandledInv, Addressed
  <2>2. TableType'
    BY <1>6, <1>7, <2>1 DEF OnClose, OnEof
  <2>3. ThreadType' /\ \A k \in Instances : at'[k] = at[k]
    BY <1>7, <2>1, PortRange DEF OnClose, OnEof, ThreadType, Workers
  <2>4. PcType' /\ HandledInv' /\ PlacedInv'
    BY <1>0, <1>7, <2>3, WorkerMoves DEF OnClose, OnEof, MainPc
  <2>5. QED
    BY <1>7, <2>2, <2>3, <2>4 DEF OnClose, OnEof, peer, queues
<1>8. CASE MethodOnEof
  <2>1. p \in Ports
    BY <1>8 DEF MethodOnEof, Goto, HandledInv, Addressed
  <2>2. TableType'
    BY <1>6, <1>8, <2>1 DEF MethodOnEof
  <2>3. Message("eof", p, "none", services[p].inst) \in AllMessages
    BY <2>1, PortRange DEF TableType, Message, AllMessages, MessageTypes
  <2>4. /\ held' = [held EXCEPT ![main] = Message("eof", p, "none", services[p].inst)]
        /\ at' = [at EXCEPT ![main] = p] /\ UNCHANGED stop /\ returnTo' = "status check"
    BY <1>8 DEF MethodOnEof
  <2>5. /\ ThreadType' /\ \A k \in Instances : at'[k] = at[k]
        /\ held'[receiver] = held[receiver]
    <3> HIDE DEF p
    <3>1. held' \in [Threads -> AllMessages] /\ at' \in [Workers -> 0 .. MAX_PORTS]
      BY <2>1, <2>3, <2>4, PortRange DEF ThreadType
    <3>2. QED
      BY <2>4, <3>1 DEF ThreadType, Workers
  <2>6. PcType' /\ HandledInv' /\ PlacedInv'
    BY <1>0, <1>8, <2>5, WorkerMoves DEF MethodOnEof, MainPc
  <2>7. QED
    BY <1>8, <2>2, <2>5, <2>6 DEF MethodOnEof, peer, queues
<1>9. CASE CheckAfterStatus
  <2>1. PcType' /\ HandledInv' /\ PlacedInv'
    BY <1>0, <1>9, WorkerMoves DEF CheckAfterStatus, MainPc
  <2>2. ThreadType'
    BY <1>9 DEF CheckAfterStatus, ThreadType
  <2>3. QED
    BY <1>9, <2>1, <2>2 DEF CheckAfterStatus, peer, queues
<1>10. QED
  BY <1>1, <1>2, <1>3, <1>4, <1>5, <1>7, <1>8, <1>9 DEF StatusStep

\* The same for the end of a connection and the start of the next.
LEMMA SessionKeepsType ==
  ASSUME TypeInv, DeInitStep \/ Accept
  PROVE  TypeInv'
<1> USE Frames DEF TypeInv, TypeOK
<1>0. main \in Workers /\ MainPc \subseteq Places(main)
  BY DEF Workers, Places
<1>1. CASE DeInitPort
  <2>1. ThreadType' /\ \A k \in Instances : at'[k] = at[k]
    <3>1. \A p \in Ports : p + 1 \in 0 .. MAX_PORTS
      BY PortRange
    <3>2. at' = at \/ (at[main] \in Ports /\ at' = [at EXCEPT ![main] = at[main] + 1])
      BY <1>1 DEF DeInitPort
    <3>3. at' \in [Workers -> 0 .. MAX_PORTS] /\ \A k \in Instances : at'[k] = at[k]
      BY <3>1, <3>2 DEF ThreadType, Workers
    <3>4. QED
      BY <1>1, <3>3 DEF DeInitPort, ThreadType
  <2>2. PcType' /\ HandledInv' /\ PlacedInv'
    <3>1. PICK to \in {"lock", "deinit", "stop sender"} : Goto(main, "deinit", to)
      BY <1>1 DEF DeInitPort
    <3>2. QED
      BY <1>0, <1>1, <2>1, <3>1, WorkerMoves DEF DeInitPort, MainPc
  <2>3. QED
    BY <1>1, <2>1, <2>2 DEF DeInitPort, peer, queues
<1>2. CASE DeInitStopSender
  <2>1. QueueType' /\ ThreadType' /\ \A u \in Threads \ {main} : held'[u] = held[u]
    BY <1>2, EnqueueType DEF DeInitStopSender
  <2>2. PcType' /\ HandledInv' /\ PlacedInv'
    BY <1>0, <1>2, WorkerMoves DEF DeInitStopSender, where, MainPc
  <2>3. QED
    BY <1>2, <2>1, <2>2 DEF DeInitStopSender, peer
<1>3. CASE DeInitJoin
  <2>1. PcType' /\ HandledInv' /\ PlacedInv'
    BY <1>0, <1>3, WorkerMoves DEF DeInitJoin, where, MainPc
  <2>2. QED
    BY <1>3, <2>1 DEF DeInitJoin, peer, queues
<1>4. \A q : q = << >> => q \in Seq(AllMessages) /\ Len(q) <= MESSAGEQUEMAX /\ Len(q) = 0
  OBVIOUS
<1>5. CASE DeInitFree
  <2>1. PcType' /\ HandledInv' /\ PlacedInv'
    BY <1>0, <1>5, WorkerMoves DEF DeInitFree, where, MainPc
  <2>2. QueueType'
    BY <1>4, <1>5 DEF DeInitFree, QueueType
  <2>3. LockType'
    BY <1>5 DEF DeInitFree, LockType, locks
  <2>4. IncomingInv'
    BY <1>4, <1>5 DEF DeInitFree, IncomingInv, Addressed
  <2>5. QED
    BY <1>5, <2>1, <2>2, <2>3, <2>4 DEF DeInitFree, peer
<1>6. CASE Accept
  <2>1. PcType' /\ pc'[main] = "poll" /\ \A k \in Instances : pc'[k] = pc[k]
    BY <1>6 DEF Accept, PcType, MainPc
  <2>2. HandledInv' /\ PlacedInv'
    BY <1>6, <2>1 DEF Accept, HandledInv, PlacedInv, where
  <2>3. QueueType' /\ LockType' /\ IncomingInv'
    BY <1>4, <1>6 DEF Accept, QueueType, LockType, IncomingInv, Addressed
  <2>4. TableType'
    <3>1. \A p \in Ports : services'[p] \in Services /\ services'[p].port \in {-1, p}
      BY <1>6, FreeType, PortRange DEF Accept, Services
    <3>2. services' \in [Ports -> Services] /\ 2 \in Ports
      BY <1>6, <3>1 DEF Accept, Ports
    <3>3. QED
      BY <1>6, <3>1, <3>2 DEF Accept, TableType, Services
  <2>5. AndroidType'
    BY <1>6 DEF Accept, AndroidType, Unknown
  <2>6. CounterType'
    <3>1. /\ session < MaxSessions /\ session' = session + 1 /\ firstOpen' = opens
          /\ UNCHANGED <<received, opens, emits>>
      BY <1>6 DEF Accept
    <3>2. QED
      BY <3>1 DEF CounterType
  <2>7. QED
    BY <1>6, <2>1, <2>2, <2>3, <2>4, <2>5, <2>6 DEF Accept
<1>7. QED
  BY <1>1, <1>2, <1>3, <1>5, <1>6 DEF DeInitStep

\* Every variable keeps its type, whatever the sizes and the bounds: the ports
\* that Android, the handlers and the threads name are in the table, a service is
\* where its port says, and no queue exceeds its capacity (BridgeService.h,
\* MessageQueue.h).
LEMMA StepKeepsType ==
  ASSUME TypeInv, [Next]_vars
  PROVE  TypeInv'
<1>1. CASE Next
  BY <1>1, LinkKeepsType, PortKeepsType, ThreadKeepsType, PollKeepsType, SpawnerKeepsType,
     HandlersKeepType, SessionKeepsType
     DEF Next, MainStep, HandlerStep, Workers
<1>2. CASE UNCHANGED vars
  BY <1>2, Frames DEF vars, TypeInv, TypeOK, table, queues, locks, conn, where, bounds
<1>3. QED
  BY <1>1, <1>2

\* Every variable stays in its type, what main handles is addressed to a port of the
\* table, and every service thread has one.
THEOREM TypeInvariant == Spec => []TypeInv
BY InitType, StepKeepsType, PTL DEF Spec

\* The type invariant of the runs (the port table, the queues at their capacity,
\* the locks and the program counters).
THEOREM TypeCorrect == Spec => []TypeOK
BY TypeInvariant, PTL DEF TypeInv
-----------------------------------------------------------------------------
(* The NULL message ends a connection.                                     *)

\* Main takes the connection down: it has polled the NULL message.
Ending ==
  \/ pc[main] \in {"deinit", "stop sender", "join receiver", "join sender", "free"}
  \/ pc[main] \in {"lock", "join", "reset", "unlock"} /\ returnTo = "deinit"

\* The receiver that has added NULL adds nothing more, and main takes the
\* connection down only after that.
NullInv ==
  /\ \A i \in 1 .. Len(receiveQueue) :
       receiveQueue[i] = NULL => i = Len(receiveQueue) /\ pc[receiver] \in {"stop", "ended"}
  /\ Ending => receiveQueue = << >> /\ pc[receiver] \in {"stop", "ended"}
  /\ pc[main] \in {"status write", "both closed?"} => returnTo # "deinit"

\* A step that leaves receiveQueue alone and does not begin to take down.
LEMMA NullQuiet ==
  ASSUME NullInv, UNCHANGED receiveQueue,
         \/ pc'[receiver] = pc[receiver]
         \/ pc[receiver] = "read"
         \/ pc'[receiver] = "ended",
         Ending' => Ending,
         pc'[main] \in {"status write", "both closed?"} => returnTo' # "deinit"
  PROVE  NullInv'
BY DEF NullInv

\* The threads of the connection keep NULL the last message.
LEMMA LinkKeepsNull ==
  ASSUME TypeInv, NullInv, LinkDown \/ Receive \/ ReceiverStep \/ SenderStep \/ Finished
  PROVE  NullInv'
<1> USE DEF TypeInv, TypeOK
<1>1. CASE ReceiverAdd
  <2>1. /\ receiveQueue \in Seq(AllMessages) /\ held[receiver] \in AllMessages
        /\ Len(receiveQueue) < MESSAGEQUEMAX
        /\ receiveQueue' = Append(receiveQueue, held[receiver])
    BY <1>1 DEF ReceiverAdd, QueueType, ThreadType
  <2>2. /\ pc[receiver] = "add" /\ pc'[main] = pc[main] /\ returnTo' = returnTo
        /\ held[receiver] = NULL => pc'[receiver] = "stop"
    BY <1>1 DEF ReceiverAdd, Goto, PcType, where
  <2>3. ~Ending /\ ~Ending'
    BY <2>2 DEF NullInv, Ending
  <2>4. \A i \in 1 .. Len(receiveQueue) : receiveQueue[i] # NULL
    BY <2>2 DEF NullInv
  <2>5. /\ Len(receiveQueue') = Len(receiveQueue) + 1
        /\ receiveQueue'[Len(receiveQueue) + 1] = held[receiver]
        /\ \A i \in 1 .. Len(receiveQueue) : receiveQueue'[i] = receiveQueue[i]
    BY <2>1, Appended
  <2>6. ASSUME NEW i \in 1 .. Len(receiveQueue'), receiveQueue'[i] = NULL
        PROVE  i = Len(receiveQueue') /\ pc'[receiver] = "stop"
    BY <2>1, <2>2, <2>4, <2>5, <2>6
  <2>7. QED
    BY <2>2, <2>3, <2>6 DEF NullInv
<1>2. CASE Receive \/ ReceiverError
  BY <1>2, NullQuiet DEF Receive, ReceiverError, Goto, PcType, queues, where, Ending, NullInv
<1>3. CASE ReceiverStop
  BY <1>3, NullQuiet DEF ReceiverStop, Goto, PcType, queues, where, Ending, NullInv
<1>4. CASE SenderStep
  BY <1>4, NullQuiet
     DEF SenderStep, SenderTest, SenderPoll, SenderWrite, Goto, PcType, queues, where, Ending, NullInv
<1>5. CASE LinkDown \/ Finished
  BY <1>5, NullQuiet DEF LinkDown, Finished, vars, queues, where, Ending, NullInv
<1>6. QED
  BY <1>1, <1>2, <1>3, <1>4, <1>5 DEF ReceiverStep

\* What a worker does with a port does not touch the queue.
LEMMA PortKeepsNull ==
  ASSUME TypeInv, NullInv, NEW t \in Workers, PortStep(t)
  PROVE  NullInv'
<1> USE DEF TypeInv, TypeOK
<1>1. /\ UNCHANGED <<receiveQueue, returnTo>> /\ pc'[receiver] = pc[receiver]
      /\ t # main => pc'[main] = pc[main]
  BY DEF PortStep, StatusWrite, CheckBothClosed, CleanupLock, CleanupJoin, CleanupReset,
         CleanupUnlock, Enqueue, Goto, PcType, queues, where, Workers, Instances
<1>2. CASE t # main
  BY <1>1, <1>2, NullQuiet DEF Ending, NullInv
<1>3. CASE t = main
  <2>1. CASE StatusWrite(main) \/ CheckBothClosed(main)
    BY <1>1, <2>1, NullQuiet DEF StatusWrite, CheckBothClosed, After, Goto, PcType, ThreadType, Ending, NullInv
  <2>2. CASE CleanupLock(main) \/ CleanupJoin(main) \/ CleanupReset(main)
    BY <1>1, <2>2, NullQuiet DEF CleanupLock, CleanupJoin, CleanupReset, Goto, PcType, Ending
  <2>3. CASE CleanupUnlock(main)
    BY <1>1, <2>3, NullQuiet DEF CleanupUnlock, After, Goto, PcType, ThreadType, Ending
  <2>4. QED
    BY <1>3, <2>1, <2>2, <2>3 DEF PortStep
<1>4. QED
  BY <1>2, <1>3

\* Neither do the service threads.
LEMMA ThreadKeepsNull ==
  ASSUME TypeInv, NullInv, NEW k \in Instances, ThreadData(k) \/ BulkReadEnd(k) \/ ThreadStep(k)
  PROVE  NullInv'
<1>1. k \in Workers /\ k # main /\ k # receiver
  BY DEF Workers
<1>2. CASE PortStep(k)
  BY <1>1, <1>2, PortKeepsNull
<1>3. CASE ~PortStep(k)
  <2>1. UNCHANGED <<receiveQueue, returnTo>> /\ pc'[receiver] = pc[receiver] /\ pc'[main] = pc[main]
    BY <1>1, <1>3 DEF ThreadStep, ThreadStart, ThreadData, ThreadWrite, SignalWatchStop, BulkReadEnd,
           SendStatus, Enqueue, Goto, PcType, TypeInv, TypeOK, queues, where
  <2>2. QED
    BY <2>1, NullQuiet DEF Ending, NullInv
<1>4. QED
  BY <1>2, <1>3

\* Main takes the connection down only when it has polled NULL.
LEMMA MainKeepsNull ==
  ASSUME TypeInv, NullInv, MainStep
  PROVE  NullInv'
<1> USE DEF TypeInv, TypeOK, PcType
<1>1. CASE MainPoll
  <2>1. /\ receiveQueue \in Seq(AllMessages) /\ receiveQueue # << >>
        /\ receiveQueue' = Tail(receiveQueue) /\ pc'[receiver] = pc[receiver]
        /\ pc'[main] \in {"deinit", "dispatch"}
        /\ pc'[main] = "deinit" => Head(receiveQueue) = NULL
    BY <1>1 DEF MainPoll, QueueType, Goto
  <2>2. /\ Head(receiveQueue) = receiveQueue[1] /\ Len(receiveQueue) >= 1
        /\ Len(receiveQueue') = Len(receiveQueue) - 1 /\ Len(receiveQueue) \in Nat
        /\ \A i \in 1 .. Len(receiveQueue) - 1 : receiveQueue'[i] = receiveQueue[i + 1]
    BY <2>1, Removed
  <2>3. ASSUME NEW i \in 1 .. Len(receiveQueue'), receiveQueue'[i] = NULL
        PROVE  i = Len(receiveQueue') /\ pc'[receiver] \in {"stop", "ended"}
    <3>1. i + 1 \in 1 .. Len(receiveQueue) /\ receiveQueue[i + 1] = NULL
      BY <2>2, <2>3
    <3>2. i + 1 = Len(receiveQueue) /\ pc[receiver] \in {"stop", "ended"}
      BY <3>1 DEF NullInv
    <3>3. i \in Int /\ Len(receiveQueue') = Len(receiveQueue) - 1 /\ Len(receiveQueue) \in Int
      BY <2>2
    <3>4. i = Len(receiveQueue')
      BY <3>2, <3>3
    <3>5. QED
      BY <2>1, <3>2, <3>4
  <2>4. ASSUME pc'[main] = "deinit"
        PROVE  receiveQueue' = << >> /\ pc'[receiver] \in {"stop", "ended"}
    <3>1. Len(receiveQueue') = 0 /\ pc'[receiver] \in {"stop", "ended"}
      <4>1. 1 \in 1 .. Len(receiveQueue) /\ receiveQueue[1] = NULL
        BY <2>1, <2>2, <2>4
      <4>2. 1 = Len(receiveQueue) /\ pc[receiver] \in {"stop", "ended"}
        BY <4>1 DEF NullInv
      <4>3. QED
        BY <2>1, <2>2, <4>2
    <3>2. receiveQueue' \in Seq(AllMessages)
      BY <2>1, Removed
    <3>3. QED
      BY <3>1, <3>2
  <2>5. QED
    BY <2>1, <2>3, <2>4 DEF NullInv, Ending
<1>2. CASE CheckPort \/ SpawnerStep \/ HandlerStep \/ MainReply
  <2>1. UNCHANGED receiveQueue /\ pc'[receiver] = pc[receiver]
    BY <1>2 DEF CheckPort, SpawnerStep, BulkInit, MethodInit, SignalsInit, OpenService, DenyService,
                HandlerStep, Keepalive, MethodOnBytesReceived, BulkOnBytesReceived, SendStatus,
                SignalsOnBytesReceived, CallNull, MainReply, Enqueue, Goto, HandledInv, Addressed, queues
  <2>2. /\ pc'[main] \in {"reply", "poll", "call", "apply", "status write", "crashed"}
        /\ pc'[main] = "status write" => returnTo' = "poll"
    BY <1>2 DEF CheckPort, SpawnerStep, BulkInit, MethodInit, SignalsInit, OpenService, DenyService,
                HandlerStep, Keepalive, MethodOnBytesReceived, BulkOnBytesReceived, SendStatus,
                SignalsOnBytesReceived, CallNull, MainReply, Enqueue, Goto, HandledInv, Addressed
  <2>3. QED
    BY <2>1, <2>2, NullQuiet DEF Ending
<1>3. CASE StatusStep
  <2>1. UNCHANGED receiveQueue /\ pc'[receiver] = pc[receiver]
    BY <1>3 DEF StatusStep, OnClose, OnEof, MethodOnEof, CheckAfterStatus, Goto, queues
  <2>2. /\ pc'[main] \in {"status check", "status write", "crashed", "poll", "lock"}
        /\ pc'[main] \in {"status write", "lock"} => returnTo' # "deinit"
    BY <1>3 DEF StatusStep, OnClose, OnEof, MethodOnEof, CheckAfterStatus, Goto
  <2>3. QED
    BY <2>1, <2>2, NullQuiet DEF Ending
<1>4. CASE PortStep(main)
  BY <1>4, PortKeepsNull DEF Workers
<1>5. CASE DeInitPort \/ DeInitStopSender \/ DeInitJoin
  <2>1. UNCHANGED receiveQueue /\ pc'[receiver] = pc[receiver] /\ Ending
        /\ pc'[main] \notin {"status write", "both closed?"}
    BY <1>5 DEF DeInitPort, DeInitStopSender, DeInitJoin, Enqueue, Goto, queues, Ending
  <2>2. QED
    BY <2>1, NullQuiet
<1>6. ASSUME receiveQueue' = << >>, pc'[main] \in {"crashed", "accept", "poll"}
      PROVE  NullInv'
  <2>1. \A q : q = << >> => 1 .. Len(q) = {}
    OBVIOUS
  <2>2. QED
    BY <1>6, <2>1 DEF NullInv, Ending
<1>7. CASE DeInitFree
  <2>1. receiveQueue' = << >> /\ pc'[main] \in {"crashed", "accept"}
    BY <1>7 DEF DeInitFree, Goto
  <2>2. QED
    BY <1>6, <2>1
<1>8. CASE Accept
  <2>1. receiveQueue' = << >> /\ pc'[main] = "poll"
    BY <1>8 DEF Accept
  <2>2. QED
    BY <1>6, <2>1
<1>9. QED
  BY <1>1, <1>2, <1>3, <1>4, <1>5, <1>7, <1>8 DEF MainStep, DeInitStep

\* Nothing follows NULL in the receive queue from the start on.
LEMMA NullInductive ==
  /\ Init => NullInv
  /\ TypeInv /\ NullInv /\ [Next]_vars => NullInv'
<1>1. Init => NullInv
  <2>1. \A q : q = << >> => Len(q) = 0
    OBVIOUS
  <2>2. QED
    BY <2>1 DEF Init, NullInv, Ending
<1>2. ASSUME TypeInv, NullInv, Next PROVE NullInv'
  BY <1>2, LinkKeepsNull, ThreadKeepsNull, MainKeepsNull DEF Next
<1>3. ASSUME NullInv, UNCHANGED vars PROVE NullInv'
  BY <1>3 DEF vars, NullInv, Ending
<1>4. QED
  BY <1>1, <1>2, <1>3

\* Main leaves its loop only with everything of the connection behind it, and
\* deInitreceiveQueue, which would dereference a NULL, finds none (receiverLoop,
\* main.c and deInitServer).
THEOREM NullIsLastHolds == Spec => []NullIsLast
<1>1. NullInv => NullIsLast
  BY DEF NullInv, NullIsLast, Ending
<1>2. QED
  BY <1>1, TypeInvariant, NullInductive, PTL DEF Spec
-----------------------------------------------------------------------------
(* The end of a connection.                                                *)

\* The thread of a service that has still to do with its port.
Engaged(k) == pc[k] \notin {"none", "unlock", "ended"}

\* A port that is not used has no service, and one that is engaged by a thread
\* is that thread's; main does not reset it under the thread.
OwnedInv ==
  /\ \A p \in Ports : services[p].port = -1 => services[p].kind = "none" /\ services[p].inst = 0
  /\ \A k \in Instances : Engaged(k) =>
       /\ services[at[k]].port # -1 /\ services[at[k]].inst = k
       /\ services[at[k]].kind \in {"Bulk", "Signals"}
       /\ pc[k] # "join"
  /\ pc[main] = "reset" => \A k \in Instances : Engaged(k) => at[k] # at[main]

\* The loop of deInitServer leaves no port in use behind it.
InLoop ==
  \/ pc[main] = "deinit"
  \/ pc[main] \in {"lock", "join", "reset", "unlock"} /\ returnTo = "deinit"
LoopInv ==
  /\ pc[main] \in {"status write", "both closed?"} => returnTo # "deinit"
  /\ InLoop => \A p \in Ports : p < at[main] => services[p].port = -1
  /\ pc[main] \in {"stop sender", "join receiver", "join sender", "free", "accept"} =>
       \A p \in Ports : services[p].port = -1
  /\ pc[main] \in {"join sender", "free", "accept"} => pc[receiver] = "ended"
  /\ pc[main] \in {"free", "accept"} => pc[sender] = "ended"

\* Without bulk services, the port that was tested is still in use when main uses
\* it, no thread but main does anything to a port, and a free port is ready.
QuietInv ==
  /\ FreePortIsReady
  /\ pc[main] \in {"call", "apply"} => services[held[main].port].port # -1
  /\ \A k \in Instances : pc[k] \in {"none", "start", "stuck", "read", "write", "ended"}

\* If moreover every service starts, a port in use has its handlers.
HandlersInv ==
  /\ \A p \in Ports : services[p].port # -1 => services[p].kind # "none"
  /\ pc[main] # "crashed"

\* No port changes hands: at most its halves close.
SameSlots ==
  \A p \in Ports : /\ services'[p].port = services[p].port
                   /\ services'[p].kind = services[p].kind
                   /\ services'[p].inst = services[p].inst
Still(t) == pc'[t] = pc[t]
KeepsEnded == \A t \in {receiver, sender} : pc[t] = "ended" => pc'[t] = "ended"

\* Closing one half or both is such a change.
LEMMA HalvesClose ==
  ASSUME TableType, NEW p,
         \/ services' = [services EXCEPT ![p] = [@ EXCEPT !.outputOpen = FALSE]]
         \/ services' = [services EXCEPT ![p] = [@ EXCEPT !.inputOpen = FALSE]]
         \/ services' = [services EXCEPT ![p].outputOpen = FALSE]
         \/ services' = [services EXCEPT ![p].inputOpen = FALSE]
         \/ services' = [services EXCEPT ![p].inputOpen = FALSE, ![p].outputOpen = FALSE]
  PROVE  SameSlots
<1>1. services \in [Ports -> Services]
  BY DEF TableType, Services
<1> SUFFICES ASSUME NEW q \in Ports
             PROVE  /\ services'[q].port = services[q].port
                    /\ services'[q].kind = services[q].kind
                    /\ services'[q].inst = services[q].inst
  BY DEF SameSlots
<1>2. CASE q # p
  BY <1>1, <1>2
<1>3. CASE q = p
  BY <1>1, <1>3 DEF Services
<1>4. QED
  BY <1>2, <1>3

\* What the steps leave alone: those of the two threads of the connection,
LEMMA OuterFrame ==
  ASSUME TypeInv, LinkDown \/ Receive \/ ReceiverStep \/ SenderStep \/ Finished
  PROVE  /\ UNCHANGED <<services, at, returnTo>> /\ held'[main] = held[main]
         /\ \A t \in Workers : Still(t)
         /\ KeepsEnded
<1> USE DEF Workers, Still, KeepsEnded, TypeInv, TypeOK, PcType, ThreadType, Goto, table, where
<1>1. CASE LinkDown \/ Finished
  BY <1>1 DEF LinkDown, Finished, vars
<1>2. CASE Receive \/ ReceiverStep
  BY <1>2 DEF Receive, ReceiverStep, ReceiverError, ReceiverAdd, ReceiverStop
<1>3. CASE SenderStep
  BY <1>3 DEF SenderStep, SenderTest, SenderPoll, SenderWrite
<1>4. QED
  BY <1>1, <1>2, <1>3

\* of the thread of a service,
LEMMA ThreadFrame ==
  ASSUME TypeInv, NEW k \in Instances, ThreadData(k) \/ BulkReadEnd(k) \/ ThreadStep(k), ~PortStep(k)
  PROVE  /\ SameSlots /\ UNCHANGED <<at, returnTo>> /\ held'[main] = held[main]
         /\ \A t \in Threads \ {k} : Still(t)
         /\ Engaged(k) /\ pc'[k] \in {"read", "stuck", "write", "status write", "ended"}
         /\ services' # services => pc'[k] = "status write"
         /\ pc'[k] = "status write" => services[at[k]].kind = "Bulk"
<1> USE DEF Still, TypeInv, TypeOK, PcType, ThreadType, Goto, table, where
<1>1. CASE ThreadStart(k)
  BY <1>1 DEF ThreadStart, SameSlots, Engaged
<1>2. CASE ThreadData(k)
  BY <1>2 DEF ThreadData, SameSlots, Engaged
<1>3. CASE ThreadWrite(k)
  BY <1>3 DEF ThreadWrite, Enqueue, SameSlots, Engaged
<1>4. CASE SignalWatchStop(k)
  BY <1>4 DEF SignalWatchStop, SameSlots, Engaged
<1>5. CASE BulkReadEnd(k)
  <2>1. SameSlots
    BY <1>5, HalvesClose DEF BulkReadEnd, SendStatus
  <2>2. at' = at
    BY <1>5 DEF BulkReadEnd, SendStatus
  <2>3. QED
    BY <1>5, <2>1, <2>2 DEF BulkReadEnd, SendStatus, Engaged
<1>6. QED
  BY <1>1, <1>2, <1>3, <1>4, <1>5 DEF ThreadStep

\* and of main when it handles a message that opens no port.
LEMMA HandlerFrame ==
  ASSUME TypeInv, CheckPort \/ HandlerStep \/ MainReply \/ StatusStep
  PROVE  /\ SameSlots
         /\ \A k \in Instances : at'[k] = at[k]
         /\ \A t \in Threads \ {main} : Still(t)
         /\ pc[main] \in {"dispatch", "reply", "call", "apply", "status check"}
         /\ pc'[main] \in {"reply", "poll", "call", "apply", "status write", "status check", "lock", "crashed"}
         /\ pc'[main] \in {"status write", "lock"} => returnTo' # "deinit"
<1> USE DEF Still, TypeInv, TypeOK, PcType, ThreadType, Goto, table, where, Workers
<1>1. CASE CheckPort
  BY <1>1 DEF CheckPort, SameSlots
<1>2. CASE Keepalive \/ MainReply
  BY <1>2 DEF Keepalive, MainReply, Enqueue, SameSlots
<1>3. CASE MethodOnBytesReceived \/ SignalsOnBytesReceived \/ CallNull
  BY <1>3 DEF MethodOnBytesReceived, SignalsOnBytesReceived, CallNull, Call, SameSlots
<1>4. CASE BulkOnBytesReceived
  <2>1. SameSlots
    <3>1. CASE UNCHANGED services
      BY <3>1 DEF SameSlots
    <3>2. CASE SendStatus(main, held[main].port, "close", "call")
      BY <3>2, HalvesClose DEF SendStatus
    <3>3. QED
      BY <1>4, <3>1, <3>2 DEF BulkOnBytesReceived
  <2>2. \A k \in Instances : at'[k] = at[k]
    BY <1>4 DEF BulkOnBytesReceived, SendStatus
  <2>3. QED
    BY <1>4, <2>1, <2>2 DEF BulkOnBytesReceived, SendStatus, Call
<1>5. CASE StatusStep
  <2>1. SameSlots
    <3>1. CASE OnClose \/ OnEof \/ MethodOnEof
      BY <3>1, HalvesClose DEF OnClose, OnEof, MethodOnEof
    <3>2. CASE CheckAfterStatus
      BY <3>2 DEF CheckAfterStatus, SameSlots
    <3>3. QED
      BY <1>5, <3>1, <3>2 DEF StatusStep
  <2>2. \A k \in Instances : at'[k] = at[k]
    BY <1>5 DEF StatusStep, OnClose, OnEof, MethodOnEof, CheckAfterStatus
  <2>3. QED
    BY <1>5, <2>1, <2>2 DEF StatusStep, OnClose, OnEof, MethodOnEof, CheckAfterStatus
<1>6. QED
  BY <1>1, <1>2, <1>3, <1>4, <1>5 DEF HandlerStep

\* The spawner gives one free port away, to a service that starts or to none.
Opens(p, k) ==
  /\ at'[k] = p /\ services'[p].inst = k /\ services'[p].kind \in {"Bulk", "Method", "Signals"} \cap Kinds
  /\ pc'[k] \in {"none", "start"}
  /\ pc'[k] = "start" => services'[p].kind \in {"Bulk", "Signals"}
  /\ \A j \in Instances \ {k} : at'[j] = at[j] /\ Still(j)
Gives(p) ==
  /\ services[p].port = -1 /\ services'[p].port = p
  /\ \A q \in Ports \ {p} : services'[q] = services[q]
  /\ \/ Payloads /\ \A j \in Instances : at'[j] = at[j] /\ Still(j)
     \/ \E k \in Instances : Opens(p, k)

\* The spawner gives one free port to a service or none, and main goes on to its
\* answer.
LEMMA SpawnerFrame ==
  ASSUME TypeInv, SpawnerStep
  PROVE  /\ pc[main] = "dispatch" /\ pc'[main] = "reply" /\ Still(receiver) /\ Still(sender)
         /\ \/ UNCHANGED services /\ \A j \in Instances : at'[j] = at[j] /\ Still(j)
            \/ \E p \in Ports : Gives(p)
<1> USE DEF TypeInv, TypeOK
<1>0. /\ FreePorts \subseteq Ports /\ \A p \in FreePorts : services[p].port = -1
      /\ FreePorts # {} => openNewPort \in FreePorts
      /\ services \in [Ports -> Services]
  BY OpenedIsFree DEF FreePorts, TableType, Services
<1>1. ASSUME NEW kind \in {"Bulk", "Method", "Signals"}, NEW thread \in {"none", "start"},
             OpenService(kind, thread), thread = "start" => kind # "Method"
      PROVE  /\ pc[main] = "dispatch" /\ pc'[main] = "reply" /\ Still(receiver) /\ Still(sender)
             /\ \E p \in Ports : Gives(p)
  <2> DEFINE k == held[main].inst
             p == openNewPort
  <2>1. p \in Ports /\ k \in Instances /\ kind \in Kinds /\ services[p].port = -1
    BY <1>0, <1>1 DEF OpenService, HandledInv, Addressed
  <2>2. /\ services' = [services EXCEPT ![p] = [@ EXCEPT !.port = p, !.kind = kind, !.inst = k]]
        /\ pc' = [pc EXCEPT ![main] = "reply", ![k] = thread]
        /\ at' = [at EXCEPT ![k] = p]
        /\ pc[main] = "dispatch"
    BY <1>1 DEF OpenService
  <2>3. /\ pc[main] = "dispatch" /\ pc'[main] = "reply" /\ Still(receiver) /\ Still(sender)
        /\ pc'[k] = thread /\ \A j \in Instances \ {k} : Still(j)
    <3> HIDE DEF k, p
    <3>1. QED
      BY <2>1, <2>2 DEF PcType, Still
  <2>4. at'[k] = p /\ \A j \in Instances \ {k} : at'[j] = at[j]
    <3> HIDE DEF k, p
    <3>1. QED
      BY <2>1, <2>2 DEF ThreadType, Workers
  <2>5. /\ services'[p].port = p /\ services'[p].kind = kind /\ services'[p].inst = k
        /\ \A q \in Ports \ {p} : services'[q] = services[q]
    <3> HIDE DEF k, p
    <3>1. QED
      BY <1>0, <2>1, <2>2 DEF Services
  <2>6. Opens(p, k)
    BY <1>1, <2>1, <2>3, <2>4, <2>5 DEF Opens
  <2> HIDE DEF k, p
  <2>7. Gives(p)
    BY <2>1, <2>5, <2>6 DEF Gives
  <2>8. QED
    BY <2>1, <2>3, <2>7
<1>2. CASE DenyService
  <2>1. /\ pc[main] = "dispatch" /\ pc'[main] = "reply" /\ Still(receiver) /\ Still(sender)
        /\ \A j \in Instances : at'[j] = at[j] /\ Still(j)
    BY <1>2 DEF DenyService, Goto, PcType, Still, where
  <2>2. CASE UNCHANGED table
    BY <2>1, <2>2 DEF table
  <2>3. CASE /\ FreePorts # {} /\ Payloads
             /\ services' = [services EXCEPT ![openNewPort].port = openNewPort]
    <3> DEFINE p == openNewPort
    <3>1. p \in Ports /\ services[p].port = -1
      BY <1>0, <2>3
    <3>2. services' = [services EXCEPT ![p].port = p] /\ Payloads
      BY <2>3
    <3> HIDE DEF p
    <3>3. services'[p].port = p /\ \A q \in Ports \ {p} : services'[q] = services[q]
      BY <1>0, <3>1, <3>2 DEF Services
    <3>4. Gives(p)
      BY <2>1, <3>1, <3>2, <3>3 DEF Gives
    <3>5. QED
      BY <2>1, <3>1, <3>4
  <2>4. QED
    BY <1>2, <2>2, <2>3 DEF DenyService
<1>3. QED
  BY <1>1, <1>2 DEF SpawnerStep, BulkInit, MethodInit, SignalsInit

\* Taking a message and taking down change no port.
LEMMA SessionFrame ==
  ASSUME TypeInv, MainPoll \/ DeInitStep
  PROVE  /\ UNCHANGED services
         /\ \A k \in Instances : at'[k] = at[k]
         /\ \A t \in Threads \ {main} : Still(t)
         /\ pc[main] \in {"poll", "deinit", "stop sender", "join receiver", "join sender", "free"}
         /\ pc'[main] \notin {"reset", "call", "apply"}
         /\ pc'[main] = "crashed" =>
              pc[main] = "free" /\ \E i \in 1 .. Len(receiveQueue) : receiveQueue[i] = NULL
<1> USE DEF Still, TypeInv, TypeOK, PcType, ThreadType, Goto, table, where, Workers
<1>1. CASE MainPoll \/ DeInitPort
  BY <1>1 DEF MainPoll, DeInitPort
<1>2. CASE DeInitStopSender \/ DeInitJoin \/ DeInitFree
  BY <1>2 DEF DeInitStopSender, DeInitJoin, DeInitFree, Enqueue
<1>3. QED
  BY <1>1, <1>2 DEF DeInitStep
-----------------------------------------------------------------------------
(* Threads and their ports.                                                *)

\* A step that opens no port, cleans none up, and lets no thread begin or join.
LEMMA OwnedQuiet ==
  ASSUME TypeInv, OwnedInv, SameSlots,
         \A k \in Instances :
           /\ at'[k] = at[k]
           /\ Engaged(k)' => Engaged(k) /\ pc'[k] # "join",
         pc'[main] = "reset" => pc[main] = "reset" /\ at'[main] = at[main]
  PROVE  OwnedInv'
<1>1. \A k \in Instances : Engaged(k) => at[k] \in Ports
  BY DEF Engaged, TypeInv, PlacedInv
<1>2. QED
  BY <1>1 DEF OwnedInv, SameSlots

\* What a worker does with a port takes no port from the thread it belongs to:
\* main resets it only after the join, and a thread only its own, as its last deed.
LEMMA PortKeepsOwned ==
  ASSUME TypeInv, OwnedInv, NEW t \in Workers, PortStep(t)
  PROVE  OwnedInv'
<1> USE DEF TypeInv, TypeOK
<1>0. /\ t # main => t \in Instances
      /\ \A k \in Instances : Engaged(k) => at[k] \in Ports
      /\ \A k \in Instances : Engaged(k) => pc[k] # "join"
      /\ UNCHANGED at
      /\ \A u \in Threads \ {t} : pc'[u] = pc[u]
  <2>1. UNCHANGED at
    BY DEF PortStep, StatusWrite, CheckBothClosed, CleanupLock, CleanupJoin, CleanupReset, CleanupUnlock, where
  <2>2. \A u \in Threads \ {t} : pc'[u] = pc[u]
    BY DEF PortStep, StatusWrite, CheckBothClosed, CleanupLock, CleanupJoin, CleanupReset, CleanupUnlock, Goto, PcType
  <2>3. QED
    BY <2>1, <2>2 DEF Workers, Engaged, PlacedInv, OwnedInv
<1>1. CASE StatusWrite(t) \/ CheckBothClosed(t) \/ CleanupUnlock(t)
  <2>1. SameSlots
    BY <1>1 DEF StatusWrite, CheckBothClosed, CleanupUnlock, table, SameSlots
  <2>2. /\ pc[t] \in {"status write", "both closed?", "unlock"}
        /\ pc'[t] \in {"both closed?", "lock", After(t)}
        /\ pc[t] = "unlock" => pc'[t] = After(t)
    BY <1>1 DEF StatusWrite, CheckBothClosed, CleanupUnlock, Goto, PcType, Threads
  <2>3. pc'[t] \notin {"join", "reset"} /\ (t # main /\ pc[t] = "unlock" => pc'[t] = "ended")
    BY <2>2 DEF After, ThreadType
  <2>4. QED
    BY <1>0, <2>1, <2>2, <2>3, OwnedQuiet DEF Engaged
<1>2. CASE CleanupLock(t) /\ t # main
  <2>1. services[at[t]].inst = t /\ pc[t] = "lock"
    BY <1>0, <1>2 DEF CleanupLock, Goto, OwnedInv, Engaged
  <2>2. pc'[t] = "reset"
    BY <1>2, <2>1 DEF CleanupLock, Goto, PcType, Threads
  <2>3. SameSlots
    BY <1>2 DEF CleanupLock, table, SameSlots
  <2>4. QED
    BY <1>0, <1>2, <2>1, <2>2, <2>3, OwnedQuiet DEF Engaged
<1>3. CASE t = main /\ (CleanupLock(main) \/ CleanupJoin(main))
  <2>1. UNCHANGED services /\ \A k \in Instances : pc'[k] = pc[k]
    BY <1>0, <1>3 DEF CleanupLock, CleanupJoin, table
  <2>2. ASSUME pc'[main] = "reset", NEW k \in Instances, Engaged(k), at[k] = at[main]
        PROVE  FALSE
    <3>1. services[at[main]].inst = k /\ services[at[main]].kind \in {"Bulk", "Signals"}
      BY <2>2 DEF OwnedInv
    <3>2. CASE CleanupLock(main)
      BY <2>2, <3>1, <3>2 DEF CleanupLock, Goto, PcType
    <3>3. CASE CleanupJoin(main)
      BY <2>2, <3>1, <3>3 DEF CleanupJoin, Engaged
    <3>4. QED
      BY <1>3, <3>2, <3>3
  <2>3. QED
    BY <1>0, <2>1, <2>2 DEF OwnedInv, Engaged
<1>4. CASE CleanupJoin(t) /\ t # main
  BY <1>0, <1>4 DEF CleanupJoin, Goto, OwnedInv, Engaged
<1>5. CASE CleanupReset(t)
  <2>1. services' = [services EXCEPT ![at[t]] = Free] /\ pc[t] = "reset" /\ pc'[t] = "unlock"
    BY <1>5 DEF CleanupReset, Goto, PcType, Threads
  <2>2. ASSUME NEW k \in Instances, Engaged(k)'
        PROVE  Engaged(k) /\ k # t /\ at[k] \in Ports /\ at[k] # at[t]
    BY <1>0, <2>1, <2>2 DEF Engaged, OwnedInv
  <2>3. \A p \in Ports : services'[p] = services[p] \/ services'[p] = Free
    BY <2>1 DEF TableType
  <2>4. \A p \in Ports : p # at[t] => services'[p] = services[p]
    BY <2>1 DEF TableType
  <2>5. QED
    BY <1>0, <2>1, <2>2, <2>3, <2>4 DEF OwnedInv, Engaged, Free
<1>6. QED
  BY <1>1, <1>2, <1>3, <1>4, <1>5 DEF PortStep

\* Every step leaves each thread its port.
LEMMA StepKeepsOwned ==
  ASSUME TypeInv, OwnedInv, LoopInv, Next
  PROVE  OwnedInv'
<1>0. \A k \in Instances : Engaged(k) => pc[k] # "join"
  BY DEF OwnedInv
<1>1. CASE LinkDown \/ Receive \/ ReceiverStep \/ SenderStep \/ Finished
  BY <1>0, <1>1, OuterFrame, OwnedQuiet DEF Workers, Still, SameSlots, Engaged
<1>2. ASSUME NEW t \in Workers, PortStep(t) PROVE OwnedInv'
  BY <1>2, PortKeepsOwned
<1>3. ASSUME NEW k \in Instances, ThreadData(k) \/ BulkReadEnd(k) \/ ThreadStep(k), ~PortStep(k)
      PROVE  OwnedInv'
  <2>1. /\ SameSlots /\ at' = at /\ \A t \in Threads \ {k} : pc'[t] = pc[t]
        /\ Engaged(k) /\ pc'[k] \in {"read", "stuck", "write", "status write", "ended"}
    BY <1>3, ThreadFrame DEF Still
  <2>2. pc'[main] = pc[main]
    BY <2>1
  <2>3. ASSUME NEW j \in Instances, Engaged(j)' PROVE Engaged(j) /\ pc'[j] # "join"
    <3>1. CASE j = k
      BY <2>1, <3>1
    <3>2. CASE j # k
      BY <1>0, <2>1, <2>3, <3>2 DEF Engaged
    <3>3. QED
      BY <3>1, <3>2
  <2>4. QED
    BY <2>1, <2>2, <2>3, OwnedQuiet
<1>4. CASE CheckPort \/ HandlerStep \/ MainReply \/ StatusStep
  BY <1>0, <1>4, HandlerFrame, OwnedQuiet DEF Still, Engaged
<1>5. CASE MainPoll \/ DeInitStep
  BY <1>0, <1>5, SessionFrame, OwnedQuiet DEF Still, Engaged, SameSlots
<1>6. CASE SpawnerStep
  <2>1. \A k \in Instances : Engaged(k) => at[k] \in Ports
    BY DEF Engaged, TypeInv, PlacedInv
  <2>2. CASE UNCHANGED services /\ \A j \in Instances : at'[j] = at[j] /\ Still(j)
    BY <1>0, <1>6, <2>2, SpawnerFrame, OwnedQuiet DEF Still, Engaged, SameSlots
  <2>3. ASSUME NEW p \in Ports, Gives(p) PROVE OwnedInv'
    <3>1. /\ pc'[main] = "reply" /\ services[p].port = -1 /\ services'[p].port = p /\ p # -1
          /\ \A q \in Ports \ {p} : services'[q] = services[q]
      BY <1>6, <2>3, SpawnerFrame DEF Gives, Ports
    <3>2. \A k \in Instances : Engaged(k) => at[k] \in Ports \ {p}
      BY <2>1, <3>1 DEF OwnedInv
    <3>3. CASE \A j \in Instances : at'[j] = at[j] /\ Still(j)
      BY <3>1, <3>2, <3>3 DEF OwnedInv, Still, Engaged
    <3>4. ASSUME NEW k \in Instances, Opens(p, k) PROVE OwnedInv'
      <4>1. \A j \in Instances \ {k} : at'[j] = at[j] /\ pc'[j] = pc[j]
        BY <3>4 DEF Opens, Still
      <4>2. Engaged(k)' => /\ services'[at'[k]].port # -1 /\ services'[at'[k]].inst = k
                           /\ services'[at'[k]].kind \in {"Bulk", "Signals"}
                           /\ pc'[k] # "join"
        BY <3>1, <3>4 DEF Opens, Engaged
      <4>3. QED
        BY <3>1, <3>2, <4>1, <4>2 DEF OwnedInv, Engaged
    <3>5. QED
      BY <2>3, <3>3, <3>4 DEF Gives
  <2>4. QED
    BY <1>6, <2>2, <2>3, SpawnerFrame
<1>7. CASE Accept
  <2>1. \A k \in Instances : ~Engaged(k)
    BY <1>7 DEF Accept, LoopInv, OwnedInv, TypeInv, PlacedInv, Engaged
  <2>2. /\ \A k \in Instances : pc'[k] = pc[k]
        /\ pc'[main] = "poll"
    BY <1>7 DEF Accept, TypeInv, TypeOK, PcType
  <2>3. \A p \in Ports : services'[p].port = -1 => services'[p] = Free
    BY <1>7 DEF Accept, Free
  <2>4. QED
    BY <2>1, <2>2, <2>3 DEF OwnedInv, Engaged, Free
<1>8. QED
  BY <1>1, <1>2, <1>3, <1>4, <1>5, <1>6, <1>7 DEF Next, MainStep, ThreadStep, Workers

\* The loop of deInitServer leaves no port in use behind it, and nothing starts
\* one again before the next connection.
LEMMA StepKeepsLoop ==
  ASSUME TypeInv, LoopInv, Next
  PROVE  LoopInv'
<1> USE DEF TypeInv, TypeOK
<1>0. ASSUME \A p \in Ports : services[p].port = -1 => services'[p].port = -1,
             KeepsEnded, Still(main), UNCHANGED returnTo, at'[main] = at[main]
      PROVE  LoopInv'
  BY <1>0 DEF LoopInv, InLoop, KeepsEnded, Still
<1>1. CASE LinkDown \/ Receive \/ ReceiverStep \/ SenderStep \/ Finished
  BY <1>0, <1>1, OuterFrame DEF Workers
<1>2. ASSUME NEW t \in Workers, PortStep(t) PROVE LoopInv'
  <2>1. /\ UNCHANGED <<returnTo, at>> /\ \A u \in Threads \ {t} : pc'[u] = pc[u]
    BY <1>2 DEF PortStep, StatusWrite, CheckBothClosed, CleanupLock, CleanupJoin, CleanupReset,
                CleanupUnlock, Goto, PcType, where
  <2>2. \A p \in Ports : services[p].port = -1 => services'[p].port = -1
    <3>1. CASE CleanupReset(t)
      <4>1. services' = [services EXCEPT ![at[t]] = Free]
        BY <3>1 DEF CleanupReset
      <4>2. QED
        BY <4>1 DEF TableType, Free
    <3>2. CASE ~CleanupReset(t)
      BY <1>2, <3>2 DEF PortStep, StatusWrite, CheckBothClosed, CleanupLock, CleanupJoin,
                        CleanupUnlock, table
    <3>3. QED
      BY <3>1, <3>2
  <2>3. CASE t # main
    BY <1>0, <2>1, <2>2, <2>3 DEF KeepsEnded, Still, Workers
  <2>4. CASE t = main
    <3>1. /\ pc'[main] \in {"both closed?", "lock", "join", "reset", "unlock", "poll", "status check", "deinit"}
          /\ pc'[main] \in {"both closed?", "deinit"} \cup {"lock", "join", "reset", "unlock"} =>
               (InLoop' <=> InLoop)
          /\ pc'[main] = "both closed?" => returnTo # "deinit"
      BY <1>2, <2>1, <2>4 DEF PortStep, StatusWrite, CheckBothClosed, CleanupLock, CleanupJoin, CleanupReset,
                CleanupUnlock, After, Goto, PcType, ThreadType, LoopInv, InLoop
    <3>2. QED
      BY <2>1, <2>2, <2>4, <3>1 DEF LoopInv, InLoop
  <2>5. QED
    BY <2>3, <2>4
<1>3. ASSUME NEW k \in Instances, ThreadData(k) \/ BulkReadEnd(k) \/ ThreadStep(k), ~PortStep(k)
      PROVE  LoopInv'
  <2>1. SameSlots /\ UNCHANGED <<at, returnTo>> /\ \A t \in Threads \ {k} : Still(t)
    BY <1>3, ThreadFrame
  <2>2. KeepsEnded /\ Still(main)
    BY <2>1 DEF KeepsEnded, Still
  <2>3. QED
    BY <1>0, <2>1, <2>2 DEF SameSlots
<1>4. CASE CheckPort \/ HandlerStep \/ MainReply \/ StatusStep
  BY <1>4, HandlerFrame DEF LoopInv, InLoop
<1>5. CASE SpawnerStep
  BY <1>5, SpawnerFrame DEF LoopInv, InLoop
<1>6. CASE MainPoll
  <2>1. at'[main] = 0 /\ pc'[main] \in {"deinit", "dispatch"}
    BY <1>6 DEF MainPoll, Goto, PcType, ThreadType, Workers
  <2>2. \A p \in Ports : ~(p < 0)
    BY PortRange
  <2>3. QED
    BY <2>1, <2>2 DEF LoopInv, InLoop
<1>7. CASE DeInitPort
  <2>1. UNCHANGED services /\ pc[main] = "deinit"
    BY <1>7 DEF DeInitPort, Goto, table
  <2>2. CASE at[main] \in Ports /\ services[at[main]].port # -1
    <3>1. pc'[main] = "lock" /\ at'[main] = at[main]
      BY <1>7, <2>2 DEF DeInitPort, Goto, PcType
    <3>2. QED
      BY <2>1, <3>1 DEF LoopInv, InLoop
  <2>3. CASE at[main] \in Ports /\ services[at[main]].port = -1
    <3>1. pc'[main] = "deinit" /\ at'[main] = at[main] + 1
      BY <1>7, <2>3 DEF DeInitPort, Goto, PcType, ThreadType, Workers
    <3>2. \A p \in Ports : p < at[main] + 1 => p < at[main] \/ p = at[main]
      BY <2>3 DEF Ports
    <3>3. QED
      BY <2>1, <2>3, <3>1, <3>2 DEF LoopInv, InLoop
  <2>4. CASE at[main] \notin Ports
    <3>1. pc'[main] = "stop sender"
      BY <1>7, <2>4 DEF DeInitPort, Goto, PcType
    <3>2. at[main] \in 0 .. MAX_PORTS
      BY DEF ThreadType, Workers
    <3>3. \A p \in Ports : p < at[main]
      BY <2>4, <3>2 DEF Ports
    <3>4. QED
      BY <2>1, <3>1, <3>3 DEF LoopInv, InLoop
  <2>5. QED
    BY <2>2, <2>3, <2>4
<1>8. CASE DeInitStopSender \/ DeInitJoin \/ DeInitFree
  <2>1. UNCHANGED services /\ \A t \in Threads \ {main} : Still(t)
    BY <1>8, SessionFrame DEF DeInitStep
  <2>2. \/ pc[main] = "stop sender" /\ pc'[main] = "join receiver"
        \/ pc[main] = "join receiver" /\ pc'[main] = "join sender" /\ pc[receiver] = "ended"
        \/ pc[main] = "join sender" /\ pc'[main] = "free" /\ pc[sender] = "ended"
        \/ pc[main] = "free" /\ pc'[main] \in {"crashed", "accept"}
    BY <1>8 DEF DeInitStopSender, DeInitJoin, DeInitFree, Goto, PcType
  <2>3. QED
    BY <2>1, <2>2 DEF LoopInv, InLoop, Still
<1>9. CASE Accept
  BY <1>9 DEF Accept, PcType, LoopInv, InLoop
<1>10. QED
  BY <1>1, <1>2, <1>3, <1>4, <1>5, <1>6, <1>7, <1>8, <1>9
     DEF Next, MainStep, DeInitStep, ThreadStep, Workers

\* Both hold from the start.
LEMMA OverInductive ==
  /\ Init => OwnedInv /\ LoopInv
  /\ TypeInv /\ OwnedInv /\ LoopInv /\ [Next]_vars => OwnedInv' /\ LoopInv'
<1>1. Init => OwnedInv /\ LoopInv
  BY DEF Init, OwnedInv, LoopInv, InLoop, Engaged, Free, Threads, Workers, Instances
<1>2. ASSUME OwnedInv, LoopInv, UNCHANGED vars PROVE OwnedInv' /\ LoopInv'
  BY <1>2 DEF vars, OwnedInv, LoopInv, InLoop, Engaged
<1>3. QED
  BY <1>1, <1>2, StepKeepsOwned, StepKeepsLoop

\* Whatever services there were: when main waits for the next connection, every
\* port of the last one has been cleaned up, receiver and sender have ended, and no
\* service thread touches a port any more (deInitServer, CleanupService).
THEOREM ConnectionOverHolds == Spec => []ConnectionOver
<1>1. TypeInv /\ OwnedInv /\ LoopInv => ConnectionOver
  <2>1. ASSUME TypeInv, OwnedInv, LoopInv, pc[main] = "accept", NEW k \in Instances
        PROVE  ~Engaged(k)
    BY <2>1 DEF TypeInv, PlacedInv, OwnedInv, LoopInv, Engaged
  <2>2. QED
    BY <2>1 DEF ConnectionOver, LoopInv, Engaged
<1>2. QED
  BY <1>1, TypeInvariant, OverInductive, PTL DEF Spec
-----------------------------------------------------------------------------
(* Without bulk services.                                                  *)

\* Only a bulk service has a thread that cleans up a port.
LEMMA NoBulk ==
  ASSUME "Bulk" \notin Kinds, TypeInv, NEW p \in Ports
  PROVE  services[p].kind # "Bulk"
BY DEF TypeInv, TypeOK, TableType

\* A step that touches no service and lets main prepare no call.
LEMMA QuietFrame ==
  ASSUME QuietInv, UNCHANGED services, \A k \in Instances : Still(k),
         pc'[main] \in {"call", "apply"} => Still(main) /\ held'[main] = held[main]
  PROVE  QuietInv'
BY DEF QuietInv, FreePortIsReady, Still

\* Without bulk services only main touches the table, so what it tested stays so.
LEMMA StepKeepsQuiet ==
  ASSUME "Bulk" \notin Kinds, TypeInv, OwnedInv, QuietInv, Next
  PROVE  QuietInv'
<1> USE DEF TypeInv, TypeOK
<1>1. CASE LinkDown \/ Receive \/ ReceiverStep \/ SenderStep \/ Finished
  BY <1>1, OuterFrame, QuietFrame DEF Workers
<1>2. ASSUME NEW k \in Instances PROVE ~PortStep(k)
  BY DEF QuietInv, PortStep, StatusWrite, CheckBothClosed, CleanupLock, CleanupJoin, CleanupReset,
         CleanupUnlock, Goto
<1>3. ASSUME NEW k \in Instances, ThreadData(k) \/ BulkReadEnd(k) \/ ThreadStep(k)
      PROVE  QuietInv'
  <2>1. at[k] \in Ports
    BY <1>2, <1>3, ThreadFrame DEF Engaged, PlacedInv
  <2>2. UNCHANGED services /\ pc'[k] \in {"read", "stuck", "write", "ended"}
    BY <1>2, <1>3, <2>1, ThreadFrame, NoBulk
  <2>3. held'[main] = held[main] /\ \A t \in Threads \ {k} : pc'[t] = pc[t]
    BY <1>2, <1>3, ThreadFrame DEF Still
  <2>4. QED
    BY <2>2, <2>3 DEF QuietInv, FreePortIsReady
<1>4. CASE PortStep(main)
  <2>1. /\ pc'[main] \notin {"call", "apply"} /\ \A k \in Instances : pc'[k] = pc[k]
    BY <1>4 DEF PortStep, StatusWrite, CheckBothClosed, CleanupLock, CleanupJoin, CleanupReset,
                CleanupUnlock, After, Goto, PcType, ThreadType
  <2>2. UNCHANGED services \/ services' = [services EXCEPT ![at[main]] = Free]
    BY <1>4 DEF PortStep, StatusWrite, CheckBothClosed, CleanupLock, CleanupJoin, CleanupReset,
                CleanupUnlock, table
  <2>3. FreePortIsReady'
    BY <2>2 DEF QuietInv, FreePortIsReady, TableType
  <2>4. QED
    BY <2>1, <2>3 DEF QuietInv
<1>5. CASE CheckPort
  <2>1. /\ UNCHANGED services /\ held'[main] = held[main]
        /\ pc'[main] \in {"call", "apply"} => services[held[main].port].port # -1
    BY <1>5 DEF CheckPort, table, Goto, PcType
  <2>2. \A k \in Instances : Still(k)
    BY <1>5, HandlerFrame
  <2>3. QED
    BY <2>1, <2>2 DEF QuietInv, FreePortIsReady, Still
<1>6. CASE HandlerStep \/ MainReply \/ StatusStep
  <2>1. \A k \in Instances : Still(k)
    BY <1>6, HandlerFrame
  <2>2. pc'[main] \notin {"call", "apply"}
    BY <1>6 DEF HandlerStep, Keepalive, MethodOnBytesReceived, BulkOnBytesReceived, SendStatus,
                SignalsOnBytesReceived, CallNull, MainReply, StatusStep, OnClose, OnEof, MethodOnEof,
                CheckAfterStatus, Goto, PcType
  <2>3. \A q \in Ports : services'[q] = services[q] \/ (q = held[main].port /\ pc[main] \in {"call", "apply"})
    <3>1. CASE UNCHANGED services
      BY <3>1
    <3>2. CASE BulkOnBytesReceived \/ OnClose \/ OnEof \/ MethodOnEof
      BY <3>2 DEF BulkOnBytesReceived, SendStatus, OnClose, OnEof, MethodOnEof, Call, Goto, TableType
    <3>3. QED
      BY <1>6, <3>1, <3>2 DEF HandlerStep, Keepalive, MethodOnBytesReceived, SignalsOnBytesReceived,
           CallNull, MainReply, StatusStep, CheckAfterStatus, table
  <2>4. SameSlots
    BY <1>6, HandlerFrame
  <2>5. FreePortIsReady'
    BY <2>3, <2>4 DEF QuietInv, FreePortIsReady, SameSlots
  <2>6. QED
    BY <2>1, <2>2, <2>5 DEF QuietInv, Still
<1>7. CASE MainPoll \/ DeInitStep
  BY <1>7, SessionFrame, QuietFrame
<1>8. CASE SpawnerStep
  <2>1. CASE UNCHANGED services /\ \A j \in Instances : at'[j] = at[j] /\ Still(j)
    BY <1>8, <2>1, SpawnerFrame, QuietFrame
  <2>2. ASSUME NEW p \in Ports, Gives(p) PROVE QuietInv'
    <3>1. FreePortIsReady' /\ pc'[main] = "reply"
      BY <1>8, <2>2, SpawnerFrame DEF Gives, QuietInv, FreePortIsReady, Ports
    <3>2. \A k \in Instances : Still(k) \/ pc'[k] \in {"none", "start"}
      BY <2>2 DEF Gives, Opens
    <3>3. QED
      BY <3>1, <3>2 DEF QuietInv, Still
  <2>3. QED
    BY <1>8, <2>1, <2>2, SpawnerFrame
<1>9. CASE Accept
  <2>1. pc'[main] = "poll" /\ \A k \in Instances : pc'[k] = pc[k]
    BY <1>9 DEF Accept, PcType
  <2>2. \A p \in Ports : services'[p].port = -1 => services'[p] = Free
    BY <1>9 DEF Accept, Free
  <2>3. QED
    BY <2>1, <2>2 DEF QuietInv, FreePortIsReady
<1>10. QED
  BY <1>1, <1>2, <1>3, <1>4, <1>5, <1>6, <1>7, <1>8, <1>9 DEF Next, MainStep

\* It holds from the start.
LEMMA QuietInductive ==
  ASSUME "Bulk" \notin Kinds
  PROVE  /\ Init => QuietInv
         /\ TypeInv /\ OwnedInv /\ QuietInv /\ [Next]_vars => QuietInv'
<1>1. Init => QuietInv
  BY DEF Init, QuietInv, FreePortIsReady, Threads, Workers, Instances
<1>2. ASSUME QuietInv, UNCHANGED vars PROVE QuietInv'
  BY <1>2 DEF vars, QuietInv, FreePortIsReady
<1>3. QED
  BY <1>1, <1>2, StepKeepsQuiet

\* Without bulk services, whose threads clean up beside main, a free port is as a
\* new service needs it (CleanupService in bridge.c).
THEOREM FreePortIsReadyHolds ==
  ASSUME "Bulk" \notin Kinds
  PROVE  Spec => []FreePortIsReady
<1>1. QuietInv => FreePortIsReady
  BY DEF QuietInv
<1>2. QED
  BY <1>1, TypeInvariant, OverInductive, QuietInductive, PTL DEF Spec

\* Without bulk services nothing at all of a connection is left when main waits for
\* the next one (deInitServer).
THEOREM NothingOutlivesBridgeHolds ==
  ASSUME "Bulk" \notin Kinds
  PROVE  Spec => []NothingOutlivesBridge
<1>1. ConnectionOver /\ QuietInv => NothingOutlivesBridge
  BY DEF ConnectionOver, QuietInv, NothingOutlivesBridge, Engaged, Threads, Workers
<1>2. QED
  BY <1>1, ConnectionOverHolds, TypeInvariant, OverInductive, QuietInductive, PTL DEF Spec

\* A port in use stays in use with its handlers as long as nothing is given to no
\* service, and a call through NULL needs a port without handlers.
LEMMA StepKeepsHandlers ==
  ASSUME "Bulk" \notin Kinds, ~Payloads, TypeInv, NullInv, QuietInv, HandlersInv, Next
  PROVE  HandlersInv'
<1> USE DEF TypeInv, TypeOK
<1>0. ASSUME SameSlots, pc'[main] # "crashed" PROVE HandlersInv'
  BY <1>0 DEF HandlersInv, SameSlots
<1>1. CASE LinkDown \/ Receive \/ ReceiverStep \/ SenderStep \/ Finished
  BY <1>1, <1>0, OuterFrame DEF Workers, Still, SameSlots, HandlersInv
<1>2. ASSUME NEW k \in Instances PROVE ~PortStep(k)
  BY DEF QuietInv, PortStep, StatusWrite, CheckBothClosed, CleanupLock, CleanupJoin, CleanupReset,
         CleanupUnlock, Goto
<1>3. ASSUME NEW k \in Instances, ThreadData(k) \/ BulkReadEnd(k) \/ ThreadStep(k)
      PROVE  HandlersInv'
  BY <1>0, <1>2, <1>3, ThreadFrame DEF Still, HandlersInv
<1>4. CASE PortStep(main)
  <2>1. pc'[main] # "crashed"
    BY <1>4 DEF PortStep, StatusWrite, CheckBothClosed, CleanupLock, CleanupJoin, CleanupReset,
                CleanupUnlock, After, Goto, PcType, ThreadType
  <2>2. UNCHANGED services \/ services' = [services EXCEPT ![at[main]] = Free]
    BY <1>4 DEF PortStep, StatusWrite, CheckBothClosed, CleanupLock, CleanupJoin, CleanupReset,
                CleanupUnlock, table
  <2>3. \A p \in Ports : services'[p] = services[p] \/ services'[p] = Free
    BY <2>2 DEF TableType
  <2>4. QED
    BY <2>1, <2>3 DEF HandlersInv, Free
<1>5. CASE CheckPort \/ HandlerStep \/ MainReply \/ StatusStep
  <2>1. pc[main] \in {"call", "apply"} =>
          held[main].port \in Ports /\ services[held[main].port].kind # "none"
    BY DEF HandledInv, Addressed, QuietInv, HandlersInv
  <2>2. pc'[main] # "crashed"
    BY <1>5, <2>1 DEF CheckPort, HandlerStep, Keepalive, MethodOnBytesReceived, BulkOnBytesReceived,
                SendStatus, SignalsOnBytesReceived, CallNull, Call, MainReply, StatusStep, OnClose, OnEof,
                MethodOnEof, CheckAfterStatus, Goto, PcType
  <2>3. QED
    BY <1>0, <1>5, <2>2, HandlerFrame
<1>6. CASE MainPoll \/ DeInitStep
  <2>1. \A q : q = << >> => 1 .. Len(q) = {}
    OBVIOUS
  <2>2. pc'[main] # "crashed"
    BY <1>6, <2>1, SessionFrame DEF NullInv, Ending
  <2>3. QED
    BY <1>0, <1>6, <2>2, SessionFrame DEF SameSlots
<1>7. CASE SpawnerStep
  <2>1. ASSUME NEW p \in Ports, Gives(p) PROVE HandlersInv'
    BY <1>7, <2>1, SpawnerFrame DEF Gives, Opens, HandlersInv
  <2>2. QED
    BY <1>0, <1>7, <2>1, SpawnerFrame DEF SameSlots
<1>8. CASE Accept
  BY <1>8 DEF Accept, PcType, Free, HandlersInv
<1>9. QED
  BY <1>1, <1>3, <1>4, <1>5, <1>6, <1>7, <1>8 DEF Next, MainStep

\* Without bulk services and if every service starts, main never calls a handler
\* that is not there (sendToCorrectService, PortStatusOnBytesReceived): a port that
\* was in use when it was tested is so until the call.
THEOREM NeverCallsNull ==
  ASSUME "Bulk" \notin Kinds, ~Payloads
  PROVE  Spec => [](pc[main] # "crashed")
<1>1. Init => HandlersInv
  BY DEF Init, HandlersInv, Free, Threads, Workers, Instances
<1>2. HandlersInv /\ UNCHANGED vars => HandlersInv'
  BY DEF vars, HandlersInv
<1>3. TypeInv /\ NullInv /\ QuietInv /\ HandlersInv /\ [Next]_vars => HandlersInv'
  BY <1>2, StepKeepsHandlers
<1>4. HandlersInv => pc[main] # "crashed"
  BY DEF HandlersInv
<1>5. QED
  BY <1>1, <1>3, <1>4, TypeInvariant, NullInductive, OverInductive, QuietInductive, PTL DEF Spec
-----------------------------------------------------------------------------
(* What the accessory says to Android, in which order.                     *)

\* The message a thread has in its hands for Android.
Hand(t) == IF pc[t] \in {"reply", "write", "status write"} THEN held[t] ELSE NULL

Speech == {"data", "eof", "close"}
-----------------------------------------------------------------------------
(* The invariants.                                                         *)

\* What the threads and main have in their hands, by where they are.  While main
\* has a confirmation in its hands, startingLock keeps the service's thread back.
ThreadShape ==
  \A k \in Instances : pc[k] \in {"write", "status write"} =>
    held[k].type \in {"data", "eof"} /\ held[k].inst = k /\ held[k].port = at[k]
MainShape ==
  /\ held[main].type = "open" => pc[main] = "dispatch"
  /\ held[main].type \in {"opened", "denied"} => pc[main] = "reply"
  /\ pc[main] = "reply" => held[main].type \notin {"eof", "close"}
  /\ pc[main] = "accept" \/ Ending => held[main] = NULL
ConfirmShape ==
  held[main].type = "opened" =>
    LET k == held[main].inst
        p == held[main].port
    IN  /\ k \in Instances /\ p \in Ports
        /\ startingLock = "held" /\ pc[k] \in {"none", "start"} /\ services[p].inst = k
ShapeInv == ThreadShape /\ MainShape /\ ConfirmShape

\* A request is on its way to the spawner, or has not been made.
Asked(k) ==
  \/ k > opens
  \/ \E i \in 1 .. Len(receiveQueue) : receiveQueue[i].type = "open" /\ receiveQueue[i].inst = k
  \/ \E t \in {main, receiver} : held[t].type = "open" /\ held[t].inst = k

\* Requests come in the order in which they were made,
RequestsInv ==
  /\ \A i, j \in 1 .. Len(receiveQueue) :
       i < j /\ receiveQueue[i].type = "open" /\ receiveQueue[j].type = "open"
         => receiveQueue[i].inst < receiveQueue[j].inst
  /\ \A i \in 1 .. Len(receiveQueue) : receiveQueue[i].type = "open" =>
       /\ receiveQueue[i].inst <= opens
       /\ held[receiver].type = "open" => receiveQueue[i].inst < held[receiver].inst
       /\ held[main].type \in {"open", "opened", "denied"} => held[main].inst < receiveQueue[i].inst
  /\ held[receiver].type = "open" =>
       /\ held[receiver].inst <= opens
       /\ held[main].type \in {"open", "opened", "denied"} => held[main].inst < held[receiver].inst
  /\ held[main].type \in {"open", "opened", "denied"} => held[main].inst <= opens

\* and are for services of which nothing exists; no service is on two ports.
ServicesInv ==
  /\ \A k \in Instances : Asked(k) => pc[k] = "none" /\ \A p \in Ports : services[p].inst # k
  /\ \A p, q \in Ports : services[p].inst = services[q].inst /\ p # q => services[p].inst = 0
  /\ \A p \in Ports :
       /\ services[p].inst # 0 => services[p].port = p /\ services[p].kind \in {"Bulk", "Method", "Signals"}
       /\ services[p].kind = "Method" => services[p].inst \in Instances /\ pc[services[p].inst] = "none"
       /\ services[p].kind \in {"Bulk", "Signals"} =>
            services[p].inst \in Instances /\ pc[services[p].inst] # "none"

\* What a message may come after.
MayFollow(a, b) ==
  /\ b.type = "opened" => ~About(a, b.inst)
  /\ a.type = "eof" /\ a.inst = b.inst => b.type \notin {"data", "eof"}
  /\ a.type = "opened" /\ b.type = "opened" => a.inst < b.inst
  /\ a.type = "opened" /\ b.type \in Speech /\ a.port = b.port => a.inst <= b.inst

\* After the first n messages of q, Android takes the port of m for the one of
\* the service that says m, or has forgotten it; view is what it knows before.
Told(q, n, view, m) ==
  LET Opened(i) == q[i].type = "opened" /\ q[i].port = m.port
  IN  /\ (\E i \in 1 .. n : Opened(i)) => \E i \in 1 .. n : Opened(i) /\ q[i].inst = m.inst
      /\ (\A i \in 1 .. n : ~Opened(i)) => view[m.port].inst \in {0, m.inst}

\* So m may come after them, on a link that is up or not.
Fits(q, n, up, view, m) ==
  /\ \A i \in 1 .. n : MayFollow(q[i], m)
  /\ m.type \in Speech => m.port \in Ports /\ (up => Told(q, n, view, m))

OrderInv ==
  \A j \in 1 .. Len(Outgoing) : Fits(Outgoing, j - 1, link, android, Outgoing[j])

\* A message that may be queued now.
Ready(m) == Fits(Outgoing, Len(Outgoing), link, android, m)

HandsInv ==
  /\ \A t \in Workers : Ready(Hand(t))
  /\ \A t, u \in Workers : t # u => MayFollow(Hand(t), Hand(u))

\* A service whose confirmation is under way, no more in main's hands, may close
\* its input at any time.
Confirming(k) == held[main].type = "opened" /\ held[main].inst = k
Voice(p) == Message("close", p, "none", services[p].inst)
VoiceInv ==
  \A p \in Ports : services[p].inst # 0 /\ ~Confirming(services[p].inst) => Ready(Voice(p))

\* Nothing is said of a service that has not been answered for.
SilentInv ==
  \A k \in Instances : Asked(k) =>
    /\ \A i \in 1 .. Len(Outgoing) :
         ~About(Outgoing[i], k) /\ (Outgoing[i].type = "opened" => Outgoing[i].inst < k)
    /\ \A t \in Workers : ~About(Hand(t), k)

\* The EOF of a service is its last word: its thread has left its loop, and main
\* is about to clean up a service that has no thread.
SaidEof(k) ==
  \/ \E i \in 1 .. Len(Outgoing) : Outgoing[i].type = "eof" /\ Outgoing[i].inst = k
  \/ \E t \in Workers : Hand(t).type = "eof" /\ Hand(t).inst = k
Closing(p) ==
  /\ at[main] = p
  /\ \/ pc[main] \in {"status write", "both closed?"} /\ BothClosed(p)
     \/ pc[main] \in {"lock", "reset"}
DoneInv ==
  /\ \A k \in Instances : SaidEof(k) =>
       IF pc[k] = "none" THEN \A p \in Ports : services[p].inst = k => Closing(p)
       ELSE pc[k] \notin {"start", "read", "write"}
  /\ Hand(main).type \in {"data", "eof"} => Hand(main).inst \in Instances /\ pc[Hand(main).inst] = "none"

SpeechInv == OrderInv /\ HandsInv /\ VoiceInv
OutputInv == SpeechInv /\ SilentInv /\ DoneInv

\* What the invariants of the output rest on.
GroundInv == TypeInv /\ OwnedInv /\ LoopInv /\ ShapeInv /\ RequestsInv /\ ServicesInv
-----------------------------------------------------------------------------
(* The hands.                                                              *)

\* A step that leaves main and its message alone, and gives no thread a message.
LEMMA ShapeQuiet ==
  ASSUME TypeInv, ShapeInv, Still(main), held'[main] = held[main], UNCHANGED returnTo,
         \A k \in Instances : pc'[k] \in {"write", "status write"} =>
           Still(k) /\ held'[k] = held[k] /\ at'[k] = at[k],
         held[main].type = "opened" =>
           /\ UNCHANGED startingLock
           /\ services'[held[main].port].inst = services[held[main].port].inst
           /\ Still(held[main].inst)
  PROVE  ShapeInv'
<1>0. ThreadShape
  BY DEF ShapeInv
<1>1. ThreadShape'
  <2>1. ASSUME NEW k \in Instances, pc'[k] \in {"write", "status write"}
        PROVE  held'[k].type \in {"data", "eof"} /\ held'[k].inst = k /\ held'[k].port = at'[k]
    <3>1. pc'[k] = pc[k] /\ held'[k] = held[k] /\ at'[k] = at[k]
      BY <2>1 DEF Still
    <3>2. held[k].type \in {"data", "eof"} /\ held[k].inst = k /\ held[k].port = at[k]
      BY <1>0, <2>1, <3>1 DEF ThreadShape
    <3>3. QED
      BY <3>1, <3>2
  <2>2. QED
    BY <2>1 DEF ThreadShape
<1>2. (pc[main] = "accept" \/ Ending)' <=> (pc[main] = "accept" \/ Ending)
  BY DEF Ending, Still
<1>3. MainShape'
  BY <1>2 DEF ShapeInv, MainShape, Still
<1>4. ConfirmShape'
  BY DEF ShapeInv, ConfirmShape, Still
<1>5. QED
  BY <1>1, <1>3, <1>4 DEF ShapeInv

\* A step of main that gives no thread a message, nor main a request or an answer.
LEMMA ShapeMain ==
  ASSUME TypeInv, ShapeInv,
         \A k \in Instances : Still(k) /\ held'[k] = held[k] /\ at'[k] = at[k],
         held'[main].type \in {"open", "opened", "denied"} => held'[main].type = "open" /\ pc'[main] = "dispatch",
         pc'[main] = "reply" => held'[main].type \notin {"eof", "close"},
         pc'[main] = "accept" \/ Ending' => held'[main] = NULL
  PROVE  ShapeInv'
<1>0. ThreadShape
  BY DEF ShapeInv
<1>1. ThreadShape'
  <2>1. ASSUME NEW k \in Instances, pc'[k] \in {"write", "status write"}
        PROVE  held'[k].type \in {"data", "eof"} /\ held'[k].inst = k /\ held'[k].port = at'[k]
    <3>1. pc'[k] = pc[k] /\ held'[k] = held[k] /\ at'[k] = at[k]
      BY DEF Still
    <3>2. held[k].type \in {"data", "eof"} /\ held[k].inst = k /\ held[k].port = at[k]
      BY <1>0, <2>1, <3>1 DEF ThreadShape
    <3>3. QED
      BY <3>1, <3>2
  <2>2. QED
    BY <2>1 DEF ThreadShape
<1>2. MainShape'
  BY DEF MainShape
<1>3. ConfirmShape'
  BY DEF ConfirmShape
<1>4. QED
  BY <1>1, <1>2, <1>3 DEF ShapeInv

\* What a worker does with a port leaves the hands of the others alone.
LEMMA PortHands ==
  ASSUME TypeInv, NEW t \in Workers, PortStep(t)
  PROVE  /\ UNCHANGED <<at, returnTo>> /\ t \in Threads
         /\ \A u \in Threads \ {t} : Still(u) /\ held'[u] = held[u]
         /\ held'[t] = NULL \/ held'[t] = held[t]
         /\ pc[t] \in {"status write", "both closed?", "lock", "join", "reset", "unlock"}
         /\ pc'[t] \in {"both closed?", "lock", "join", "reset", "unlock", After(t)}
         /\ pc[t] \in {"lock", "join", "reset"} => pc'[t] \in {"join", "reset", "unlock"}
         /\ pc'[t] \in {"join", "reset", "unlock"} => pc[t] \in {"lock", "join", "reset"}
         /\ After(t) = IF t = main THEN returnTo ELSE "ended"
         /\ After(t) \in {"poll", "status check", "deinit", "ended"}
<1>0. /\ After(t) \in {"poll", "status check", "deinit", "ended"}
      /\ After(t) = IF t = main THEN returnTo ELSE "ended"
  BY DEF After, TypeInv, TypeOK, ThreadType
<1> USE <1>0 DEF Goto, PcType, ThreadType, Still, where, Threads, TypeInv, TypeOK
<1>1. CASE StatusWrite(t)
  BY <1>1 DEF StatusWrite, Enqueue
<1>2. CASE CheckBothClosed(t)
  BY <1>2 DEF CheckBothClosed
<1>3. CASE CleanupLock(t) \/ CleanupJoin(t) \/ CleanupReset(t)
  BY <1>3 DEF CleanupLock, CleanupJoin, CleanupReset
<1>4. CASE CleanupUnlock(t)
  BY <1>4 DEF CleanupUnlock
<1>5. QED
  BY <1>1, <1>2, <1>3, <1>4 DEF PortStep

\* What a worker does with a port keeps the hands in shape.
LEMMA ShapePort ==
  ASSUME TypeInv, OwnedInv, LoopInv, ShapeInv, NEW t \in Workers, PortStep(t)
  PROVE  ShapeInv'
<1> USE PortHands
<1>1. CASE t = main
  <2>1. held[main].type \notin {"open", "opened", "denied"}
    BY <1>1 DEF ShapeInv, MainShape
  <2>2. held'[main] = held[main] \/ held'[main] = NULL
    BY <1>1
  <2>3. pc'[main] \notin {"reply", "accept"}
    BY <1>1 DEF After, ThreadType, TypeInv, TypeOK
  <2>4. Ending' => Ending
    <3>1. pc[main] \in {"status write", "both closed?"} => returnTo # "deinit"
      BY DEF LoopInv
    <3>2. After(main) = returnTo
      BY DEF After
    <3>3. QED
      BY <1>1, <3>1, <3>2 DEF Ending
  <2>5. held'[main].type \notin {"open", "opened", "denied"}
    <3>1. NULL.type = "NULL"
      BY DEF NULL, Message
    <3>2. QED
      BY <2>1, <2>2, <3>1
  <2>6. \A k \in Instances : Still(k) /\ held'[k] = held[k] /\ at'[k] = at[k]
    BY <1>1
  <2>7. pc'[main] = "accept" \/ Ending' => held'[main] = NULL
    BY <2>2, <2>3, <2>4 DEF ShapeInv, MainShape
  <2>8. QED
    BY <2>3, <2>5, <2>6, <2>7, ShapeMain
<1>2. CASE t # main
  <2>1. t \in Instances /\ pc'[t] \notin {"write", "status write"} /\ (Engaged(t) \/ pc[t] = "unlock")
    BY <1>2 DEF Workers, After, Engaged
  <2>2. ASSUME held[main].type = "opened"
        PROVE  /\ UNCHANGED startingLock
               /\ services'[held[main].port].inst = services[held[main].port].inst
               /\ Still(held[main].inst)
    <3> DEFINE k == held[main].inst
               p == held[main].port
    <3>1. k \in Instances /\ p \in Ports /\ pc[k] \in {"none", "start"} /\ services[p].inst = k
      BY <2>2 DEF ShapeInv, ConfirmShape
    <3>2. Still(k)
      BY <1>2, <3>1
    <3>3. UNCHANGED startingLock
      <4>1. CASE CleanupLock(t)
        <5>1. services[at[t]].kind # "spawner"
          BY <1>2, <4>1 DEF CleanupLock, Goto, OwnedInv, Engaged, Workers
        <5>2. QED
          BY <4>1, <5>1 DEF CleanupLock, ServiceSpawnerCleanup
      <4>2. CASE ~CleanupLock(t)
        BY <4>2 DEF PortStep, StatusWrite, CheckBothClosed, CleanupJoin, CleanupReset, CleanupUnlock, locks
      <4>3. QED
        BY <4>1, <4>2
    <3>4. services'[p].inst = services[p].inst
      <4>1. CASE CleanupReset(t)
        <5>1. services[at[t]].inst = t /\ pc[t] = "reset"
          <6>1. pc[t] = "reset"
            BY <4>1 DEF CleanupReset, Goto
          <6>2. Engaged(t)
            BY <6>1 DEF Engaged
          <6>3. QED
            BY <2>1, <6>1, <6>2 DEF OwnedInv
        <5>2. p # at[t]
          <6> HIDE DEF k, p
          <6>1. QED
            BY <3>1, <5>1
        <5>3. QED
          BY <3>1, <4>1, <5>2 DEF CleanupReset, TypeInv, TypeOK, TableType
      <4>2. CASE ~CleanupReset(t)
        BY <4>2 DEF PortStep, StatusWrite, CheckBothClosed, CleanupJoin, CleanupLock, CleanupUnlock, table
      <4>3. QED
        BY <4>1, <4>2
    <3>5. QED
      BY <3>2, <3>3, <3>4
  <2>3. \A j \in Instances : pc'[j] \in {"write", "status write"} =>
           Still(j) /\ held'[j] = held[j] /\ at'[j] = at[j]
    <3>1. ASSUME NEW j \in Instances, pc'[j] \in {"write", "status write"}
          PROVE  Still(j) /\ held'[j] = held[j] /\ at'[j] = at[j]
      <4>1. j # t /\ j \in Threads \ {t}
        BY <2>1, <3>1
      <4>2. Still(j) /\ held'[j] = held[j] /\ at' = at
        BY <4>1
      <4>3. QED
        BY <4>2
    <3>2. QED
      BY <3>1
  <2>4. Still(main) /\ held'[main] = held[main]
    <3>1. main \in Threads \ {t}
      BY <1>2
    <3>2. QED
      BY <3>1
  <2>5. QED
    BY <2>2, <2>3, <2>4, ShapeQuiet
<1>3. QED
  BY <1>1, <1>2

\* The threads of the connection and of the services.
LEMMA ShapeOuter ==
  ASSUME TypeInv, ShapeInv, LinkDown \/ Receive \/ ReceiverStep \/ SenderStep \/ Finished
  PROVE  ShapeInv'
<1>1. UNCHANGED <<services, at, returnTo>> /\ held'[main] = held[main] /\ \A t \in Workers : Still(t)
  BY OuterFrame
<1>2. UNCHANGED startingLock /\ \A k \in Instances : held'[k] = held[k]
  BY DEF LinkDown, Receive, ReceiverStep, ReceiverError, ReceiverAdd, ReceiverStop, SenderStep,
         SenderTest, SenderPoll, SenderWrite, Finished, vars, locks, TypeInv, TypeOK, ThreadType
<1>3. Still(main) /\ \A k \in Instances : Still(k)
  BY <1>1 DEF Workers
<1>4. held[main].type = "opened" => held[main].inst \in Instances
  BY DEF ShapeInv, ConfirmShape
<1>5. QED
  BY <1>1, <1>2, <1>3, <1>4, ShapeQuiet

\* So does what a service thread does.
LEMMA ShapeThread ==
  ASSUME TypeInv, OwnedInv, LoopInv, ShapeInv,
         NEW k \in Instances, ThreadData(k) \/ BulkReadEnd(k) \/ ThreadStep(k)
  PROVE  ShapeInv'
<1>1. CASE PortStep(k)
  BY <1>1, ShapePort DEF Workers
<1>2. CASE ~PortStep(k)
  <2>1. /\ SameSlots /\ UNCHANGED <<at, returnTo>> /\ held'[main] = held[main]
        /\ \A t \in Threads \ {k} : Still(t)
        /\ Engaged(k)
    BY <1>2, ThreadFrame
  <2>2. UNCHANGED startingLock /\ \A j \in Instances \ {k} : held'[j] = held[j]
    BY <1>2 DEF ThreadStep, ThreadStart, ThreadData, ThreadWrite, SignalWatchStop, BulkReadEnd,
           SendStatus, Enqueue, locks, TypeInv, TypeOK, ThreadType
  <2>3. /\ at[k] \in Ports /\ services[at[k]].port = at[k] /\ services[at[k]].inst = k
    BY <2>1 DEF Engaged, OwnedInv, TypeInv, PlacedInv, TypeOK, TableType
  <2>4. /\ pc[k] = "start" => startingLock # "held"
        /\ pc'[k] \in {"write", "status write"} =>
              held'[k].type \in {"data", "eof"} /\ held'[k].inst = k /\ held'[k].port = at[k]
    <3> USE DEF Goto, Message, TypeInv, TypeOK, ThreadType, PcType
    <3>1. CASE ThreadStart(k)
      BY <3>1 DEF ThreadStart
    <3>2. CASE ThreadData(k)
      BY <2>3, <3>2 DEF ThreadData
    <3>3. CASE ThreadWrite(k) \/ SignalWatchStop(k)
      BY <3>3 DEF ThreadWrite, SignalWatchStop
    <3>4. CASE BulkReadEnd(k)
      BY <2>3, <3>4 DEF BulkReadEnd, SendStatus
    <3>5. QED
      BY <1>2, <3>1, <3>2, <3>3, <3>4 DEF ThreadStep
  <2>5. ThreadShape'
    <3>1. ThreadShape
      BY DEF ShapeInv
    <3>2. \A j \in Instances \ {k} : pc'[j] = pc[j]
      BY <2>1 DEF Still
    <3>3. ASSUME NEW j \in Instances, pc'[j] \in {"write", "status write"}
          PROVE  held'[j].type \in {"data", "eof"} /\ held'[j].inst = j /\ held'[j].port = at'[j]
      <4>1. CASE j = k
        BY <2>1, <2>4, <3>3, <4>1
      <4>2. CASE j # k
        BY <2>1, <2>2, <3>1, <3>2, <3>3, <4>2 DEF ThreadShape
      <4>3. QED
        BY <4>1, <4>2
    <3>4. QED
      BY <3>3 DEF ThreadShape
  <2>6. MainShape'
    BY <2>1 DEF ShapeInv, MainShape, Still, Ending
  <2>7. ConfirmShape'
    <3>1. held'[main] = held[main] /\ startingLock' = startingLock
      BY <2>1, <2>2
    <3>2. ASSUME held[main].type = "opened"
          PROVE  LET i == held[main].inst
                     p == held[main].port
                 IN  /\ i \in Instances /\ p \in Ports
                     /\ startingLock = "held" /\ pc'[i] \in {"none", "start"} /\ services'[p].inst = i
      <4> DEFINE i == held[main].inst
                 p == held[main].port
      <4>1. /\ i \in Instances /\ p \in Ports /\ startingLock = "held"
            /\ pc[i] \in {"none", "start"} /\ services[p].inst = i
        BY <3>2 DEF ShapeInv, ConfirmShape
      <4>2. i # k
        <5>1. pc[k] # "none" /\ pc[k] # "start"
          BY <2>1, <2>4, <4>1 DEF Engaged
        <5>2. QED
          BY <4>1, <5>1
      <4>3. pc'[i] = pc[i]
        BY <2>1, <4>1, <4>2 DEF Still
      <4>4. services'[p].inst = services[p].inst
        BY <2>1, <4>1 DEF SameSlots
      <4>5. QED
        BY <4>1, <4>3, <4>4
    <3>3. QED
      BY <3>1, <3>2 DEF ConfirmShape
  <2>8. QED
    BY <2>5, <2>6, <2>7 DEF ShapeInv
<1>3. QED
  BY <1>1, <1>2

\* Main, when it handles a message that opens no port,
LEMMA HandlersHold ==
  ASSUME TypeInv, ShapeInv, CheckPort \/ HandlerStep \/ MainReply \/ StatusStep
  PROVE  /\ \A k \in Instances : held'[k] = held[k]
         /\ held'[main].type \notin {"open", "opened", "denied"}
         /\ pc'[main] = "reply" => held'[main].type \notin {"eof", "close"}
<1>1. \A k \in Instances : held'[k] = held[k]
  BY DEF CheckPort, HandlerStep, Keepalive, MethodOnBytesReceived, BulkOnBytesReceived, SendStatus,
         SignalsOnBytesReceived, CallNull, StatusStep, OnClose, OnEof, MethodOnEof, CheckAfterStatus,
         MainReply, Enqueue, TypeInv, TypeOK, ThreadType
<1>2. /\ held'[main].type \notin {"open", "opened", "denied"}
      /\ pc'[main] = "reply" => held'[main].type \notin {"eof", "close"}
  <2>0. /\ pc[main] = "call" => held[main].type = "data"
        /\ pc[main] = "apply" => held[main].type \in {"eof", "close"}
        /\ pc[main] \notin {"dispatch", "reply"} => held[main].type \notin {"open", "opened", "denied"}
    BY DEF TypeInv, HandledInv, ShapeInv, MainShape
  <2>1. /\ held \in [Threads -> AllMessages] /\ DOMAIN pc = Threads
    BY DEF TypeInv, TypeOK, ThreadType, PcType
  <2> USE DEF Goto, Message
  <2>2. CASE CheckPort
    BY <2>1, <2>2 DEF CheckPort
  <2>3. CASE Keepalive
    BY <2>1, <2>3 DEF Keepalive
  <2>4. CASE MethodOnBytesReceived
    BY <2>0, <2>1, <2>4 DEF MethodOnBytesReceived, Call
  <2>5. CASE SignalsOnBytesReceived \/ CallNull
    BY <2>0, <2>1, <2>5 DEF SignalsOnBytesReceived, CallNull, Call
  <2>6. CASE BulkOnBytesReceived
    <3>1. CASE UNCHANGED held /\ Goto(main, "call", "poll")
      BY <2>0, <2>1, <3>1
    <3>2. CASE SendStatus(main, held[main].port, "close", "call")
      BY <2>0, <2>1, <3>2 DEF SendStatus
    <3>3. QED
      BY <2>6, <3>1, <3>2 DEF BulkOnBytesReceived
  <2>7. CASE OnClose \/ OnEof
    BY <2>0, <2>1, <2>7 DEF OnClose, OnEof
  <2>8. CASE MethodOnEof
    BY <2>0, <2>1, <2>8 DEF MethodOnEof
  <2>9. CASE CheckAfterStatus
    BY <2>0, <2>1, <2>9 DEF CheckAfterStatus
  <2>10. CASE MainReply
    BY <2>0, <2>1, <2>10 DEF MainReply, Enqueue, NULL
  <2>11. QED
    BY <2>2, <2>3, <2>4, <2>5, <2>6, <2>7, <2>8, <2>9, <2>10 DEF HandlerStep, StatusStep
<1>3. QED
  BY <1>1, <1>2

\* keeps the shapes,
LEMMA ShapeHandlers ==
  ASSUME TypeInv, ShapeInv, CheckPort \/ HandlerStep \/ MainReply \/ StatusStep
  PROVE  ShapeInv'
<1>1. /\ \A k \in Instances : at'[k] = at[k] /\ Still(k)
      /\ pc[main] \in {"dispatch", "reply", "call", "apply", "status check"}
      /\ pc'[main] \in {"reply", "poll", "call", "apply", "status write", "status check", "lock", "crashed"}
      /\ pc'[main] \in {"status write", "lock"} => returnTo' # "deinit"
  BY HandlerFrame
<1>2. ~(pc'[main] = "accept" \/ Ending')
  BY <1>1 DEF Ending
<1>3. QED
  BY <1>1, <1>2, HandlersHold, ShapeMain

\* when it gives a port away,
LEMMA ShapeSpawner ==
  ASSUME TypeInv, ShapeInv, SpawnerStep
  PROVE  ShapeInv'
<1>1. CASE DenyService
  <2>1. \A k \in Instances : Still(k) /\ held'[k] = held[k] /\ at'[k] = at[k]
    BY <1>1 DEF DenyService, Goto, where, Still, TypeInv, TypeOK, PcType, ThreadType
  <2>2. pc'[main] = "reply" /\ held'[main].type = "denied"
    BY <1>1 DEF DenyService, Goto, Message, TypeInv, TypeOK, PcType, ThreadType
  <2>3. ThreadShape
    BY DEF ShapeInv
  <2>4. ThreadShape'
    BY <2>1, <2>3 DEF ThreadShape, Still
  <2>5. MainShape' /\ ConfirmShape'
    BY <2>2 DEF MainShape, ConfirmShape, Ending
  <2>6. QED
    BY <2>4, <2>5 DEF ShapeInv
<1>2. ASSUME NEW kind \in {"Bulk", "Method", "Signals"}, NEW thread \in {"none", "start"},
             OpenService(kind, thread)
      PROVE  ShapeInv'
  <2> DEFINE k == held[main].inst
             p == openNewPort
  <2>1. p \in Ports /\ k \in Instances
    BY <1>2, OpenedIsFree DEF OpenService, FreePorts, HandledInv, Addressed, TypeInv, TypeOK, TableType
  <2>2. /\ services' = [services EXCEPT ![p] = [@ EXCEPT !.port = p, !.kind = kind, !.inst = k]]
        /\ pc' = [pc EXCEPT ![main] = "reply", ![k] = thread]
        /\ at' = [at EXCEPT ![k] = p]
        /\ held' = [held EXCEPT ![main] = Message("opened", p, "none", k)]
        /\ startingLock' = "held"
    BY <1>2 DEF OpenService
  <2> HIDE DEF k, p
  <2>3. /\ held'[main].type = "opened" /\ held'[main].inst = k /\ held'[main].port = p
        /\ \A j \in Instances : held'[j] = held[j]
    BY <2>2 DEF Message, TypeInv, TypeOK, ThreadType
  <2>4. /\ pc'[main] = "reply" /\ pc'[k] = thread
        /\ \A j \in Instances \ {k} : pc'[j] = pc[j] /\ at'[j] = at[j]
    BY <2>1, <2>2 DEF TypeInv, TypeOK, PcType, ThreadType, Workers
  <2>5. services'[p].inst = k
    BY <2>1, <2>2 DEF TypeInv, TypeOK, TableType
  <2>6. ThreadShape'
    <3>1. ThreadShape
      BY DEF ShapeInv
    <3>2. \A j \in Instances : pc'[j] \in {"write", "status write"} => j # k
      BY <2>4
    <3>3. ASSUME NEW j \in Instances, pc'[j] \in {"write", "status write"}
          PROVE  held'[j].type \in {"data", "eof"} /\ held'[j].inst = j /\ held'[j].port = at'[j]
      <4>1. pc[j] = pc'[j] /\ held'[j] = held[j] /\ at'[j] = at[j]
        BY <2>3, <2>4, <3>2, <3>3
      <4>2. pc[j] \in {"write", "status write"}
        BY <3>3, <4>1
      <4>3. held[j].type \in {"data", "eof"} /\ held[j].inst = j /\ held[j].port = at[j]
        BY <3>1, <4>2 DEF ThreadShape
      <4>4. QED
        BY <4>1, <4>3
    <3>4. QED
      BY <3>3 DEF ThreadShape
  <2>7. MainShape' /\ ConfirmShape'
    BY <2>1, <2>2, <2>3, <2>4, <2>5 DEF MainShape, ConfirmShape, Ending
  <2>8. QED
    BY <2>6, <2>7 DEF ShapeInv
<1>3. QED
  BY <1>1, <1>2 DEF SpawnerStep, BulkInit, MethodInit, SignalsInit

\* The message main takes next.
LEMMA HeadIncoming ==
  ASSUME TypeInv, receiveQueue # << >>
  PROVE  /\ Head(receiveQueue) = receiveQueue[1] /\ 1 \in 1 .. Len(receiveQueue)
         /\ Addressed(Head(receiveQueue))
<1>1. receiveQueue \in Seq(AllMessages)
  BY DEF TypeInv, TypeOK, QueueType
<1>2. Head(receiveQueue) = receiveQueue[1] /\ Len(receiveQueue) >= 1 /\ Len(receiveQueue) \in Nat
  BY <1>1, Removed
<1>3. 1 \in 1 .. Len(receiveQueue)
  BY <1>2
<1>4. QED
  BY <1>2, <1>3 DEF TypeInv, IncomingInv

\* when it takes a message or takes the connection down,
LEMMA ShapeSession ==
  ASSUME TypeInv, ShapeInv, MainPoll \/ DeInitStep \/ Accept
  PROVE  ShapeInv'
<1> USE DEF Still, Goto, TypeInv, TypeOK, PcType, ThreadType, where, Workers
<1>1. CASE MainPoll
  <2>1. /\ \A k \in Instances : Still(k) /\ held'[k] = held[k] /\ at'[k] = at[k]
        /\ held'[main] = Head(receiveQueue)
        /\ pc'[main] = IF Head(receiveQueue) = NULL THEN "deinit" ELSE "dispatch"
    BY <1>1 DEF MainPoll
  <2>2. Head(receiveQueue).type \notin {"opened", "denied"}
    <3>1. receiveQueue # << >>
      BY <1>1 DEF MainPoll
    <3>2. QED
      BY <3>1, HeadIncoming DEF Addressed
  <2>3. NULL.type = "NULL"
    BY DEF NULL, Message
  <2>4. pc'[main] = "accept" \/ Ending' => held'[main] = NULL
    BY <2>1 DEF Ending
  <2>5. QED
    BY <2>1, <2>2, <2>3, <2>4, ShapeMain
<1>2. CASE DeInitStep \/ Accept
  <2>1. /\ \A k \in Instances : Still(k) /\ held'[k] = held[k] /\ at'[k] = at[k]
        /\ held'[main] \in {held[main], NULL} /\ (Ending \/ pc[main] = "accept")
        /\ pc'[main] # "reply"
    <3>1. CASE DeInitPort
      BY <1>2, <3>1 DEF DeInitPort, Ending
    <3>2. CASE DeInitStopSender \/ DeInitJoin \/ DeInitFree
      BY <1>2, <3>2 DEF DeInitStopSender, DeInitJoin, DeInitFree, Enqueue, Ending
    <3>3. CASE Accept
      BY <1>2, <3>3 DEF Accept
    <3>4. QED
      BY <1>2, <3>1, <3>2, <3>3 DEF DeInitStep
  <2>2. held'[main] = NULL /\ NULL.type = "NULL"
    BY <2>1 DEF ShapeInv, MainShape, NULL, Message
  <2>3. QED
    BY <2>1, <2>2, ShapeMain
<1>3. QED
  BY <1>1, <1>2

\* The hands are in shape from the start, and stay so.
LEMMA ShapeInductive ==
  /\ Init => ShapeInv
  /\ TypeInv /\ OwnedInv /\ LoopInv /\ ShapeInv /\ [Next]_vars => ShapeInv'
<1>1. Init => ShapeInv
  <2>1. ASSUME Init PROVE ShapeInv
    <3>1. /\ held[main] = NULL /\ pc[main] = "accept" /\ \A k \in Instances : pc[k] = "none"
      BY <2>1 DEF Init, Threads, Workers, Instances
    <3>2. NULL.type = "NULL"
      BY DEF NULL, Message
    <3>3. QED
      BY <3>1, <3>2 DEF ShapeInv, ThreadShape, MainShape, ConfirmShape
  <2>2. QED
    BY <2>1
<1>2. ASSUME TypeInv, OwnedInv, LoopInv, ShapeInv, Next PROVE ShapeInv'
  BY <1>2, ShapeOuter, ShapePort, ShapeThread, ShapeHandlers, ShapeSpawner, ShapeSession
     DEF Next, MainStep, Workers
<1>3. ASSUME ShapeInv, UNCHANGED vars PROVE ShapeInv'
  <2>1. ThreadShape' /\ MainShape' /\ ConfirmShape'
    BY <1>3 DEF vars, ShapeInv, ThreadShape, MainShape, ConfirmShape, Ending
  <2>2. QED
    BY <2>1 DEF ShapeInv
<1>4. QED
  BY <1>1, <1>2, <1>3
-----------------------------------------------------------------------------
(* The requests.                                                           *)

\* Steps that neither receive a request nor pass one on to main.
LEMMA RequestFrame ==
  ASSUME TypeInv, ShapeInv, Next, ~Receive, ~ReceiverAdd, ~MainPoll
  PROVE  /\ opens' = opens
         /\ receiveQueue' \in {receiveQueue, << >>}
         /\ held'[receiver] \in {held[receiver], NULL}
         /\ \/ held'[main] = held[main]
            \/ held'[main].type \notin {"open", "opened", "denied"}
            \/ /\ held[main].type = "open" /\ held'[main].type \in {"opened", "denied"}
               /\ held'[main].inst = held[main].inst
<1>0. NULL.type = "NULL" /\ held \in [Threads -> AllMessages]
  BY DEF NULL, Message, TypeInv, TypeOK, ThreadType
<1>1. CASE LinkDown \/ ReceiverError \/ ReceiverStop \/ SenderStep \/ Finished
  BY <1>0, <1>1 DEF LinkDown, ReceiverError, ReceiverStop, SenderStep, SenderTest, SenderPoll, SenderWrite,
                    Finished, vars, queues, peer
<1>2. ASSUME NEW t \in Workers, PortStep(t)
      PROVE  /\ opens' = opens /\ receiveQueue' = receiveQueue /\ held'[receiver] = held[receiver]
             /\ held'[main] \in {held[main], NULL}
  <2>1. held'[receiver] = held[receiver] /\ held'[main] \in {held[main], NULL}
    BY <1>2, PortHands DEF Workers
  <2>2. opens' = opens /\ receiveQueue' = receiveQueue
    BY <1>2 DEF PortStep, StatusWrite, CheckBothClosed, CleanupLock, CleanupJoin, CleanupReset, CleanupUnlock,
                queues, peer
  <2>3. QED
    BY <2>1, <2>2
<1>3. ASSUME NEW k \in Instances, ThreadData(k) \/ BulkReadEnd(k) \/ ThreadStep(k), ~PortStep(k)
      PROVE  /\ opens' = opens /\ receiveQueue' = receiveQueue /\ held'[receiver] = held[receiver]
             /\ held'[main] = held[main]
  BY <1>0, <1>3 DEF ThreadStep, ThreadStart, ThreadData, ThreadWrite, SignalWatchStop, BulkReadEnd, SendStatus,
                    Enqueue, queues, peer
<1>4. CASE CheckPort \/ HandlerStep \/ MainReply \/ StatusStep
  <2>1. opens' = opens /\ receiveQueue' = receiveQueue /\ held'[receiver] = held[receiver]
    BY <1>0, <1>4 DEF CheckPort, HandlerStep, Keepalive, MethodOnBytesReceived, BulkOnBytesReceived, SendStatus,
         SignalsOnBytesReceived, CallNull, StatusStep, OnClose, OnEof, MethodOnEof, CheckAfterStatus,
         MainReply, Enqueue, queues, peer
  <2>2. QED
    BY <1>4, <2>1, HandlersHold
<1>5. CASE SpawnerStep
  BY <1>0, <1>5 DEF SpawnerStep, BulkInit, MethodInit, SignalsInit, OpenService, DenyService, Message, queues, peer
<1>6. CASE DeInitStep \/ Accept
  <2>1. opens' = opens /\ receiveQueue' \in {receiveQueue, << >>} /\ held'[receiver] = held[receiver]
    BY <1>0, <1>6 DEF DeInitStep, DeInitPort, DeInitStopSender, DeInitJoin, DeInitFree, Accept, Enqueue, queues, peer
  <2>2. held'[main] \in {held[main], NULL}
    BY <1>0, <1>6 DEF DeInitStep, DeInitPort, DeInitStopSender, DeInitJoin, DeInitFree, Accept, Enqueue
  <2>3. QED
    BY <1>0, <2>1, <2>2
<1>7. QED
  BY <1>0, <1>1, <1>2, <1>3, <1>4, <1>5, <1>6 DEF Next, MainStep, ReceiverStep, ThreadStep, Workers

\* The three steps by which a request goes from Android to main.
LEMMA ReceiveFrame ==
  ASSUME TypeInv, Receive
  PROVE  /\ receiveQueue' = receiveQueue /\ held'[main] = held[main]
         /\ \/ held'[receiver].type # "open" /\ opens' = opens
            \/ /\ held'[receiver].type = "open" /\ held'[receiver].inst = opens + 1
               /\ opens' = opens + 1
<1>1. PICK m \in FromAndroid :
        /\ held' = [held EXCEPT ![receiver] = m]
        /\ opens' = IF m.type = "open" THEN m.inst ELSE opens
  BY DEF Receive
<1>2. m.type = "open" => m.inst = opens + 1
  BY FromAndroidType
<1>3. held'[receiver] = m /\ held'[main] = held[main]
  BY <1>1 DEF TypeInv, TypeOK, ThreadType
<1>4. receiveQueue' = receiveQueue
  BY DEF Receive, queues
<1>5. QED
  BY <1>1, <1>2, <1>3, <1>4

\* The receiver adds what it holds behind the other messages, and holds no request.
LEMMA AddFrame ==
  ASSUME TypeInv, ReceiverAdd
  PROVE  /\ opens' = opens /\ held'[main] = held[main]
         /\ held'[receiver].type # "open"
         /\ Len(receiveQueue) \in Nat /\ Len(receiveQueue') = Len(receiveQueue) + 1
         /\ receiveQueue'[Len(receiveQueue) + 1] = held[receiver]
         /\ \A i \in 1 .. Len(receiveQueue) : receiveQueue'[i] = receiveQueue[i]
<1>1. /\ receiveQueue \in Seq(AllMessages) /\ held[receiver] \in AllMessages
      /\ Len(receiveQueue) < MESSAGEQUEMAX
      /\ receiveQueue' = Append(receiveQueue, held[receiver])
  BY DEF ReceiverAdd, TypeInv, TypeOK, QueueType, ThreadType
<1>2. opens' = opens /\ held'[main] = held[main] /\ held'[receiver].type # "open"
  BY DEF ReceiverAdd, peer, NULL, Message, TypeInv, TypeOK, ThreadType
<1>3. Len(receiveQueue) \in Nat
  BY <1>1
<1>4. QED
  BY <1>1, <1>2, <1>3, Appended

\* Main takes the first message, which is never an answer of its own.
LEMMA PollFrame ==
  ASSUME TypeInv, MainPoll
  PROVE  /\ opens' = opens /\ held'[receiver] = held[receiver]
         /\ held'[main] = receiveQueue[1] /\ held'[main].type \notin {"opened", "denied"}
         /\ Len(receiveQueue) \in Nat /\ Len(receiveQueue) >= 1 /\ Len(receiveQueue') = Len(receiveQueue) - 1
         /\ \A i \in 1 .. Len(receiveQueue') :
              i + 1 \in 2 .. Len(receiveQueue) /\ receiveQueue'[i] = receiveQueue[i + 1]
<1>1. receiveQueue \in Seq(AllMessages) /\ receiveQueue # << >> /\ receiveQueue' = Tail(receiveQueue)
  BY DEF MainPoll, TypeInv, TypeOK, QueueType
<1>2. /\ Len(receiveQueue) \in Nat /\ Len(receiveQueue) >= 1 /\ Len(receiveQueue') = Len(receiveQueue) - 1
      /\ \A i \in 1 .. Len(receiveQueue) - 1 : receiveQueue'[i] = receiveQueue[i + 1]
  BY <1>1, Removed
<1>3. \A i \in 1 .. Len(receiveQueue') : i + 1 \in 2 .. Len(receiveQueue) /\ i \in 1 .. Len(receiveQueue) - 1
  BY <1>2
<1>4. opens' = opens /\ held'[receiver] = held[receiver] /\ held'[main] = Head(receiveQueue)
  BY DEF MainPoll, peer, TypeInv, TypeOK, ThreadType
<1>5. held'[main] = receiveQueue[1] /\ held'[main].type \notin {"opened", "denied"}
  BY <1>1, <1>4, HeadIncoming DEF Addressed
<1>6. QED
  BY <1>2, <1>3, <1>4, <1>5

\* Requests stay in the order in which they were made: they are numbered when
\* they are received, and no queue lets one overtake another.
LEMMA RequestsInductive ==
  /\ Init => RequestsInv
  /\ TypeInv /\ ShapeInv /\ RequestsInv /\ [Next]_vars => RequestsInv'
<1>0. \A q : q = << >> => 1 .. Len(q) = {}
  OBVIOUS
<1>1. Init => RequestsInv
  <2>1. Init => held[main].type = "NULL" /\ held[receiver].type = "NULL"
    BY DEF Init, NULL, Message
  <2>2. QED
    BY <1>0, <2>1 DEF Init, RequestsInv
<1> SUFFICES ASSUME TypeInv, ShapeInv, RequestsInv, [Next]_vars PROVE RequestsInv'
  BY <1>1
<1>2. /\ opens \in Nat /\ held \in [Threads -> AllMessages] /\ receiveQueue \in Seq(AllMessages)
      /\ \A i \in 1 .. Len(receiveQueue) : receiveQueue[i].inst \in Nat
      /\ held[main].inst \in Nat /\ held[receiver].inst \in Nat
  <2>1. /\ opens \in Nat /\ held \in [Threads -> AllMessages] /\ receiveQueue \in Seq(AllMessages)
    <3>1. opens \in Nat
      BY DEF TypeInv, TypeOK, CounterType
    <3>2. QED
      BY <3>1 DEF TypeInv, TypeOK, ThreadType, QueueType
  <2>2. \A m \in AllMessages : m.inst \in Nat
    BY DEF AllMessages
  <2>3. QED
    BY <2>1, <2>2
<1>3. CASE Next /\ ~Receive /\ ~ReceiverAdd /\ ~MainPoll
  <2>1. NULL.type = "NULL"
    BY DEF NULL, Message
  <2>2. /\ opens' = opens /\ receiveQueue' \in {receiveQueue, << >>}
        /\ held'[receiver].type = "open" => held'[receiver] = held[receiver]
        /\ held'[main].type \in {"open", "opened", "denied"} =>
              held[main].type \in {"open", "opened", "denied"} /\ held'[main].inst = held[main].inst
    BY <1>3, <2>1, RequestFrame
  <2>3. CASE receiveQueue' = receiveQueue
    BY <2>2, <2>3 DEF RequestsInv
  <2>4. CASE receiveQueue' = << >>
    BY <1>0, <2>2, <2>4 DEF RequestsInv
  <2>5. QED
    BY <2>2, <2>3, <2>4
<1>4. CASE Receive
  BY <1>2, <1>4, ReceiveFrame DEF RequestsInv
<1>5. CASE ReceiverAdd
  <2> DEFINE n == Len(receiveQueue)
             last == held[receiver]
  <2>1. /\ opens' = opens /\ held'[main] = held[main] /\ held'[receiver].type # "open"
        /\ n \in Nat /\ Len(receiveQueue') = n + 1 /\ receiveQueue'[n + 1] = last
        /\ \A i \in 1 .. n : receiveQueue'[i] = receiveQueue[i]
    BY <1>5, AddFrame
  <2>2. /\ last.type = "open" => last.inst <= opens
        /\ last.type = "open" /\ held[main].type \in {"open", "opened", "denied"} => held[main].inst < last.inst
        /\ \A i \in 1 .. n : receiveQueue[i].type = "open" /\ last.type = "open" =>
             receiveQueue[i].inst < last.inst
    BY DEF RequestsInv
  <2> HIDE DEF n, last
  <2>3. ASSUME NEW i \in 1 .. Len(receiveQueue'), receiveQueue'[i].type = "open"
        PROVE  /\ receiveQueue'[i].inst <= opens
               /\ held[main].type \in {"open", "opened", "denied"} => held[main].inst < receiveQueue'[i].inst
    <3>1. i \in 1 .. n \/ i = n + 1
      BY <2>1
    <3>2. QED
      BY <2>1, <2>2, <2>3, <3>1 DEF RequestsInv, n
  <2>4. ASSUME NEW i \in 1 .. Len(receiveQueue'), NEW j \in 1 .. Len(receiveQueue'), i < j,
               receiveQueue'[i].type = "open", receiveQueue'[j].type = "open"
        PROVE  receiveQueue'[i].inst < receiveQueue'[j].inst
    <3>1. i \in 1 .. n /\ (j \in 1 .. n \/ j = n + 1)
      BY <2>1, <2>4
    <3>2. QED
      BY <2>1, <2>2, <2>4, <3>1 DEF RequestsInv, n
  <2>5. QED
    BY <2>1, <2>3, <2>4 DEF RequestsInv
<1>6. CASE MainPoll
  <2> DEFINE n == Len(receiveQueue)
  <2>1. /\ opens' = opens /\ held'[receiver] = held[receiver]
        /\ held'[main] = receiveQueue[1] /\ held'[main].type \notin {"opened", "denied"}
        /\ n \in Nat /\ n >= 1 /\ Len(receiveQueue') = n - 1
        /\ \A i \in 1 .. Len(receiveQueue') :
             i + 1 \in 2 .. n /\ receiveQueue'[i] = receiveQueue[i + 1]
    BY <1>6, PollFrame
  <2>2. 1 \in 1 .. n /\ \A i \in 2 .. n : i \in 1 .. n /\ 1 < i
    BY <2>1
  <2>3. ASSUME NEW i \in 1 .. Len(receiveQueue'), receiveQueue'[i].type = "open"
        PROVE  /\ receiveQueue'[i].inst <= opens
               /\ held[receiver].type = "open" => receiveQueue'[i].inst < held[receiver].inst
               /\ held'[main].type = "open" => held'[main].inst < receiveQueue'[i].inst
    <3>1. i + 1 \in 1 .. n /\ 1 \in 1 .. n /\ 1 < i + 1 /\ receiveQueue'[i] = receiveQueue[i + 1]
      BY <2>1, <2>2
    <3>2. receiveQueue[i + 1].type = "open"
      BY <2>3, <3>1
    <3>3. /\ receiveQueue[i + 1].inst <= opens
          /\ held[receiver].type = "open" => receiveQueue[i + 1].inst < held[receiver].inst
      BY <3>1, <3>2 DEF RequestsInv
    <3>4. receiveQueue[1].type = "open" => receiveQueue[1].inst < receiveQueue[i + 1].inst
      BY <3>1, <3>2 DEF RequestsInv
    <3>5. QED
      BY <2>1, <3>1, <3>3, <3>4
  <2>4. ASSUME NEW i \in 1 .. Len(receiveQueue'), NEW j \in 1 .. Len(receiveQueue'), i < j,
               receiveQueue'[i].type = "open", receiveQueue'[j].type = "open"
        PROVE  receiveQueue'[i].inst < receiveQueue'[j].inst
    <3>1. i + 1 \in 1 .. n /\ j + 1 \in 1 .. n /\ i + 1 < j + 1
      BY <2>1, <2>2, <2>4
    <3>2. QED
      BY <2>1, <2>4, <3>1 DEF RequestsInv
  <2>5. held'[main].type = "open" =>
          /\ held'[main].inst <= opens
          /\ held[receiver].type = "open" => held'[main].inst < held[receiver].inst
    BY <2>1, <2>2 DEF RequestsInv
  <2>6. held[receiver].type = "open" => held[receiver].inst <= opens
    BY DEF RequestsInv
  <2> HIDE DEF n
  <2>7. QED
    BY <2>1, <2>3, <2>4, <2>5, <2>6 DEF RequestsInv
<1>7. CASE UNCHANGED vars
  BY <1>7 DEF vars, RequestsInv
<1>8. QED
  BY <1>3, <1>4, <1>5, <1>6, <1>7

\* Nobody asks again: what is asked for after a step was asked for before it.
LEMMA AskedShrinks ==
  ASSUME TypeInv, ShapeInv, [Next]_vars, NEW k \in Instances, Asked(k)'
  PROVE  Asked(k)
<1>0. k \in Nat /\ opens \in Nat
  BY DEF Instances, TypeInv, TypeOK, CounterType
<1>1. CASE Next /\ ~Receive /\ ~ReceiverAdd /\ ~MainPoll
  <2>1. NULL.type = "NULL" /\ \A q : q = << >> => 1 .. Len(q) = {}
    BY DEF NULL, Message
  <2>2. /\ opens' = opens /\ receiveQueue' \in {receiveQueue, << >>}
        /\ \A t \in {main, receiver} : held'[t].type = "open" => held'[t] = held[t]
    BY <1>1, <2>1, RequestFrame
  <2>3. QED
    BY <2>1, <2>2 DEF Asked
<1>2. CASE Receive
  BY <1>0, <1>2, ReceiveFrame DEF Asked
<1>3. CASE ReceiverAdd
  <2>1. \A i \in 1 .. Len(receiveQueue') :
          \/ i \in 1 .. Len(receiveQueue) /\ receiveQueue'[i] = receiveQueue[i]
          \/ receiveQueue'[i] = held[receiver]
    BY <1>3, AddFrame
  <2>2. opens' = opens /\ held'[main] = held[main] /\ held'[receiver].type # "open"
    BY <1>3, AddFrame
  <2>3. QED
    BY <2>1, <2>2 DEF Asked
<1>4. CASE MainPoll
  <2>1. /\ \A i \in 1 .. Len(receiveQueue') : \E j \in 1 .. Len(receiveQueue) : receiveQueue'[i] = receiveQueue[j]
        /\ \E j \in 1 .. Len(receiveQueue) : held'[main] = receiveQueue[j]
    <3>1. 1 \in 1 .. Len(receiveQueue) /\ \A i \in 2 .. Len(receiveQueue) : i \in 1 .. Len(receiveQueue)
      BY <1>4, PollFrame
    <3>2. QED
      BY <1>4, <3>1, PollFrame
  <2>2. opens' = opens /\ held'[receiver] = held[receiver]
    BY <1>4, PollFrame
  <2>3. QED
    BY <2>1, <2>2 DEF Asked
<1>5. CASE UNCHANGED vars
  BY <1>5 DEF vars, Asked
<1>6. QED
  BY <1>1, <1>2, <1>3, <1>4, <1>5

\* No thread begins or is over before it began.
SameNones == \A k \in Instances : pc'[k] = "none" <=> pc[k] = "none"

\* A service is started for the request in main's hands, on a free port.
Starts(k, p, kind, thread) ==
  /\ pc[main] = "dispatch" /\ held[main].type = "open" /\ held[main].inst = k
  /\ services[p].port = -1
  /\ services'[p].port = p /\ services'[p].kind = kind /\ services'[p].inst = k
  /\ \A q \in Ports \ {p} : services'[q] = services[q]
  /\ thread = "none" <=> kind = "Method"
  /\ pc'[main] = "reply" /\ pc'[k] = thread /\ at'[k] = p
  /\ \A j \in Instances \ {k} : Still(j) /\ at'[j] = at[j]
  /\ held'[main] = Message("opened", p, "none", k)
  /\ \A t \in Threads \ {main} : held'[t] = held[t]
  /\ UNCHANGED <<queues, conn, peer>>

\* A port that is not used becomes one that is used by nobody.
Wastes(p) ==
  /\ services[p].port = -1
  /\ services'[p].kind = services[p].kind /\ services'[p].inst = services[p].inst
  /\ \A q \in Ports \ {p} : services'[q] = services[q]

\* What servicespawner.c does with a request: it starts a service on a free port,
\* or denies it, maybe leaving a port behind that is used by nobody.
LEMMA SpawnerCases ==
  ASSUME TypeInv, SpawnerStep
  PROVE  \/ \E k \in Instances, p \in Ports, kind \in {"Bulk", "Method", "Signals"}, thread \in {"none", "start"} :
              Starts(k, p, kind, thread)
         \/ DenyService /\ SameNones /\ (UNCHANGED services \/ \E p \in Ports : Wastes(p))
<1>0. /\ FreePorts \subseteq Ports /\ \A p \in FreePorts : services[p].port = -1
      /\ FreePorts # {} => openNewPort \in FreePorts
      /\ services \in [Ports -> Services]
  BY OpenedIsFree DEF FreePorts, TableType, Services, TypeInv, TypeOK
<1>1. ASSUME NEW kind \in {"Bulk", "Method", "Signals"}, NEW thread \in {"none", "start"},
             OpenService(kind, thread), thread = "none" <=> kind = "Method"
      PROVE  \E k \in Instances, p \in Ports : Starts(k, p, kind, thread)
  <2> DEFINE k == held[main].inst
             p == openNewPort
  <2>1. p \in Ports /\ k \in Instances /\ services[p].port = -1
    BY <1>0, <1>1 DEF OpenService, HandledInv, Addressed, TypeInv
  <2>2. /\ services' = [services EXCEPT ![p] = [@ EXCEPT !.port = p, !.kind = kind, !.inst = k]]
        /\ pc' = [pc EXCEPT ![main] = "reply", ![k] = thread]
        /\ at' = [at EXCEPT ![k] = p]
        /\ held' = [held EXCEPT ![main] = Message("opened", p, "none", k)]
        /\ UNCHANGED <<queues, conn, peer>>
    BY <1>1 DEF OpenService
  <2>3. pc[main] = "dispatch" /\ held[main].type = "open" /\ held[main].inst = k
    BY <1>1 DEF OpenService
  <2> HIDE DEF k, p
  <2>4. /\ held'[main] = Message("opened", p, "none", k)
        /\ \A t \in Threads \ {main} : held'[t] = held[t]
    BY <2>2 DEF TypeInv, TypeOK, ThreadType
  <2>5. /\ pc'[main] = "reply" /\ pc'[k] = thread
        /\ \A j \in Instances \ {k} : Still(j)
    BY <2>1, <2>2 DEF TypeInv, TypeOK, PcType, Still
  <2>6. at'[k] = p /\ \A j \in Instances \ {k} : at'[j] = at[j]
    BY <2>1, <2>2 DEF TypeInv, TypeOK, ThreadType, Workers
  <2>7. /\ services'[p].port = p /\ services'[p].kind = kind /\ services'[p].inst = k
        /\ \A q \in Ports \ {p} : services'[q] = services[q]
    BY <1>0, <2>1, <2>2 DEF Services
  <2>8. Starts(k, p, kind, thread)
    BY <1>1, <2>1, <2>2, <2>3, <2>4, <2>5, <2>6, <2>7 DEF Starts
  <2>9. QED
    BY <2>1, <2>8
<1>2. CASE DenyService
  <2>1. SameNones
    BY <1>2 DEF DenyService, Goto, SameNones, TypeInv, TypeOK, PcType
  <2>2. CASE UNCHANGED table
    BY <1>2, <2>1, <2>2 DEF table
  <2>3. CASE FreePorts # {} /\ services' = [services EXCEPT ![openNewPort].port = openNewPort]
    <3> DEFINE p == openNewPort
    <3>1. p \in Ports /\ services[p].port = -1
      BY <1>0, <2>3
    <3>2. services' = [services EXCEPT ![p].port = p]
      BY <2>3
    <3> HIDE DEF p
    <3>3. Wastes(p)
      BY <1>0, <3>1, <3>2 DEF Services, Wastes
    <3>4. QED
      BY <1>2, <2>1, <3>1, <3>3
  <2>4. QED
    BY <1>2, <2>2, <2>3 DEF DenyService
<1>3. QED
  BY <1>1, <1>2 DEF SpawnerStep, BulkInit, MethodInit, SignalsInit
\* Ports stay with their services, or are left without one.
SlotsKept ==
  \A p \in Ports :
    \/ /\ services'[p].port = services[p].port /\ services'[p].kind = services[p].kind
       /\ services'[p].inst = services[p].inst
    \/ services'[p].inst = 0 /\ services'[p].kind \notin {"Bulk", "Method", "Signals"}

\* What a step does to the services: one starts, or none does.
LEMMA ServicesFrame ==
  ASSUME TypeInv, OwnedInv, [Next]_vars
  PROVE  \/ SlotsKept /\ SameNones
         \/ \E k \in Instances, p \in Ports, kind \in {"Bulk", "Method", "Signals"}, thread \in {"none", "start"} :
              Starts(k, p, kind, thread)
<1>0. /\ SameSlots => SlotsKept
      /\ UNCHANGED services => SlotsKept
      /\ (\A k \in Instances : Still(k)) => SameNones
  BY DEF SameSlots, SlotsKept, Still, SameNones
<1>1. CASE LinkDown \/ Receive \/ ReceiverStep \/ SenderStep \/ Finished
  BY <1>0, <1>1, OuterFrame DEF Workers
<1>2. ASSUME NEW t \in Workers, PortStep(t) PROVE SlotsKept /\ SameNones
  <2>1. SameNones
    <3>1. \A k \in Instances : k # t => Still(k)
      BY <1>2, PortHands
    <3>2. t \in Instances => pc[t] # "none" /\ pc'[t] # "none"
      BY <1>2, PortHands
    <3>3. QED
      BY <3>1, <3>2 DEF SameNones, Still
  <2>2. SlotsKept
    <3>1. CASE CleanupReset(t)
      <4>1. services \in [Ports -> Services] /\ services' = [services EXCEPT ![at[t]] = Free]
        BY <3>1 DEF CleanupReset, TypeInv, TypeOK, TableType, Services
      <4>2. Free.inst = 0 /\ Free.kind = "none"
        BY DEF Free
      <4>3. QED
        BY <4>1, <4>2 DEF SlotsKept
    <3>2. CASE ~CleanupReset(t)
      BY <1>0, <1>2, <3>2 DEF PortStep, StatusWrite, CheckBothClosed, CleanupLock, CleanupJoin, CleanupUnlock, table
    <3>3. QED
      BY <3>1, <3>2
  <2>3. QED
    BY <2>1, <2>2
<1>3. ASSUME NEW k \in Instances, ThreadData(k) \/ BulkReadEnd(k) \/ ThreadStep(k), ~PortStep(k)
      PROVE  SlotsKept /\ SameNones
  <2>1. /\ SameSlots /\ pc[k] # "none" /\ pc'[k] # "none"
        /\ \A t \in Threads \ {k} : Still(t)
    BY <1>3, ThreadFrame DEF Engaged
  <2>2. QED
    BY <1>0, <2>1 DEF SameNones, Still
<1>4. CASE CheckPort \/ HandlerStep \/ MainReply \/ StatusStep
  BY <1>0, <1>4, HandlerFrame
<1>5. CASE SpawnerStep
  <2>1. CASE SameNones /\ UNCHANGED services
    BY <1>0, <2>1
  <2>2. ASSUME SameNones, NEW p \in Ports, Wastes(p) PROVE SlotsKept
    <3>1. services[p].inst = 0 /\ services[p].kind = "none"
      BY <2>2 DEF Wastes, OwnedInv
    <3>2. QED
      BY <2>2, <3>1 DEF Wastes, SlotsKept
  <2>3. QED
    BY <1>5, <2>1, <2>2, SpawnerCases
<1>6. CASE MainPoll \/ DeInitStep
  BY <1>0, <1>6, SessionFrame
<1>7. CASE Accept
  <2>1. \A k \in Instances : Still(k)
    BY <1>7 DEF Accept, Still, TypeInv, TypeOK, PcType
  <2>2. SlotsKept
    BY <1>7 DEF Accept, SlotsKept, Free
  <2>3. QED
    BY <1>0, <2>1, <2>2
<1>8. CASE UNCHANGED vars
  BY <1>0, <1>8 DEF vars, Still
<1>9. QED
  BY <1>1, <1>2, <1>3, <1>4, <1>5, <1>6, <1>7, <1>8 DEF Next, MainStep, ThreadStep, Workers

\* The service that starts was asked for before, and is not asked for any more.
LEMMA StartedAsked ==
  ASSUME TypeInv, RequestsInv, NEW k \in Instances, NEW p, NEW kind, NEW thread,
         Starts(k, p, kind, thread)
  PROVE  Asked(k) /\ ~Asked(k)'
<1>1. /\ held[main].type = "open" /\ held[main].inst = k
      /\ held'[main].type = "opened" /\ held'[receiver] = held[receiver]
      /\ receiveQueue' = receiveQueue /\ opens' = opens
  BY DEF Starts, Message, queues, peer
<1>2. k <= opens /\ k \in Nat /\ opens \in Nat
  BY <1>1 DEF RequestsInv, Instances, TypeInv, TypeOK, CounterType
<1>3. Asked(k)
  BY <1>1 DEF Asked
<1>4. /\ held[receiver].type = "open" => k < held[receiver].inst
      /\ \A i \in 1 .. Len(receiveQueue) : receiveQueue[i].type = "open" => k < receiveQueue[i].inst
  BY <1>1 DEF RequestsInv
<1>5. ~Asked(k)'
  BY <1>1, <1>2, <1>4 DEF Asked
<1>6. QED
  BY <1>3, <1>5

\* No service exists before it is asked for, and none has two ports.
LEMMA ServicesInductive ==
  /\ Init => ServicesInv
  /\ TypeInv /\ OwnedInv /\ ShapeInv /\ RequestsInv /\ ServicesInv /\ [Next]_vars => ServicesInv'
<1>0. \A k \in Instances : k # 0
  BY DEF Instances
<1>1. ASSUME Init PROVE ServicesInv
  <2>1. /\ \A p \in Ports : services[p].inst = 0 /\ services[p].kind = "none"
        /\ \A k \in Instances : pc[k] = "none"
    BY <1>1 DEF Init, Free, Threads, Workers, Instances
  <2>2. QED
    BY <1>0, <2>1 DEF ServicesInv
<1>2. ASSUME TypeInv, OwnedInv, ShapeInv, RequestsInv, ServicesInv, [Next]_vars PROVE ServicesInv'
  <2>0. \A j \in Instances : Asked(j)' => Asked(j)
    BY <1>2, AskedShrinks
  <2>1. CASE SlotsKept /\ SameNones
    BY <1>0, <1>2, <2>0, <2>1 DEF ServicesInv, SlotsKept, SameNones
  <2>2. ASSUME NEW k \in Instances, NEW p \in Ports, NEW kind \in {"Bulk", "Method", "Signals"},
               NEW thread \in {"none", "start"}, Starts(k, p, kind, thread)
        PROVE  ServicesInv'
    <3>1. /\ services'[p].port = p /\ services'[p].kind = kind /\ services'[p].inst = k
          /\ \A q \in Ports \ {p} : services'[q] = services[q]
          /\ thread = "none" <=> kind = "Method"
          /\ pc'[k] = thread /\ \A j \in Instances \ {k} : pc'[j] = pc[j]
      BY <2>2 DEF Starts, Still
    <3>2. Asked(k) /\ ~Asked(k)'
      BY <1>2, <2>2, StartedAsked
    <3>3. pc[k] = "none" /\ \A q \in Ports : services[q].inst # k
      BY <1>2, <3>2 DEF ServicesInv
    <3>4. \A j \in Instances : Asked(j)' => pc'[j] = "none" /\ \A q \in Ports : services'[q].inst # j
      <4> SUFFICES ASSUME NEW j \in Instances, Asked(j)'
                   PROVE  pc'[j] = "none" /\ \A q \in Ports : services'[q].inst # j
        OBVIOUS
      <4>1. j # k /\ Asked(j)
        BY <2>0, <3>2
      <4>2. pc[j] = "none" /\ \A q \in Ports : services[q].inst # j
        BY <1>2, <4>1 DEF ServicesInv
      <4>3. QED
        BY <3>1, <4>1, <4>2
    <3>5. \A q, r \in Ports : services'[q].inst = services'[r].inst /\ q # r => services'[q].inst = 0
      BY <1>2, <3>1, <3>3 DEF ServicesInv
    <3>6. \A q \in Ports :
       /\ services'[q].inst # 0 => services'[q].port = q /\ services'[q].kind \in {"Bulk", "Method", "Signals"}
       /\ services'[q].kind = "Method" => services'[q].inst \in Instances /\ pc'[services'[q].inst] = "none"
       /\ services'[q].kind \in {"Bulk", "Signals"} =>
            services'[q].inst \in Instances /\ pc'[services'[q].inst] # "none"
      BY <1>2, <3>1, <3>3 DEF ServicesInv
    <3>7. QED
      BY <3>4, <3>5, <3>6 DEF ServicesInv
  <2>3. QED
    BY <1>2, <2>1, <2>2, ServicesFrame
<1>3. QED
  BY <1>1, <1>2
-----------------------------------------------------------------------------
(* What may come after what.                                               *)

\* Android forgets a port, or the link is lost.
LEMMA FitsLater ==
  ASSUME NEW q, NEW n, NEW m, NEW up, NEW up2, NEW view, NEW view2,
         Fits(q, n, up, view, m), up2 => up,
         \A p \in Ports : view2[p].inst \in {0, view[p].inst}
  PROVE  Fits(q, n, up2, view2, m)
BY DEF Fits, Told

\* Something is queued behind the first n messages,
LEMMA FitsBefore ==
  ASSUME NEW q \in Seq(AllMessages), NEW h \in AllMessages, NEW n \in 0 .. Len(q),
         NEW m, NEW up, NEW view, Fits(q, n, up, view, m)
  PROVE  Fits(Append(q, h), n, up, view, m)
<1>1. \A i \in 1 .. n : Append(q, h)[i] = q[i]
  OBVIOUS
<1>2. QED
  BY <1>1 DEF Fits, Told

\* or is the last of them.
LEMMA FitsBehind ==
  ASSUME NEW q \in Seq(AllMessages), NEW h \in AllMessages,
         NEW m, NEW up, NEW view, Fits(q, Len(q), up, view, m), MayFollow(h, m),
         h.type = "opened" /\ h.port = m.port => h.inst = m.inst \/ m.type \notin Speech
  PROVE  Fits(Append(q, h), Len(q) + 1, up, view, m)
<1> DEFINE n == Len(q)
           r == Append(q, h)
<1>1. n \in Nat /\ r[n + 1] = h /\ \A i \in 1 .. n : r[i] = q[i]
  OBVIOUS
<1>2. n + 1 \in 1 .. n + 1 /\ \A i \in 1 .. n + 1 : i \in 1 .. n \/ i = n + 1
  BY <1>1
<1>3. \A i \in 1 .. n : i \in 1 .. n + 1
  BY <1>1
<1> HIDE DEF n, r
<1>4. \A i \in 1 .. n + 1 : MayFollow(r[i], m)
  BY <1>1, <1>2 DEF Fits, n
<1>5. ASSUME m.type \in Speech, up PROVE Told(r, n + 1, view, m)
  BY <1>1, <1>2, <1>3, <1>5 DEF Fits, Told, n
<1>6. QED
  BY <1>4, <1>5 DEF Fits, n, r

\* Android receives the first message of q.
LEMMA FitsDrop ==
  ASSUME NEW q \in Seq(AllMessages), q # << >>, NEW n \in 1 .. Len(q), NEW m \in AllMessages,
         NEW up, NEW view, NEW view2,
         \A j \in 2 .. n : MayFollow(q[1], q[j]),
         Fits(q, n, up, view, m),
         up => \A p \in Ports : IF q[1].type = "opened" /\ q[1].port = p THEN view2[p].inst = q[1].inst
                                ELSE view2[p].inst \in {0, view[p].inst}
  PROVE  Fits(Tail(q), n - 1, up, view2, m)
<1> DEFINE r == Tail(q)
<1>1. n \in Nat /\ \A i \in 1 .. n - 1 : r[i] = q[i + 1] /\ i + 1 \in 2 .. n
  OBVIOUS
<1>2. 1 \in 1 .. n /\ \A i \in 2 .. n : i \in 1 .. n /\ i - 1 \in 1 .. n - 1 /\ r[i - 1] = q[i]
  BY <1>1
<1>3. \A i \in 1 .. n : i = 1 \/ i \in 2 .. n
  BY <1>1
<1>4. \A i \in 1 .. n : q[i].inst \in Nat
  <2>1. \A i \in 1 .. n : q[i] \in AllMessages
    OBVIOUS
  <2>2. \A o \in AllMessages : o.inst \in Nat
    BY DEF AllMessages
  <2>3. QED
    BY <2>1, <2>2
<1>5. m.inst \in Nat
  BY DEF AllMessages
<1> HIDE DEF r
<1>6. \A i \in 1 .. n - 1 : MayFollow(r[i], m)
  BY <1>1, <1>2 DEF Fits
<1>7. ASSUME m.type \in Speech, up PROVE Told(r, n - 1, view2, m)
  <2> DEFINE Opened(i) == q[i].type = "opened" /\ q[i].port = m.port
  <2>1. /\ m.port \in Ports
        /\ (\E i \in 1 .. n : Opened(i)) => \E i \in 1 .. n : Opened(i) /\ q[i].inst = m.inst
        /\ (\A i \in 1 .. n : ~Opened(i)) => view[m.port].inst \in {0, m.inst}
    BY <1>7 DEF Fits, Told
  <2>2. \A i \in 2 .. n : Opened(i) => q[i].inst <= m.inst /\ (Opened(1) => q[1].inst < q[i].inst)
    BY <1>2, <1>7 DEF Fits, MayFollow
  <2>3. (\E i \in 2 .. n : Opened(i)) => \E i \in 2 .. n : Opened(i) /\ q[i].inst = m.inst
    <3>1. ASSUME NEW j \in 2 .. n, Opened(j) PROVE \E i \in 2 .. n : Opened(i) /\ q[i].inst = m.inst
      <4>1. j \in 1 .. n
        BY <1>2
      <4>2. PICK i \in 1 .. n : Opened(i) /\ q[i].inst = m.inst
        BY <2>1, <3>1, <4>1
      <4>3. q[j].inst <= m.inst /\ (i = 1 => m.inst < q[j].inst)
        BY <2>2, <3>1, <4>2
      <4>4. i # 1
        BY <1>4, <1>5, <4>1, <4>3
      <4>5. QED
        BY <1>3, <4>2, <4>4
    <3>2. QED
      BY <3>1
  <2>4. (\A i \in 2 .. n : ~Opened(i)) => view2[m.port].inst \in {0, m.inst}
    BY <1>2, <1>3, <1>7, <2>1
  <2>5. \A i \in 1 .. n - 1 : (r[i].type = "opened" /\ r[i].port = m.port) <=> Opened(i + 1)
    BY <1>1
  <2> HIDE DEF Opened
  <2>6. (\E i \in 1 .. n - 1 : Opened(i + 1)) => \E i \in 1 .. n - 1 : Opened(i + 1) /\ r[i].inst = m.inst
    <3>1. ASSUME NEW i \in 1 .. n - 1, Opened(i + 1)
          PROVE  \E j \in 1 .. n - 1 : Opened(j + 1) /\ r[j].inst = m.inst
      <4>1. PICK j \in 2 .. n : Opened(j) /\ q[j].inst = m.inst
        BY <1>1, <2>3, <3>1
      <4>2. j - 1 \in 1 .. n - 1 /\ (j - 1) + 1 = j
        BY <1>1
      <4>3. QED
        BY <1>2, <4>1, <4>2
    <3>2. QED
      BY <3>1
  <2>7. (\A i \in 1 .. n - 1 : ~Opened(i + 1)) => view2[m.port].inst \in {0, m.inst}
    <3>1. ASSUME NEW j \in 2 .. n, \A i \in 1 .. n - 1 : ~Opened(i + 1) PROVE ~Opened(j)
      <4>1. j - 1 \in 1 .. n - 1 /\ (j - 1) + 1 = j
        BY <1>1
      <4>2. QED
        BY <3>1, <4>1
    <3>2. QED
      BY <2>4, <3>1
  <2>8. QED
    BY <2>5, <2>6, <2>7 DEF Told
<1>8. QED
  BY <1>6, <1>7 DEF Fits, r
-----------------------------------------------------------------------------
(* What the steps do to what is on its way.                                *)

\* The message the sender writes is before those in its queue.
LEMMA Joined ==
  ASSUME NEW S, NEW q \in Seq(S), NEW x \in S, NEW m \in S
  PROVE  /\ << >> \o q = q /\ <<x>> \o q \in Seq(S)
         /\ <<x>> \o Append(q, m) = Append(<<x>> \o q, m)
         /\ q # << >> => <<Head(q)>> \o Tail(q) = q
         /\ <<x>> \o q # << >> /\ Head(<<x>> \o q) = x /\ Tail(<<x>> \o q) = q
OBVIOUS

\* What is on its way to Android is typed.
LEMMA OutgoingType ==
  ASSUME TypeInv
  PROVE  Outgoing \in Seq(AllMessages) /\ Len(Outgoing) \in Nat
<1>1. sendQueue \in Seq(AllMessages) /\ held[sender] \in AllMessages
  BY DEF TypeInv, TypeOK, QueueType, ThreadType
<1>2. Outgoing \in Seq(AllMessages)
  BY <1>1, Joined DEF Outgoing
<1>3. QED
  BY <1>2

\* A step that leaves the sender alone, and adds nothing to its queue or one message.
LEMMA OutgoingKept ==
  ASSUME UNCHANGED sendQueue, Still(sender), held'[sender] = held[sender]
  PROVE  Outgoing' = Outgoing
BY DEF Outgoing, Still

\* A message that is added to the send queue is the last on its way.
LEMMA OutgoingPut ==
  ASSUME TypeInv, Still(sender), held'[sender] = held[sender],
         NEW m \in AllMessages, sendQueue' = Append(sendQueue, m)
  PROVE  Outgoing' = Append(Outgoing, m)
<1>1. sendQueue \in Seq(AllMessages) /\ held[sender] \in AllMessages
  BY DEF TypeInv, TypeOK, QueueType, ThreadType
<1>2. << >> \o sendQueue = sendQueue /\ << >> \o Append(sendQueue, m) = Append(sendQueue, m)
  BY <1>1
<1>3. QED
  BY <1>1, <1>2, Joined DEF Outgoing, Still

\* The hands of all, of all but one.
HandsSame(S) == \A t \in S : Hand(t)' = Hand(t)

\* Android forgets, or learns nothing.
Forgets == \A p \in Ports : android'[p].inst \in {0, android[p].inst}

\* A step says nothing new; all is over; Android receives the first message; the
\* message of a thread is queued; a thread takes a message in its hands.
Quiet == Outgoing' = Outgoing /\ (link' => link) /\ Forgets /\ HandsSame(Workers)
Clears == Outgoing' = << >> /\ (\A t \in Workers : Hand(t)' = NULL)
            /\ (link' => \A p \in Ports : android'[p].inst = 0)
Drops == /\ Outgoing # << >> /\ Outgoing' = Tail(Outgoing) /\ link' = link /\ HandsSame(Workers)
         /\ link => android' = AfterReceiving(Head(Outgoing))
Puts(t) == /\ Outgoing' = Append(Outgoing, Hand(t)) /\ Hand(t)' = NULL
           /\ HandsSame(Workers \ {t}) /\ UNCHANGED <<link, android>>
Takes(t, m) == /\ Outgoing' = Outgoing /\ Hand(t) = NULL /\ Hand(t)' = m
               /\ HandsSame(Workers \ {t}) /\ UNCHANGED <<link, android>>

\* The hands of those that a step leaves alone.
LEMMA HandStill ==
  ASSUME NEW t, Still(t), held'[t] = held[t]
  PROVE  Hand(t)' = Hand(t)
BY DEF Hand, Still

\* What Android knows after it has sent or received a message.
LEMMA SendingForgets ==
  ASSUME TypeInv, NEW m \in FromAndroid, android' = AfterSending(m)
  PROVE  Forgets
<1>1. android \in Views /\ Unknown.inst = 0
  BY DEF TypeInv, TypeOK, AndroidType, Views, Unknown
<1>2. QED
  BY <1>1 DEF AfterSending, Settle, Forgets, Views

\* After a message Android takes the port of a confirmation for the service that
\* is confirmed, and any other for the service it did, or has forgotten it.
LEMMA ReceivingTold ==
  ASSUME TypeInv, NEW m \in AllMessages, NEW p \in Ports
  PROVE  IF m.type = "opened" /\ m.port = p THEN AfterReceiving(m)[p].inst = m.inst
         ELSE AfterReceiving(m)[p].inst \in {0, android[p].inst}
<1>1. android \in Views /\ Unknown.inst = 0
  BY DEF TypeInv, TypeOK, AndroidType, Views, Unknown
<1>2. QED
  BY <1>1 DEF AfterReceiving, Settle, Views

\* The steps of the connection's two threads,
LEMMA OuterSpeech ==
  ASSUME TypeInv, LinkDown \/ Receive \/ ReceiverStep \/ SenderStep \/ Finished
  PROVE  Quiet \/ Drops
<1>0. /\ HandsSame(Workers)
      /\ held \in [Threads -> AllMessages] /\ DOMAIN pc = Threads
      /\ UNCHANGED android => Forgets
  <2>1. UNCHANGED at /\ held'[main] = held[main] /\ \A t \in Workers : Still(t)
    BY OuterFrame
  <2>2. held \in [Threads -> AllMessages] /\ DOMAIN pc = Threads
    BY DEF TypeInv, TypeOK, ThreadType, PcType
  <2>3. \A k \in Instances : held'[k] = held[k]
    BY <2>2 DEF LinkDown, Receive, ReceiverStep, ReceiverError, ReceiverAdd, ReceiverStop, SenderStep,
           SenderTest, SenderPoll, SenderWrite, Finished, vars
  <2>4. \A t \in Workers : held'[t] = held[t]
    BY <2>1, <2>3 DEF Workers
  <2>5. QED
    BY <2>1, <2>2, <2>4, HandStill DEF HandsSame, Forgets
<1>1. CASE LinkDown \/ Receive \/ ReceiverStep \/ Finished
  <2>1. UNCHANGED sendQueue /\ Still(sender) /\ held'[sender] = held[sender] /\ (link' => link)
    BY <1>0, <1>1 DEF LinkDown, Receive, ReceiverStep, ReceiverError, ReceiverAdd, ReceiverStop, Finished,
                      vars, queues, conn, Goto, Still
  <2>2. Forgets
    <3>1. CASE Receive
      BY <3>1, SendingForgets DEF Receive
    <3>2. CASE ~Receive
      BY <1>0, <1>1, <3>2 DEF LinkDown, ReceiverStep, ReceiverError, ReceiverAdd, ReceiverStop, Finished, vars, peer
    <3>3. QED
      BY <3>1, <3>2
  <2>3. QED
    BY <1>0, <2>1, <2>2, OutgoingKept DEF Quiet
<1>2. CASE SenderTest
  <2>1. pc[sender] = "test" /\ pc'[sender] # "write" /\ UNCHANGED <<sendQueue, link, android>>
    BY <1>0, <1>2 DEF SenderTest, Goto, queues, conn, peer
  <2>2. QED
    BY <1>0, <2>1 DEF Outgoing, Quiet
<1>3. sendQueue \in Seq(AllMessages) /\ held[sender] \in AllMessages
  BY DEF TypeInv, TypeOK, QueueType, ThreadType
<1>4. CASE SenderPoll
  <2>1. /\ pc[sender] = "poll" /\ sendQueue # << >> /\ sendQueue' = Tail(sendQueue)
        /\ held'[sender] = Head(sendQueue) /\ UNCHANGED <<link, android>>
        /\ pc'[sender] = IF Head(sendQueue) = NULL THEN "ended" ELSE "write"
    BY <1>0, <1>4 DEF SenderPoll, Goto, conn, peer
  <2>2. Outgoing = sendQueue
    BY <1>3, <2>1 DEF Outgoing
  <2>3. CASE Head(sendQueue) = NULL
    <3>1. Outgoing' = Tail(sendQueue)
      BY <1>3, <2>1, <2>3 DEF Outgoing
    <3>2. AfterReceiving(NULL) = android
      BY DEF AfterReceiving, NULL, Message
    <3>3. QED
      BY <1>0, <2>1, <2>2, <2>3, <3>1, <3>2 DEF Drops
  <2>4. CASE Head(sendQueue) # NULL
    <3>1. Outgoing' = Outgoing
      BY <1>3, <2>1, <2>2, <2>4, Joined DEF Outgoing
    <3>2. QED
      BY <1>0, <2>1, <3>1 DEF Quiet
  <2>5. QED
    BY <2>3, <2>4
<1>5. CASE SenderWrite
  <2>1. /\ pc[sender] = "write" /\ pc'[sender] = "test" /\ sendQueue' = sendQueue /\ link' = link
        /\ link => android' = AfterReceiving(held[sender])
    BY <1>0, <1>5 DEF SenderWrite, Goto, queues
  <2>2. /\ Outgoing # << >> /\ Head(Outgoing) = held[sender]
        /\ Tail(Outgoing) = sendQueue
    BY <1>3, <2>1, Joined DEF Outgoing
  <2>3. Outgoing' = sendQueue
    BY <1>3, <2>1 DEF Outgoing
  <2>4. QED
    BY <1>0, <2>1, <2>2, <2>3 DEF Drops
<1>6. QED
  BY <1>1, <1>2, <1>4, <1>5 DEF SenderStep

\* A worker queues what it has in its hands.
LEMMA EnqueueSpeech ==
  ASSUME TypeInv, NEW t \in Workers, Enqueue(t), UNCHANGED <<link, android>>,
         \A u \in Threads \ {t} : Still(u),
         Hand(t) = held[t], pc'[t] \notin {"reply", "write", "status write"} \/ Hand(t)' = held'[t]
  PROVE  Puts(t)
<1>1. held \in [Threads -> AllMessages] /\ t \in Threads /\ t # sender /\ Workers \subseteq Threads
  BY DEF TypeInv, TypeOK, ThreadType, Workers, Threads, Instances
<1>2. /\ held'[t] = NULL /\ \A u \in Threads \ {t} : held'[u] = held[u]
      /\ sendQueue' = Append(sendQueue, held[t])
  BY <1>1 DEF Enqueue
<1>3. Outgoing' = Append(Outgoing, held[t])
  BY <1>1, <1>2, OutgoingPut
<1>4. HandsSame(Workers \ {t})
  BY <1>1, <1>2, HandStill DEF HandsSame
<1>5. Hand(t)' = NULL
  BY <1>2 DEF Hand
<1>6. QED
  BY <1>3, <1>4, <1>5 DEF Puts

\* of a worker with its port,
LEMMA PortSpeech ==
  ASSUME TypeInv, NEW t \in Workers, PortStep(t)
  PROVE  IF StatusWrite(t) THEN Puts(t) ELSE Quiet
<1>1. /\ t \in Threads /\ t # sender /\ Workers \subseteq Threads
      /\ \A u \in Threads \ {t} : Still(u) /\ held'[u] = held[u]
  BY PortHands DEF Workers, Threads, Instances
<1>2. CASE StatusWrite(t)
  <2>1. /\ pc[t] = "status write" /\ pc'[t] = "both closed?" /\ Enqueue(t) /\ UNCHANGED <<link, android>>
    BY <1>1, <1>2 DEF StatusWrite, Goto, conn, peer, TypeInv, TypeOK, PcType
  <2>2. QED
    BY <1>1, <1>2, <2>1, EnqueueSpeech DEF Hand
<1>3. CASE ~StatusWrite(t)
  <2>1. UNCHANGED <<sendQueue, held, link, android>>
    BY <1>3 DEF PortStep, CheckBothClosed, CleanupLock, CleanupJoin, CleanupReset, CleanupUnlock, queues, conn, peer
  <2>2. pc[t] \in {"both closed?", "lock", "join", "reset", "unlock"}
    BY <1>3 DEF PortStep, CheckBothClosed, CleanupLock, CleanupJoin, CleanupReset, CleanupUnlock, Goto
  <2>3. pc'[t] \notin {"reply", "write", "status write"}
    BY <2>2, PortHands
  <2>4. Hand(t)' = Hand(t)
    BY <2>2, <2>3 DEF Hand
  <2>5. Outgoing' = Outgoing
    BY <1>1, <2>1, OutgoingKept
  <2>6. HandsSame(Workers)
    BY <1>1, <2>4, HandStill DEF HandsSame
  <2>7. QED
    BY <1>3, <2>1, <2>5, <2>6 DEF Quiet, Forgets
<1>4. QED
  BY <1>2, <1>3

\* of a service's thread otherwise,
LEMMA ThreadSpeech ==
  ASSUME TypeInv, OwnedInv, NEW k \in Instances, ThreadData(k) \/ BulkReadEnd(k) \/ ThreadStep(k), ~PortStep(k)
  PROVE  \/ Quiet /\ pc'[k] \notin {"write", "status write"}
         \/ Puts(k) /\ pc[k] = "write"
         \/ /\ pc[k] = "read" /\ at[k] \in Ports /\ services[at[k]].inst = k
            /\ \/ Takes(k, Message("data", at[k], "none", k))
               \/ Takes(k, Message("eof", at[k], "none", k)) /\ pc'[k] = "status write"
<1>1. /\ \A u \in Threads \ {k} : Still(u)
      /\ Engaged(k)
  BY ThreadFrame
<1>2. /\ at[k] \in Ports /\ services[at[k]].port = at[k] /\ services[at[k]].inst = k
  BY <1>1 DEF Engaged, OwnedInv, TypeInv, PlacedInv, TypeOK, TableType
<1>3. /\ k \in Workers /\ k # sender /\ Workers \subseteq Threads
      /\ held \in [Threads -> AllMessages] /\ DOMAIN pc = Threads
  BY DEF Workers, Threads, TypeInv, TypeOK, ThreadType, PcType
<1>4. CASE ThreadStart(k) \/ SignalWatchStop(k)
  <2>1. /\ UNCHANGED <<sendQueue, held, link, android>>
        /\ pc[k] \notin {"write", "status write"} /\ pc'[k] \notin {"reply", "write", "status write"}
        /\ pc[k] # "reply"
    BY <1>3, <1>4 DEF ThreadStart, SignalWatchStop, Goto, queues, conn, peer
  <2>2. Outgoing' = Outgoing
    BY <1>1, <1>3, <2>1, OutgoingKept
  <2>3. HandsSame(Workers)
    <3>1. Hand(k)' = Hand(k)
      BY <2>1 DEF Hand
    <3>2. \A u \in Workers \ {k} : Still(u) /\ held'[u] = held[u]
      BY <1>1, <1>3, <2>1
    <3>3. QED
      BY <3>1, <3>2, HandStill DEF HandsSame
  <2>4. QED
    BY <2>1, <2>2, <2>3 DEF Quiet, Forgets
<1>5. CASE ThreadWrite(k)
  <2>1. /\ pc[k] = "write" /\ pc'[k] = "read" /\ Enqueue(k) /\ UNCHANGED <<link, android>>
    BY <1>3, <1>5 DEF ThreadWrite, Goto, conn, peer
  <2>2. Puts(k)
    BY <1>1, <1>3, <2>1, EnqueueSpeech DEF Hand
  <2>3. QED
    BY <2>1, <2>2
<1>6. ASSUME NEW type \in {"data", "eof"}, held' = [held EXCEPT ![k] = Message(type, services[at[k]].port, "none", k)],
             UNCHANGED <<sendQueue, link, android>>,
             pc[k] = "read", pc'[k] \in {"write", "status write"}
      PROVE  Takes(k, Message(type, at[k], "none", k))
  <2>1. Hand(k) = NULL /\ Hand(k)' = Message(type, at[k], "none", k)
    BY <1>2, <1>3, <1>6 DEF Hand
  <2>2. \A u \in Threads \ {k} : Still(u) /\ held'[u] = held[u]
    BY <1>1, <1>3, <1>6
  <2>3. HandsSame(Workers \ {k})
    BY <1>3, <2>2, HandStill DEF HandsSame
  <2>4. Outgoing' = Outgoing
    BY <1>3, <1>6, <2>2, OutgoingKept
  <2>5. QED
    BY <1>6, <2>1, <2>3, <2>4 DEF Takes
<1>7. CASE ThreadData(k)
  <2>1. /\ held' = [held EXCEPT ![k] = Message("data", services[at[k]].port, "none", k)]
        /\ UNCHANGED <<sendQueue, link, android>>
        /\ pc[k] = "read" /\ pc'[k] = "write"
    BY <1>3, <1>7 DEF ThreadData, Goto, queues, conn, peer
  <2>2. QED
    BY <1>2, <1>6, <2>1
<1>8. CASE BulkReadEnd(k)
  <2>1. /\ held' = [held EXCEPT ![k] = Message("eof", services[at[k]].port, "none", services[at[k]].inst)]
        /\ UNCHANGED <<sendQueue, link, android>>
        /\ pc[k] = "read" /\ pc'[k] = "status write"
    BY <1>3, <1>8 DEF BulkReadEnd, SendStatus, Goto, queues, conn, peer
  <2>2. QED
    BY <1>2, <1>6, <2>1
<1>9. QED
  BY <1>4, <1>5, <1>7, <1>8 DEF ThreadStep

\* Main alone takes a step with the message it has.
LEMMA MainQuiet ==
  ASSUME TypeInv, \A u \in Threads \ {main} : Still(u), \A u \in Threads \ {main} : held'[u] = held[u],
         UNCHANGED <<sendQueue, android>>, link' => link,
         pc[main] \notin {"reply", "write", "status write"}
  PROVE  /\ Outgoing' = Outgoing /\ Forgets /\ HandsSame(Workers \ {main}) /\ Hand(main) = NULL
         /\ pc'[main] \notin {"reply", "write", "status write"} => Quiet
<1>1. Outgoing' = Outgoing
  BY OutgoingKept
<1>2. HandsSame(Workers \ {main})
  BY HandStill DEF HandsSame, Threads
<1>3. Hand(main) = NULL
  BY DEF Hand
<1>4. Forgets
  BY DEF Forgets
<1>5. ASSUME pc'[main] \notin {"reply", "write", "status write"} PROVE Quiet
  <2>1. Hand(main)' = Hand(main)
    BY <1>3, <1>5 DEF Hand
  <2>2. HandsSame(Workers)
    BY <1>2, <2>1 DEF HandsSame
  <2>3. QED
    BY <1>1, <1>4, <2>2 DEF Quiet
<1>6. QED
  BY <1>1, <1>2, <1>3, <1>4, <1>5

\* of main when it takes a message, and between two connections,
LEMMA SessionSpeech ==
  ASSUME TypeInv, OwnedInv, LoopInv, ShapeInv, MainPoll \/ DeInitStep \/ Accept
  PROVE  \/ Quiet
         \/ Puts(main) /\ Hand(main) = NULL
         \/ Clears
<1>1. held \in [Threads -> AllMessages] /\ DOMAIN pc = Threads
  BY DEF TypeInv, TypeOK, ThreadType, PcType
<1> USE DEF Goto, Still, queues, conn, peer
<1>2. CASE MainPoll
  <2>1. /\ \A u \in Threads \ {main} : Still(u) /\ held'[u] = held[u]
        /\ UNCHANGED <<sendQueue, android, link>> /\ pc[main] = "poll" /\ pc'[main] \in {"deinit", "dispatch"}
    BY <1>1, <1>2 DEF MainPoll
  <2>2. QED
    BY <2>1, MainQuiet
<1>3. CASE DeInitPort \/ DeInitJoin
  <2>1. /\ \A u \in Threads \ {main} : Still(u) /\ held'[u] = held[u]
        /\ UNCHANGED <<sendQueue, android, link>>
        /\ pc[main] \in {"deinit", "join receiver", "join sender"}
        /\ pc'[main] \in {"deinit", "lock", "stop sender", "join sender", "free"}
    BY <1>1, <1>3 DEF DeInitPort, DeInitJoin
  <2>2. QED
    BY <2>1, MainQuiet
<1>4. CASE DeInitStopSender
  <2>1. /\ pc[main] = "stop sender" /\ pc'[main] = "join receiver"
        /\ Enqueue(main) /\ UNCHANGED <<link, android>>
        /\ \A u \in Threads \ {main} : Still(u)
    BY <1>1, <1>4 DEF DeInitStopSender
  <2>2. Hand(main) = NULL /\ held[main] = NULL
    BY <2>1 DEF Hand, ShapeInv, MainShape, Ending
  <2>3. main \in Workers
    BY DEF Workers
  <2>4. QED
    BY <2>1, <2>2, <2>3, EnqueueSpeech
<1>5. CASE DeInitFree \/ Accept
  <2>1. /\ \A k \in Instances : Still(k)
        /\ pc[main] \in {"free", "accept"}
        /\ pc'[main] \in {"crashed", "accept", "poll"} /\ pc'[sender] # "write"
        /\ sendQueue' = << >> /\ (link' => \A p \in Ports : android'[p].inst = 0)
    <3>1. CASE DeInitFree
      <4>1. pc[sender] = "ended"
        BY <3>1 DEF DeInitFree, LoopInv
      <4>2. QED
        BY <1>1, <3>1, <4>1 DEF DeInitFree
    <3>2. CASE Accept
      BY <1>1, <3>2 DEF Accept, Unknown
    <3>3. QED
      BY <1>5, <3>1, <3>2
  <2>2. \A k \in Instances : pc'[k] \in {"none", "unlock", "ended"}
    <3>1. \A p \in Ports : services[p].port = -1
      BY <2>1 DEF LoopInv
    <3>2. \A k \in Instances : ~Engaged(k)
      BY <3>1 DEF OwnedInv, Engaged, TypeInv, PlacedInv
    <3>3. QED
      BY <2>1, <3>2 DEF Engaged
  <2>3. Outgoing' = << >>
    BY <2>1 DEF Outgoing
  <2>4. \A t \in Workers : Hand(t)' = NULL
    BY <2>1, <2>2 DEF Hand, Workers
  <2>5. QED
    BY <2>1, <2>3, <2>4 DEF Clears
<1>6. QED
  BY <1>2, <1>3, <1>4, <1>5 DEF DeInitStep

\* of the spawner,
LEMMA SpawnerSpeech ==
  ASSUME TypeInv, RequestsInv, ServicesInv, SpawnerStep
  PROVE  /\ pc[main] = "dispatch" /\ held[main].type = "open"
         /\ Takes(main, held'[main])
<1>1. held \in [Threads -> AllMessages] /\ DOMAIN pc = Threads
  BY DEF TypeInv, TypeOK, ThreadType, PcType
<1>2. /\ pc[main] = "dispatch" /\ held[main].type = "open" /\ pc'[main] = "reply"
      /\ UNCHANGED <<sendQueue, link, android>>
      /\ \A u \in Threads \ {main} : held'[u] = held[u]
  BY <1>1 DEF SpawnerStep, BulkInit, MethodInit, SignalsInit, OpenService, DenyService, Goto, queues, conn, peer
<1>3. Still(sender)
  BY SpawnerFrame
<1>4. Outgoing' = Outgoing /\ Hand(main) = NULL /\ Hand(main)' = held'[main]
  BY <1>2, <1>3, OutgoingKept DEF Hand
<1>5. HandsSame(Workers \ {main})
  <2>1. CASE DenyService
    BY <1>1, <1>2, <2>1, HandStill DEF HandsSame, DenyService, Goto, Still, Workers
  <2>2. ASSUME NEW k \in Instances, NEW p \in Ports, NEW kind \in {"Bulk", "Method", "Signals"},
               NEW thread \in {"none", "start"}, Starts(k, p, kind, thread)
        PROVE  HandsSame(Workers \ {main})
    <3>1. pc[k] = "none" /\ pc'[k] \in {"none", "start"} /\ \A j \in Instances \ {k} : Still(j)
      BY <2>2, StartedAsked DEF Starts, ServicesInv
    <3>2. Hand(k)' = Hand(k)
      BY <3>1 DEF Hand
    <3>3. QED
      BY <1>2, <3>1, <3>2, HandStill DEF HandsSame, Workers
  <2>3. QED
    BY <2>1, <2>2, SpawnerCases
<1>6. QED
  BY <1>2, <1>4, <1>5 DEF Takes
\* A service that main speaks for.
Speaks(p, type) ==
  /\ pc[main] \in {"call", "apply"} /\ held[main].type \in {"data", "eof"}
  /\ Takes(main, Message(type, p, "none", services[p].inst))
  /\ \/ services[p].kind = "Method" /\ type \in {"data", "eof"}
     \/ services[p].kind = "Bulk" /\ type = "close"
  /\ type = "eof" => at'[main] = p /\ pc'[main] = "status write" /\ BothClosed(p)'
  /\ held'[main].type = type

\* and of main when it handles a message.
LEMMA HandlerSpeech ==
  ASSUME TypeInv, ServicesInv, CheckPort \/ HandlerStep \/ MainReply \/ StatusStep
  PROVE  \/ Quiet
         \/ Puts(main) /\ MainReply
         \/ pc[main] = "dispatch" /\ held[main].type = "ping" /\ Takes(main, Message("pong", 2, "none", 0))
         \/ \E p \in Ports, type \in {"data", "eof", "close"} : Speaks(p, type)
<1>1. /\ held \in [Threads -> AllMessages] /\ DOMAIN pc = Threads /\ main \in Workers
  BY DEF TypeInv, TypeOK, ThreadType, PcType, Workers
<1>2. /\ \A u \in Threads \ {main} : Still(u)
      /\ pc[main] = "call" => held[main].type = "data" /\ held[main].port \in Ports
      /\ pc[main] = "apply" => held[main].port \in Ports
  BY HandlerFrame DEF TypeInv, HandledInv, Addressed
<1>3. \A p \in Ports : services[p].kind \in {"Method", "Bulk"} => services[p].port = p
  BY DEF ServicesInv, Instances
<1> USE DEF Goto, queues, conn, peer
<1>4. CASE CheckPort \/ SignalsOnBytesReceived \/ CallNull
  <2>1. /\ \A u \in Threads \ {main} : held'[u] = held[u]
        /\ UNCHANGED <<sendQueue, android, link>>
        /\ pc[main] \in {"dispatch", "call"} /\ pc'[main] \in {"poll", "call", "apply", "crashed"}
    BY <1>1, <1>4 DEF CheckPort, SignalsOnBytesReceived, CallNull, Call
  <2>2. QED
    BY <1>2, <2>1, MainQuiet
<1>5. CASE OnClose \/ OnEof \/ CheckAfterStatus
  <2>1. /\ \A u \in Threads \ {main} : held'[u] = held[u]
        /\ UNCHANGED <<sendQueue, android, link>>
        /\ pc[main] \in {"apply", "status check"} /\ pc'[main] \in {"poll", "status check", "crashed", "lock"}
    BY <1>1, <1>5 DEF OnClose, OnEof, CheckAfterStatus
  <2>2. QED
    BY <1>2, <2>1, MainQuiet
<1>6. ASSUME NEW m, held' = [held EXCEPT ![main] = m], UNCHANGED <<sendQueue, android, link>>,
             pc[main] \in {"dispatch", "call", "apply"}, pc'[main] \in {"reply", "status write"}
      PROVE  Takes(main, m) /\ held'[main] = m
  <2>1. \A u \in Threads \ {main} : held'[u] = held[u]
    BY <1>1, <1>6
  <2>2. /\ Outgoing' = Outgoing /\ HandsSame(Workers \ {main}) /\ Hand(main) = NULL
    BY <1>2, <1>6, <2>1, MainQuiet
  <2>3. held'[main] = m
    BY <1>1, <1>6
  <2>4. Hand(main)' = m
    BY <1>6, <2>3 DEF Hand
  <2>5. QED
    BY <1>6, <2>2, <2>3, <2>4 DEF Takes
<1>7. CASE Keepalive
  <2>1. /\ held' = [held EXCEPT ![main] = Message("pong", 2, "none", 0)] /\ UNCHANGED <<sendQueue, android, link>>
        /\ pc[main] = "dispatch" /\ pc'[main] = "reply" /\ held[main].type = "ping"
    BY <1>1, <1>7 DEF Keepalive
  <2>2. QED
    BY <1>6, <2>1
<1>8. CASE MainReply
  <2>1. /\ pc[main] = "reply" /\ pc'[main] = "poll" /\ Enqueue(main) /\ UNCHANGED <<android, link>>
    BY <1>1, <1>8 DEF MainReply
  <2>2. Puts(main)
    BY <1>1, <1>2, <2>1, EnqueueSpeech DEF Hand
  <2>3. QED
    BY <1>8, <2>2
<1>9. CASE MethodOnBytesReceived
  <2> DEFINE p == held[main].port
  <2>1. pc[main] = "call" /\ services[p].kind = "Method" /\ UNCHANGED <<sendQueue, android, link>>
    BY <1>9 DEF MethodOnBytesReceived, Call
  <2>2. CASE pc'[main] = "poll" /\ UNCHANGED held
    BY <1>2, <2>1, <2>2, MainQuiet
  <2>3. CASE /\ pc'[main] = "reply"
             /\ held' = [held EXCEPT ![main] = Message("data", services[p].port, "none", services[p].inst)]
    <3>1. p \in Ports /\ services[p].port = p /\ held[main].type = "data"
      BY <1>2, <1>3, <2>1
    <3> HIDE DEF p
    <3>2. Takes(main, Message("data", p, "none", services[p].inst))
          /\ held'[main] = Message("data", p, "none", services[p].inst)
      BY <1>6, <2>1, <2>3, <3>1
    <3>3. Speaks(p, "data")
      BY <2>1, <3>1, <3>2 DEF Speaks, Message
    <3>4. QED
      BY <3>1, <3>3
  <2>4. QED
    BY <1>1, <1>9, <2>2, <2>3 DEF MethodOnBytesReceived
<1>10. CASE BulkOnBytesReceived
  <2> DEFINE p == held[main].port
  <2>1. pc[main] = "call" /\ services[p].kind = "Bulk" /\ UNCHANGED <<sendQueue, android, link>>
    BY <1>10 DEF BulkOnBytesReceived, Call
  <2>2. CASE pc'[main] = "poll" /\ UNCHANGED held
    BY <1>2, <2>1, <2>2, MainQuiet
  <2>3. CASE /\ pc'[main] = "status write"
             /\ held' = [held EXCEPT ![main] = Message("close", services[p].port, "none", services[p].inst)]
    <3>1. p \in Ports /\ services[p].port = p /\ held[main].type = "data"
      BY <1>2, <1>3, <2>1
    <3> HIDE DEF p
    <3>2. Takes(main, Message("close", p, "none", services[p].inst))
          /\ held'[main] = Message("close", p, "none", services[p].inst)
      BY <1>6, <2>1, <2>3, <3>1
    <3>3. Speaks(p, "close")
      BY <2>1, <3>1, <3>2 DEF Speaks, Message
    <3>4. QED
      BY <3>1, <3>3
  <2>4. QED
    BY <1>1, <1>10, <2>2, <2>3 DEF BulkOnBytesReceived, SendStatus
<1>11. CASE MethodOnEof
  <2>0. pc[main] = "apply"
    BY <1>11 DEF MethodOnEof
  <2>1. PICK p \in Ports : p = held[main].port
    BY <1>2, <2>0
  <2>2. /\ services[p].kind = "Method" /\ UNCHANGED <<sendQueue, android, link>>
        /\ held[main].type = "eof" /\ pc'[main] = "status write"
        /\ held' = [held EXCEPT ![main] = Message("eof", p, "none", services[p].inst)]
        /\ at' = [at EXCEPT ![main] = p]
        /\ services' = [services EXCEPT ![p].inputOpen = FALSE, ![p].outputOpen = FALSE]
    BY <1>1, <1>11, <2>1 DEF MethodOnEof
  <2>3. at'[main] = p
    BY <1>1, <2>2 DEF TypeInv, TypeOK, ThreadType
  <2>4. BothClosed(p)'
    <3>1. services \in [Ports -> Services]
      BY DEF TypeInv, TypeOK, TableType, Services
    <3>2. ~services'[p].inputOpen /\ ~services'[p].outputOpen
      BY <2>2, <3>1 DEF Services
    <3>3. QED
      BY <3>2 DEF BothClosed
  <2>5. Takes(main, Message("eof", p, "none", services[p].inst))
        /\ held'[main] = Message("eof", p, "none", services[p].inst)
    BY <1>6, <2>0, <2>2
  <2>6. Speaks(p, "eof")
    <3>1. held'[main].type = "eof"
      BY <2>5 DEF Message
    <3>2. QED
      BY <2>0, <2>2, <2>3, <2>4, <2>5, <3>1 DEF Speaks
  <2>7. QED
    BY <2>6
<1>12. QED
  BY <1>4, <1>5, <1>7, <1>8, <1>9, <1>10, <1>11 DEF HandlerStep, StatusStep
-----------------------------------------------------------------------------
(* The order of what is said.                                              *)

\* A service that may speak after a step could speak before it.
VoicesKept ==
  \A p \in Ports : services'[p].inst # 0 /\ ~Confirming(services[p].inst)' =>
    services'[p].inst = services[p].inst /\ ~Confirming(services[p].inst)

\* The empty message may follow any, and any may follow it.
LEMMA NullFollows ==
  /\ \A m : MayFollow(m, NULL) /\ MayFollow(NULL, m)
  /\ \A q, n, up, view : Fits(q, n, up, view, NULL)
BY DEF MayFollow, Fits, NULL, Message, Speech, About

\* What may be queued before a step and after it, when the hands and the voices stay.
LEMMA SpeechKept ==
  ASSUME SpeechInv, OrderInv', \A m \in AllMessages : Ready(m) => Ready(m)',
         TypeInv, HandsSame(Workers), VoicesKept
  PROVE  SpeechInv'
<1>1. \A t \in Workers : Hand(t) \in AllMessages
  BY NullType DEF Hand, TypeInv, TypeOK, ThreadType, Workers, Threads
<1>2. \A p \in Ports : Voice(p) \in AllMessages
  BY DEF Voice, Message, AllMessages, MessageTypes, TypeInv, TypeOK, TableType, Ports
<1>3. HandsInv'
  <2>1. \A t \in Workers : Hand(t)' = Hand(t)
    BY DEF HandsSame
  <2>2. ASSUME NEW t \in Workers PROVE Ready(Hand(t))'
    <3>1. PICK m \in AllMessages : m = Hand(t)
      BY <1>1
    <3>2. Ready(m)'
      BY <3>1 DEF SpeechInv, HandsInv
    <3>3. Ready(Hand(t))' <=> Ready(m)'
      BY <2>1, <3>1 DEF Ready
    <3>4. QED
      BY <3>2, <3>3
  <2>3. \A t, u \in Workers : t # u => MayFollow(Hand(t)', Hand(u)')
    BY <2>1 DEF SpeechInv, HandsInv
  <2>4. QED
    BY <2>2, <2>3 DEF HandsInv, MayFollow, About
<1>4. VoiceInv'
  <2> SUFFICES ASSUME NEW p \in Ports, services'[p].inst # 0, ~Confirming(services[p].inst)'
               PROVE  Ready(Voice(p))'
    BY DEF VoiceInv
  <2>1. services'[p].inst = services[p].inst /\ ~Confirming(services[p].inst)
    BY DEF VoicesKept
  <2>2. PICK m \in AllMessages : m = Voice(p)
    BY <1>2
  <2>3. Ready(m)'
    BY <2>1, <2>2 DEF SpeechInv, VoiceInv
  <2>4. Ready(Voice(p))' <=> Ready(m)'
    BY <2>1, <2>2 DEF Ready, Voice
  <2>5. QED
    BY <2>3, <2>4
<1>5. QED
  BY <1>3, <1>4 DEF SpeechInv

\* A step that says nothing changes nothing of what may be said.
LEMMA QuietSpeech ==
  ASSUME TypeInv, SpeechInv, Quiet, VoicesKept
  PROVE  SpeechInv'
<1>1. Outgoing' = Outgoing /\ (link' => link) /\ HandsSame(Workers)
      /\ \A p \in Ports : android'[p].inst \in {0, android[p].inst}
  BY DEF Quiet, Forgets
<1>2. ASSUME NEW n, NEW m, Fits(Outgoing, n, link, android, m)
      PROVE  Fits(Outgoing, n, link', android', m)
  BY <1>1, <1>2, FitsLater
<1>3. OrderInv'
  BY <1>1, <1>2 DEF SpeechInv, OrderInv
<1>4. \A m \in AllMessages : Ready(m) => Ready(m)'
  BY <1>1, <1>2 DEF Ready
<1>5. QED
  BY <1>1, <1>3, <1>4, SpeechKept

\* The end of a connection leaves nothing to be said.
LEMMA ClearsSpeech ==
  ASSUME Clears
  PROVE  SpeechInv'
<1>1. /\ Outgoing' = << >> /\ \A t \in Workers : Hand(t)' = NULL
      /\ link' => \A p \in Ports : android'[p].inst = 0
      /\ \A q : q = << >> => 1 .. Len(q) = {}
  BY DEF Clears
<1>2. OrderInv'
  BY <1>1 DEF OrderInv
<1>3. HandsInv'
  <2>1. \A t \in Workers : Ready(Hand(t))'
    BY <1>1, NullFollows DEF Ready
  <2>2. \A t, u \in Workers : MayFollow(Hand(t)', Hand(u)')
    BY <1>1, NullFollows
  <2>3. QED
    BY <2>1, <2>2 DEF HandsInv, MayFollow, About
<1>4. VoiceInv'
  <2>1. ASSUME NEW p \in Ports, NEW m, m.port = p PROVE Fits(<< >>, 0, link', android', m)
    BY <1>1, <2>1 DEF Fits, Told
  <2>2. \A p \in Ports : Voice(p)'.port = p
    BY DEF Voice, Message
  <2>3. Len(<< >>) = 0
    OBVIOUS
  <2>4. \A p \in Ports : Ready(Voice(p))'
    BY <1>1, <2>1, <2>2, <2>3 DEF Ready
  <2>5. QED
    BY <2>4 DEF VoiceInv
<1>5. QED
  BY <1>2, <1>3, <1>4 DEF SpeechInv

\* Android receives the first message: the others may still follow, since it knows
\* then what that message told it.
LEMMA DropsSpeech ==
  ASSUME TypeInv, SpeechInv, Drops, VoicesKept
  PROVE  SpeechInv'
<1> DEFINE q == Outgoing
           r == Tail(Outgoing)
<1>1. q \in Seq(AllMessages) /\ q # << >> /\ Outgoing' = r /\ link' = link /\ HandsSame(Workers)
  BY OutgoingType DEF Drops
<1>2. /\ Len(q) \in Nat /\ Len(q) >= 1 /\ Len(r) = Len(q) - 1 /\ q[1] = Head(q)
      /\ \A i \in 1 .. Len(q) - 1 : r[i] = q[i + 1]
      /\ \A i \in 1 .. Len(q) : q[i] \in AllMessages
  BY <1>1, Removed
<1>3. 1 \in 1 .. Len(q) /\ \A j \in 1 .. Len(r) : j + 1 \in 2 .. Len(q) /\ j + 1 \in 1 .. Len(q) /\ (j + 1) - 1 = j
                                 /\ j \in 1 .. Len(q) /\ j \in Nat
  BY <1>2
<1>4. link => \A p \in Ports : IF q[1].type = "opened" /\ q[1].port = p THEN android'[p].inst = q[1].inst
                              ELSE android'[p].inst \in {0, android[p].inst}
  BY <1>2, <1>3, ReceivingTold DEF Drops
<1>5. \A j \in 2 .. Len(q) : MayFollow(q[1], q[j])
  <2> SUFFICES ASSUME NEW j \in 2 .. Len(q) PROVE MayFollow(q[1], q[j])
    OBVIOUS
  <2>1. j \in 1 .. Len(q) /\ 1 \in 1 .. j - 1
    BY <1>2
  <2>2. Fits(q, j - 1, link, android, q[j])
    BY <2>1 DEF SpeechInv, OrderInv
  <2>3. QED
    BY <2>1, <2>2 DEF Fits
<1> HIDE DEF q, r
<1>6. ASSUME NEW n \in 1 .. Len(q), NEW m \in AllMessages, Fits(q, n, link, android, m)
      PROVE  Fits(r, n - 1, link', android', m)
  <2>1. \A j \in 2 .. n : MayFollow(q[1], q[j])
    <3>1. \A j \in 2 .. n : j \in 2 .. Len(q)
      BY <1>2
    <3>2. QED
      BY <1>5, <3>1
  <2>2. Fits(Tail(q), n - 1, link, android', m)
    BY <1>1, <1>4, <1>6, <2>1, FitsDrop
  <2>3. QED
    BY <1>1, <2>2 DEF q, r
<1>7. OrderInv'
  <2> SUFFICES ASSUME NEW j \in 1 .. Len(r) PROVE Fits(r, j - 1, link', android', r[j])
    BY <1>1 DEF OrderInv
  <2>1. j + 1 \in 1 .. Len(q) /\ (j + 1) - 1 = j /\ j \in 1 .. Len(q) /\ r[j] = q[j + 1]
    BY <1>2, <1>3
  <2>2. Fits(q, j, link, android, q[j + 1])
    BY <2>1 DEF SpeechInv, OrderInv, q
  <2>3. QED
    BY <1>2, <1>6, <2>1, <2>2
<1>8. \A m \in AllMessages : Ready(m) => Ready(m)'
  <2> SUFFICES ASSUME NEW m \in AllMessages, Ready(m) PROVE Ready(m)'
    OBVIOUS
  <2>1. Fits(q, Len(q), link, android, m) /\ Len(q) \in 1 .. Len(q)
    BY <1>2 DEF Ready, q
  <2>2. Fits(r, Len(r), link', android', m)
    BY <1>2, <1>6, <2>1
  <2>3. QED
    BY <1>1, <2>2 DEF Ready
<1>9. QED
  BY <1>1, <1>7, <1>8, SpeechKept

\* What the workers have in their hands is typed, and by where they are.
LEMMA HandsShape ==
  ASSUME TypeInv, OwnedInv, ShapeInv
  PROVE  /\ \A t \in Workers : Hand(t) \in AllMessages
         /\ \A k \in Instances : Hand(k) = NULL \/
              /\ pc[k] \in {"write", "status write"} /\ Hand(k).type \in {"data", "eof"}
              /\ Hand(k).inst = k /\ Hand(k).port = at[k] /\ at[k] \in Ports
              /\ services[at[k]].inst = k /\ services[at[k]].port # -1
         /\ Hand(main).type = "opened" <=> held[main].type = "opened"
         /\ Hand(main).type = "opened" => Hand(main) = held[main]
         /\ NULL.type = "NULL"
<1>0. NULL.type = "NULL" /\ NULL \in AllMessages
  BY NullType DEF NULL, Message
<1>1. \A t \in Workers : Hand(t) \in AllMessages
  BY NullType DEF Hand, TypeInv, TypeOK, ThreadType, Workers, Threads
<1>2. ASSUME NEW k \in Instances, Hand(k) # NULL
      PROVE  /\ pc[k] \in {"write", "status write"} /\ Hand(k).type \in {"data", "eof"}
             /\ Hand(k).inst = k /\ Hand(k).port = at[k] /\ at[k] \in Ports
             /\ services[at[k]].inst = k /\ services[at[k]].port # -1
  <2>1. pc[k] \in {"write", "status write"} /\ Hand(k) = held[k]
    BY <1>2 DEF Hand, TypeInv, TypeOK, PcType, ThreadPc
  <2>2. Hand(k).type \in {"data", "eof"} /\ Hand(k).inst = k /\ Hand(k).port = at[k]
    BY <2>1 DEF ShapeInv, ThreadShape
  <2>3. Engaged(k) /\ at[k] \in Ports
    BY <2>1 DEF Engaged, TypeInv, PlacedInv
  <2>4. services[at[k]].inst = k /\ services[at[k]].port # -1
    BY <2>3 DEF OwnedInv
  <2>5. QED
    BY <2>1, <2>2, <2>3, <2>4
<1>3. /\ Hand(main).type = "opened" <=> held[main].type = "opened"
      /\ Hand(main).type = "opened" => Hand(main) = held[main]
  BY <1>0 DEF Hand, ShapeInv, MainShape
<1>4. QED
  BY <1>0, <1>1, <1>2, <1>3

\* Main has the confirmation of k in its hands: the port is that of k, and no
\* other service has it.
LEMMA ConfirmedPort ==
  ASSUME TypeInv, OwnedInv, ShapeInv, ServicesInv, Hand(main).type = "opened"
  PROVE  /\ Hand(main).port \in Ports /\ Hand(main).inst \in Instances
         /\ \A p \in Ports : p = Hand(main).port <=> services[p].inst = Hand(main).inst
         /\ \A p \in Ports : Confirming(services[p].inst) <=> p = Hand(main).port
         /\ \A k \in Instances : Hand(k) # NULL => k # Hand(main).inst /\ Hand(k).port # Hand(main).port
<1>1. /\ Hand(main) = held[main] /\ held[main].type = "opened"
  BY HandsShape
<1> DEFINE k == held[main].inst
           p == held[main].port
<1>2. k \in Instances /\ p \in Ports /\ pc[k] \in {"none", "start"} /\ services[p].inst = k
  BY <1>1 DEF ShapeInv, ConfirmShape
<1>3. k # 0 /\ \A q, r \in Ports : services[q].inst = services[r].inst /\ q # r => services[q].inst = 0
  BY <1>2 DEF ServicesInv, Instances
<1>4. \A q \in Ports : q = p <=> services[q].inst = k
  <2> HIDE DEF k, p
  <2>1. QED
    BY <1>2, <1>3
<1>5. \A q \in Ports : Confirming(services[q].inst) <=> q = p
  BY <1>1, <1>4 DEF Confirming
<1>6. \A j \in Instances : Hand(j) # NULL => j # k /\ Hand(j).port # p
  <2> SUFFICES ASSUME NEW j \in Instances, Hand(j) # NULL PROVE j # k /\ Hand(j).port # p
    OBVIOUS
  <2>1. /\ pc[j] \in {"write", "status write"} /\ Hand(j).port = at[j] /\ at[j] \in Ports
        /\ services[at[j]].inst = j
    BY HandsShape
  <2> HIDE DEF k, p
  <2>2. j # k
    BY <1>2, <2>1
  <2>3. at[j] # p
    BY <1>2, <2>1, <2>2
  <2>4. QED
    BY <2>1, <2>2, <2>3
<1>7. QED
  BY <1>1, <1>2, <1>4, <1>5, <1>6

\* A worker queues what it has in its hands,
LEMMA PutsSpeech ==
  ASSUME TypeInv, OwnedInv, ShapeInv, ServicesInv, SpeechInv, NEW t \in Workers, Puts(t),
         \A p \in Ports : services'[p].inst # 0 /\ ~Confirming(services[p].inst)' =>
           services'[p].inst = services[p].inst /\ (~Confirming(services[p].inst) \/ t = main)
  PROVE  SpeechInv'
<1> DEFINE q == Outgoing
           h == Hand(t)
           r == Append(q, h)
<1>1. /\ Outgoing' = r /\ Hand(t)' = NULL /\ link' = link /\ android' = android
      /\ \A u \in Workers \ {t} : Hand(u)' = Hand(u)
  BY DEF Puts, HandsSame
<1>2. /\ q \in Seq(AllMessages) /\ Len(q) \in Nat /\ h \in AllMessages
      /\ \A u \in Workers : Hand(u) \in AllMessages
  BY OutgoingType, HandsShape
<1>3. /\ Len(r) = Len(q) + 1 /\ r[Len(q) + 1] = h /\ \A i \in 1 .. Len(q) : r[i] = q[i]
      /\ Len(q) + 1 \in 1 .. Len(r) /\ \A i \in 1 .. Len(q) : i \in 1 .. Len(r) /\ i - 1 \in 0 .. Len(q)
      /\ \A i \in 1 .. Len(r) : i \in 1 .. Len(q) \/ i = Len(q) + 1
      /\ (Len(q) + 1) - 1 = Len(q) /\ Len(q) \in 0 .. Len(q)
  BY <1>2
<1>4. h.type = "opened" => t = main
  BY HandsShape DEF Workers
<1> HIDE DEF q, h, r
<1>5. OrderInv'
  <2> SUFFICES ASSUME NEW j \in 1 .. Len(r) PROVE Fits(r, j - 1, link, android, r[j])
    BY <1>1 DEF OrderInv
  <2>1. CASE j \in 1 .. Len(q)
    <3>1. Fits(q, j - 1, link, android, q[j])
      BY <2>1 DEF SpeechInv, OrderInv, q
    <3>2. Fits(r, j - 1, link, android, q[j])
      BY <1>2, <1>3, <2>1, <3>1, FitsBefore DEF r
    <3>3. QED
      BY <1>3, <2>1, <3>2
  <2>2. CASE j = Len(q) + 1
    <3>1. Fits(q, Len(q), link, android, h)
      BY DEF SpeechInv, HandsInv, Ready, h, q
    <3>2. Fits(r, Len(q), link, android, h)
      BY <1>2, <1>3, <3>1, FitsBefore DEF r
    <3>3. QED
      BY <1>3, <2>2, <3>2
  <2>3. QED
    BY <1>3, <2>1, <2>2
<1>6. ASSUME NEW m, Fits(q, Len(q), link, android, m), MayFollow(h, m),
             h.type = "opened" /\ h.port = m.port => h.inst = m.inst \/ m.type \notin Speech
      PROVE  Fits(r, Len(r), link', android', m)
  <2>1. Fits(Append(q, h), Len(q) + 1, link, android, m)
    BY <1>2, <1>6, FitsBehind
  <2>2. QED
    BY <1>1, <1>3, <2>1 DEF r
<1>7. HandsInv'
  <2>1. Ready(Hand(t))'
    BY <1>1, NullFollows DEF Ready
  <2>2. ASSUME NEW u \in Workers \ {t} PROVE Ready(Hand(u))'
    <3>1. Fits(q, Len(q), link, android, Hand(u)) /\ MayFollow(h, Hand(u))
      BY DEF SpeechInv, HandsInv, Ready, h, q
    <3>2. h.type = "opened" /\ h.port = Hand(u).port => Hand(u).type \notin Speech
      <4>1. ASSUME h.type = "opened" PROVE u \in Instances /\ Hand(main).type = "opened" /\ h = Hand(main)
        BY <1>4, <4>1 DEF Workers, h
      <4>2. Hand(u) = NULL => Hand(u).type \notin Speech
        BY HandsShape DEF Speech
      <4>3. QED
        BY <4>1, <4>2, ConfirmedPort
    <3>3. Fits(r, Len(r), link', android', Hand(u))
      BY <1>6, <3>1, <3>2
    <3>4. QED
      BY <1>1, <3>3 DEF Ready
  <2>3. \A u, v \in Workers : u # v => MayFollow(Hand(u)', Hand(v)')
    BY <1>1, NullFollows DEF SpeechInv, HandsInv
  <2>4. QED
    BY <2>1, <2>2, <2>3 DEF HandsInv, MayFollow, About
<1>8. VoiceInv'
  <2> SUFFICES ASSUME NEW p \in Ports, services'[p].inst # 0, ~Confirming(services[p].inst)'
               PROVE  Ready(Voice(p))'
    BY DEF VoiceInv
  <2>1. services'[p].inst = services[p].inst /\ (~Confirming(services[p].inst) \/ t = main)
    OBVIOUS
  <2>2. Voice(p)' = Voice(p) /\ Voice(p).type = "close" /\ Voice(p).port = p /\ Voice(p).inst = services[p].inst
    BY <2>1 DEF Voice, Message
  <2>3. Fits(r, Len(r), link', android', Voice(p))
    <3>1. CASE ~Confirming(services[p].inst)
      <4>1. Fits(q, Len(q), link, android, Voice(p))
        BY <2>1, <3>1 DEF SpeechInv, VoiceInv, Ready, q
      <4>2. ~(h.type = "opened" /\ h.port = p)
        BY <1>4, <3>1, ConfirmedPort DEF h
      <4>3. MayFollow(h, Voice(p))
        BY <2>2, <4>2 DEF MayFollow
      <4>4. QED
        BY <1>6, <2>2, <4>1, <4>2, <4>3
    <3>2. CASE Confirming(services[p].inst)
      <4>1. h.type = "opened" /\ h.port = p /\ h.inst = services[p].inst
        <5>1. Hand(main).type = "opened" /\ h = Hand(main)
          BY <2>1, <3>2, HandsShape DEF Confirming, h
        <5>2. QED
          BY <3>2, <5>1, ConfirmedPort
      <4>2. \A i \in 1 .. Len(q) : MayFollow(q[i], h)
        BY DEF SpeechInv, HandsInv, Ready, Fits, q, h
      <4>3. \A i \in 1 .. Len(q) : q[i].inst \in Nat
        <5>1. \A i \in 1 .. Len(q) : q[i] \in AllMessages
          BY <1>2
        <5>2. QED
          BY <5>1 DEF AllMessages
      <4>4. h.inst \in Nat
        BY <1>2 DEF AllMessages
      <4>5. \A i \in 1 .. Len(q) : MayFollow(q[i], Voice(p))
        BY <2>2, <4>1, <4>2, <4>3, <4>4 DEF MayFollow
      <4>6. MayFollow(h, Voice(p))
        BY <2>2, <4>1, <4>4 DEF MayFollow
      <4>7. \A i \in 1 .. Len(r) : MayFollow(r[i], Voice(p))
        BY <1>3, <4>5, <4>6
      <4>8. Told(r, Len(r), android', Voice(p))
        BY <1>3, <2>2, <4>1 DEF Told
      <4>9. QED
        BY <2>2, <4>7, <4>8 DEF Fits
    <3>3. QED
      BY <3>1, <3>2
  <2>4. QED
    BY <1>1, <2>2, <2>3 DEF Ready
<1>9. QED
  BY <1>5, <1>7, <1>8 DEF SpeechInv

\* or takes what it is ready to say in its hands.
LEMMA TakesSpeech ==
  ASSUME TypeInv, SpeechInv, NEW t \in Workers, NEW m, Takes(t, m), Ready(m), VoicesKept,
         \A u \in Workers \ {t} : MayFollow(Hand(u), m) /\ MayFollow(m, Hand(u))
  PROVE  SpeechInv'
<1>1. /\ Outgoing' = Outgoing /\ Hand(t)' = m /\ link' = link /\ android' = android
      /\ \A u \in Workers \ {t} : Hand(u)' = Hand(u)
  BY DEF Takes, HandsSame
<1>2. OrderInv'
  BY <1>1 DEF SpeechInv, OrderInv
<1>3. HandsInv'
  <2>1. \A u \in Workers : Ready(Hand(u))'
    BY <1>1 DEF SpeechInv, HandsInv, Ready
  <2>2. \A u, v \in Workers : u # v => MayFollow(Hand(u)', Hand(v)')
    BY <1>1 DEF SpeechInv, HandsInv
  <2>3. QED
    BY <2>1, <2>2 DEF HandsInv, MayFollow, About
<1>4. VoiceInv'
  <2> SUFFICES ASSUME NEW p \in Ports, services'[p].inst # 0, ~Confirming(services[p].inst)'
               PROVE  Ready(Voice(p))'
    BY DEF VoiceInv
  <2>1. services'[p].inst = services[p].inst /\ ~Confirming(services[p].inst)
    BY DEF VoicesKept
  <2>2. Ready(Voice(p)) /\ Voice(p)' = Voice(p)
    BY <2>1 DEF SpeechInv, VoiceInv, Voice
  <2>3. QED
    BY <1>1, <2>2 DEF Ready
<1>5. QED
  BY <1>2, <1>3, <1>4 DEF SpeechInv

\* A confirmation stays in main's hands until it is queued.
LEMMA ConfirmKept ==
  ASSUME TypeInv, ShapeInv, [Next]_vars, ~MainReply, held[main].type = "opened"
  PROVE  held'[main] = held[main]
<1>0. pc[main] = "reply" /\ held \in [Threads -> AllMessages] /\ DOMAIN pc = Threads
  BY DEF ShapeInv, MainShape, TypeInv, TypeOK, ThreadType, PcType
<1>1. CASE LinkDown \/ Receive \/ ReceiverStep \/ SenderStep \/ Finished
  BY <1>1, OuterFrame
<1>2. ASSUME NEW t \in Workers, PortStep(t) PROVE held'[main] = held[main]
  <2>1. t # main
    BY <1>0, <1>2, PortHands
  <2>2. QED
    BY <1>2, <2>1, PortHands
<1>3. ASSUME NEW k \in Instances, ThreadData(k) \/ BulkReadEnd(k) \/ ThreadStep(k), ~PortStep(k)
      PROVE  held'[main] = held[main]
  BY <1>3, ThreadFrame
<1>4. CASE CheckPort \/ HandlerStep \/ StatusStep
  BY <1>0, <1>4 DEF CheckPort, HandlerStep, Keepalive, MethodOnBytesReceived, BulkOnBytesReceived, SendStatus,
     SignalsOnBytesReceived, CallNull, Call, StatusStep, OnClose, OnEof, MethodOnEof, CheckAfterStatus, Goto
<1>5. CASE SpawnerStep
  BY <1>0, <1>5, SpawnerFrame
<1>6. CASE MainPoll \/ DeInitStep
  BY <1>0, <1>6, SessionFrame
<1>7. CASE Accept
  BY <1>0, <1>7 DEF Accept
<1>8. CASE UNCHANGED vars
  BY <1>8 DEF vars
<1>9. QED
  BY <1>1, <1>2, <1>3, <1>4, <1>5, <1>6, <1>7, <1>8 DEF Next, MainStep, ThreadStep, Workers

\* No step but the one in which main queues a confirmation gives a service a voice.
LEMMA VoicesFrame ==
  ASSUME GroundInv, [Next]_vars
  PROVE  ~MainReply => VoicesKept
<1> SUFFICES ASSUME ~MainReply PROVE VoicesKept
  OBVIOUS
<1> USE DEF GroundInv
<1>1. \A k : Confirming(k) => Confirming(k)'
  BY ConfirmKept DEF Confirming
<1>2. CASE SlotsKept
  <2> SUFFICES ASSUME NEW p \in Ports, services'[p].inst # 0, ~Confirming(services[p].inst)'
               PROVE  services'[p].inst = services[p].inst /\ ~Confirming(services[p].inst)
    BY DEF VoicesKept
  <2>1. services'[p].inst = services[p].inst
    BY <1>2 DEF SlotsKept
  <2>2. PICK k : k = services[p].inst
    OBVIOUS
  <2>3. ~Confirming(k)'
    BY <2>1, <2>2 DEF Confirming
  <2>4. QED
    BY <1>1, <2>1, <2>2, <2>3
<1>3. ASSUME NEW k \in Instances, NEW q \in Ports, NEW kind \in {"Bulk", "Method", "Signals"},
             NEW thread \in {"none", "start"}, Starts(k, q, kind, thread)
      PROVE  VoicesKept
  <2>1. /\ held[main].type # "opened" /\ held'[main].type = "opened" /\ held'[main].inst = k
        /\ services'[q].inst = k
        /\ \A p \in Ports \ {q} : services'[p] = services[p]
    BY <1>3 DEF Starts, Message
  <2>2. QED
    BY <2>1 DEF VoicesKept, Confirming
<1>4. QED
  BY <1>2, <1>3, ServicesFrame

\* What is said of a service that may speak.
LEMMA SpokenFor ==
  ASSUME TypeInv, SpeechInv, NEW p \in Ports, services[p].inst # 0, ~Confirming(services[p].inst),
         NEW type \in {"data", "eof", "close"},
         type # "close" => ~SaidEof(services[p].inst)
  PROVE  /\ Ready(Message(type, p, "none", services[p].inst))
         /\ \A t \in Workers : Hand(t).type = "eof" /\ Hand(t).inst = services[p].inst => type = "close"
<1> DEFINE m == Message(type, p, "none", services[p].inst)
           v == Voice(p)
<1>1. /\ m.type = type /\ m.port = p /\ m.inst = services[p].inst
      /\ v.type = "close" /\ v.port = p /\ v.inst = services[p].inst
  BY DEF Message, Voice
<1>2. Ready(v)
  BY DEF SpeechInv, VoiceInv
<1>3. \A i \in 1 .. Len(Outgoing) : Outgoing[i].type = "eof" /\ Outgoing[i].inst = services[p].inst => type = "close"
  BY DEF SaidEof
<1> HIDE DEF m, v
<1>4. \A i \in 1 .. Len(Outgoing) : MayFollow(Outgoing[i], m)
  <2>1. \A i \in 1 .. Len(Outgoing) : MayFollow(Outgoing[i], v)
    BY <1>2 DEF Ready, Fits
  <2>2. QED
    BY <1>1, <1>3, <2>1 DEF MayFollow, Speech
<1>5. link => Told(Outgoing, Len(Outgoing), android, m)
  <2>1. link => Told(Outgoing, Len(Outgoing), android, v)
    BY <1>1, <1>2 DEF Ready, Fits, Speech
  <2>2. QED
    BY <1>1, <2>1 DEF Told
<1>6. Ready(m)
  BY <1>1, <1>4, <1>5 DEF Ready, Fits
<1>7. \A t \in Workers : Hand(t).type = "eof" /\ Hand(t).inst = services[p].inst => type = "close"
  BY DEF SaidEof
<1>8. QED
  BY <1>6, <1>7 DEF m

\* The thread of a service is about to say something,
LEMMA ThreadSays ==
  ASSUME GroundInv, OutputInv, VoicesKept, NEW k \in Instances, NEW type \in {"data", "eof"},
         pc[k] = "read", at[k] \in Ports, services[at[k]].inst = k,
         Takes(k, Message(type, at[k], "none", k))
  PROVE  SpeechInv'
<1> USE DEF GroundInv, OutputInv
<1>1. PICK p \in Ports : p = at[k] /\ services[p].inst = k
  OBVIOUS
<1> DEFINE m == Message(type, p, "none", k)
<1>2. k # 0 /\ k \in Workers /\ ~Confirming(services[p].inst)
  BY <1>1 DEF ShapeInv, ConfirmShape, Confirming, Instances, Workers
<1>3. ~SaidEof(services[p].inst)
  BY <1>1 DEF DoneInv
<1>4. /\ Ready(m) /\ m.type = type /\ m.port = p /\ m.inst = k
      /\ \A t \in Workers : ~(Hand(t).type = "eof" /\ Hand(t).inst = k)
  BY <1>1, <1>2, <1>3, SpokenFor DEF Message
<1>5. ASSUME Hand(main).type = "opened" PROVE Hand(main).port # p /\ Hand(main).inst # k
  BY <1>1, <1>2, <1>5, ConfirmedPort
<1>6. \A u \in Instances \ {k} : Hand(u).inst # k \/ Hand(u) = NULL
  BY HandsShape
<1>7. \A u \in Instances : Hand(u).type # "opened"
  BY HandsShape
<1>8. Hand(main).type \in {"data", "eof"} => Hand(main).inst # k
  BY DEF DoneInv
<1>9. NULL.type = "NULL"
  BY DEF NULL, Message
<1>10. Takes(k, m)
  BY <1>1
<1> HIDE DEF m
<1>11. \A u \in Workers \ {k} : u \in Instances \ {k} \/ u = main
  BY DEF Workers
<1>12. \A u \in Workers \ {k} : MayFollow(Hand(u), m)
  BY <1>4, <1>5, <1>7, <1>11 DEF MayFollow
<1>13. \A u \in Workers \ {k} : MayFollow(m, Hand(u))
  BY <1>4, <1>5, <1>6, <1>7, <1>8, <1>9, <1>11 DEF MayFollow, About
<1>14. QED
  BY <1>2, <1>4, <1>10, <1>12, <1>13, TakesSpeech

\* main speaks for one,
LEMMA MainSays ==
  ASSUME GroundInv, OutputInv, VoicesKept, NEW p \in Ports, NEW type \in {"data", "eof", "close"},
         Speaks(p, type)
  PROVE  SpeechInv'
<1> USE DEF GroundInv, OutputInv
<1>1. PICK k : k = services[p].inst
  OBVIOUS
<1> DEFINE m == Message(type, p, "none", k)
<1>2. /\ k \in Instances /\ k # 0 /\ ~Confirming(services[p].inst)
      /\ type # "close" => pc[k] = "none"
  <2>1. services[p].kind \in {"Method", "Bulk"} /\ held[main].type # "opened"
        /\ (type # "close" => services[p].kind = "Method")
    BY DEF Speaks
  <2>2. QED
    BY <1>1, <2>1 DEF ServicesInv, Confirming, Instances
<1>3. type # "close" => ~SaidEof(k)
  <2>1. ~Closing(p)
    BY DEF Speaks, Closing
  <2>2. QED
    BY <1>1, <1>2, <2>1 DEF DoneInv
<1>4. /\ Ready(m) /\ m.type = type /\ m.port = p /\ m.inst = k
      /\ \A t \in Workers : Hand(t).type = "eof" /\ Hand(t).inst = k => type = "close"
  BY <1>1, <1>2, <1>3, SpokenFor DEF Message
<1>5. \A u \in Workers \ {main} :
        /\ Hand(u).type # "opened"
        /\ type = "eof" /\ Hand(u).inst = k => Hand(u).type = "NULL"
  <2> SUFFICES ASSUME NEW u \in Instances
               PROVE  /\ Hand(u).type # "opened"
                      /\ type = "eof" /\ Hand(u).inst = k => Hand(u).type = "NULL"
    BY DEF Workers
  <2>1. CASE Hand(u) = NULL
    BY <2>1, HandsShape
  <2>2. CASE Hand(u) # NULL
    <3>1. Hand(u).type \in {"data", "eof"} /\ Hand(u).inst = u /\ pc[u] # "none"
      BY <2>2, HandsShape
    <3>2. QED
      BY <1>2, <3>1
  <2>3. QED
    BY <2>1, <2>2
<1>6. Takes(main, m) /\ main \in Workers
  BY <1>1 DEF Speaks, Workers
<1> HIDE DEF m
<1>7. \A u \in Workers \ {main} : MayFollow(Hand(u), m)
  BY <1>4, <1>5 DEF MayFollow
<1>8. \A u \in Workers \ {main} : MayFollow(m, Hand(u))
  BY <1>4, <1>5 DEF MayFollow
<1>9. QED
  BY <1>4, <1>6, <1>7, <1>8, TakesSpeech

\* or answers.
LEMMA MainAnswers ==
  ASSUME GroundInv, OutputInv, VoicesKept, NEW m, Takes(main, m), m.type \in {"pong", "denied"}
  PROVE  SpeechInv'
<1> USE DEF GroundInv, OutputInv
<1>1. \A a : MayFollow(a, m) /\ MayFollow(m, a)
  BY DEF MayFollow, Speech, About
<1>2. Ready(m)
  BY <1>1 DEF Ready, Fits, Speech
<1>3. QED
  BY <1>1, <1>2, TakesSpeech DEF Workers

\* The spawner hands main a confirmation: nothing was said of the new service, and
\* its request is later than every one that has been confirmed.
LEMMA MainConfirms ==
  ASSUME GroundInv, OutputInv, VoicesKept,
         NEW k \in Instances, NEW p \in Ports, NEW kind \in {"Bulk", "Method", "Signals"},
         NEW thread \in {"none", "start"}, Starts(k, p, kind, thread), Takes(main, held'[main])
  PROVE  SpeechInv'
<1> USE DEF GroundInv, OutputInv
<1> DEFINE m == Message("opened", p, "none", k)
<1>1. /\ m.type = "opened" /\ m.port = p /\ m.inst = k /\ main \in Workers
      /\ Takes(main, m) /\ services[p].port = -1
  BY DEF Starts, Message, Workers
<1>2. Asked(k)
  BY StartedAsked
<1>3. /\ \A i \in 1 .. Len(Outgoing) :
           ~About(Outgoing[i], k) /\ (Outgoing[i].type = "opened" => Outgoing[i].inst < k)
      /\ \A t \in Workers : ~About(Hand(t), k)
  BY <1>2 DEF SilentInv
<1> HIDE DEF m
<1>4. Ready(m)
  BY <1>1, <1>3 DEF Ready, Fits, MayFollow, Speech
<1>5. \A u \in Workers \ {main} : Hand(u).type # "opened" /\ (Hand(u).type \in Speech => Hand(u).port # p)
  <2> SUFFICES ASSUME NEW u \in Instances
               PROVE  Hand(u).type # "opened" /\ (Hand(u).type \in Speech => Hand(u).port # p)
    BY DEF Workers
  <2>1. CASE Hand(u) = NULL
    BY <2>1, HandsShape DEF Speech
  <2>2. CASE Hand(u) # NULL
    <3>1. Hand(u).type \in {"data", "eof"} /\ Hand(u).port = at[u] /\ services[at[u]].port # -1
      BY <2>2, HandsShape
    <3>2. QED
      BY <1>1, <3>1
  <2>3. QED
    BY <2>1, <2>2
<1>6. \A u \in Workers \ {main} : MayFollow(Hand(u), m) /\ MayFollow(m, Hand(u))
  BY <1>1, <1>3, <1>5 DEF MayFollow
<1>7. QED
  BY <1>1, <1>4, <1>6, TakesSpeech
\* The thread of k says something; main answers; main confirms a port.
ThreadSpeaks(k, type) ==
  /\ pc[k] = "read" /\ at[k] \in Ports /\ services[at[k]].inst = k
  /\ Takes(k, Message(type, at[k], "none", k))
  /\ type = "eof" => pc'[k] = "status write"
Answers(m) == Takes(main, m) /\ m.type \in {"pong", "denied"}
Confirms(k, p, kind, thread) == Starts(k, p, kind, thread) /\ Takes(main, held'[main])

\* Every step is one of these.
SomePuts == \E t \in Workers : Puts(t)
SomeSays ==
  \/ \E k \in Instances, type \in {"data", "eof"} : ThreadSpeaks(k, type)
  \/ \E p \in Ports, type \in {"data", "eof", "close"} : Speaks(p, type)
SomeAnswers == \E m : Answers(m)
SomeConfirms ==
  \E k \in Instances, p \in Ports, kind \in {"Bulk", "Method", "Signals"}, thread \in {"none", "start"} :
    Confirms(k, p, kind, thread)
Utters == Quiet \/ Drops \/ Clears \/ SomePuts \/ SomeSays \/ SomeAnswers \/ SomeConfirms

\* Every step is one of these, as far as Android could hear.
LEMMA OutputCases ==
  ASSUME GroundInv, [Next]_vars
  PROVE  IF MainReply THEN Puts(main) /\ UNCHANGED services /\ SameNones
         ELSE VoicesKept /\ Utters
<1> USE DEF GroundInv
<1>0. main \in Workers
  BY DEF Workers
<1>1. CASE MainReply
  <2>1. UNCHANGED services /\ pc[main] = "reply" /\ SameNones
    BY <1>1 DEF MainReply, table, Goto, SameNones, TypeInv, TypeOK, PcType
  <2>2. Puts(main)
    <3>1. pc'[main] = "poll" /\ Enqueue(main) /\ UNCHANGED <<link, android>>
          /\ \A u \in Threads \ {main} : Still(u)
      BY <1>1 DEF MainReply, Goto, Still, conn, peer, TypeInv, TypeOK, PcType
    <3>2. QED
      BY <1>0, <2>1, <3>1, EnqueueSpeech DEF Hand
  <2>3. QED
    BY <1>1, <2>1, <2>2
<1>2. ASSUME ~MainReply PROVE Utters
  <2>2. CASE LinkDown \/ Receive \/ ReceiverStep \/ SenderStep \/ Finished
    BY <2>2, OuterSpeech DEF Utters
  <2>3. ASSUME NEW t \in Workers, PortStep(t) PROVE Utters
    BY <2>3, PortSpeech DEF Utters, SomePuts
  <2>4. ASSUME NEW k \in Instances, ThreadData(k) \/ BulkReadEnd(k) \/ ThreadStep(k), ~PortStep(k)
        PROVE  Utters
    <3>1. Quiet \/ Puts(k) \/ ThreadSpeaks(k, "data") \/ ThreadSpeaks(k, "eof")
      BY <2>4, ThreadSpeech DEF ThreadSpeaks
    <3>2. k \in Workers
      BY DEF Workers
    <3>3. QED
      BY <3>1, <3>2 DEF Utters, SomePuts, SomeSays
  <2>5. CASE CheckPort \/ HandlerStep \/ StatusStep
    <3>1. Message("pong", 2, "none", 0).type = "pong"
      BY DEF Message
    <3>2. \/ Quiet \/ SomeSays \/ SomePuts
          \/ Takes(main, Message("pong", 2, "none", 0))
      BY <1>0, <2>5, HandlerSpeech DEF SomeSays, SomePuts
    <3>3. Takes(main, Message("pong", 2, "none", 0)) => SomeAnswers
      BY <3>1 DEF SomeAnswers, Answers
    <3>4. QED
      BY <3>2, <3>3 DEF Utters
  <2>6. CASE SpawnerStep
    <3>1. Takes(main, held'[main])
      BY <2>6, SpawnerSpeech
    <3>2. CASE DenyService
      <4>1. held'[main].type = "denied"
        BY <3>2 DEF DenyService, Message, TypeInv, TypeOK, ThreadType
      <4>2. QED
        BY <3>1, <4>1 DEF Utters, SomeAnswers, Answers
    <3>3. CASE ~DenyService
      BY <2>6, <3>1, <3>3, SpawnerCases DEF Utters, SomeConfirms, Confirms
    <3>4. QED
      BY <3>2, <3>3
  <2>7. CASE MainPoll \/ DeInitStep \/ Accept
    BY <1>0, <2>7, SessionSpeech DEF Utters, SomePuts
  <2>8. CASE UNCHANGED vars
    <3>1. Quiet
      BY <2>8 DEF vars, Quiet, Forgets, HandsSame, Hand, Outgoing
    <3>2. QED
      BY <3>1 DEF Utters
  <2>9. QED
    BY <1>2, <2>2, <2>3, <2>4, <2>5, <2>6, <2>7, <2>8 DEF Next, MainStep, ThreadStep, Workers
<1>3. QED
  BY <1>1, <1>2, VoicesFrame

\* The order of what is said is kept by every step.
LEMMA SpeechInductive ==
  ASSUME GroundInv, OutputInv, [Next]_vars
  PROVE  SpeechInv'
<1>0. /\ TypeInv /\ OwnedInv /\ ShapeInv /\ ServicesInv /\ SpeechInv
      /\ main \in Workers
  BY DEF GroundInv, OutputInv, Workers
<1>1. CASE MainReply
  <2>1. Puts(main) /\ UNCHANGED services
    BY <1>1, OutputCases
  <2>2. QED
    BY <1>0, <2>1, PutsSpeech
<1>2. CASE ~MainReply
  <2>1. VoicesKept /\ Utters
    BY <1>2, OutputCases
  <2>2. CASE Quiet \/ Drops \/ Clears
    BY <1>0, <2>1, <2>2, QuietSpeech, DropsSpeech, ClearsSpeech
  <2>3. ASSUME NEW t \in Workers, Puts(t) PROVE SpeechInv'
    <3>1. \A p \in Ports : services'[p].inst # 0 /\ ~Confirming(services[p].inst)' =>
             services'[p].inst = services[p].inst /\ (~Confirming(services[p].inst) \/ t = main)
      BY <2>1 DEF VoicesKept
    <3>2. QED
      BY <1>0, <2>3, <3>1, PutsSpeech
  <2>4. ASSUME NEW k \in Instances, NEW type \in {"data", "eof"}, ThreadSpeaks(k, type) PROVE SpeechInv'
    BY <2>1, <2>4, ThreadSays DEF ThreadSpeaks
  <2>5. ASSUME NEW p \in Ports, NEW type \in {"data", "eof", "close"}, Speaks(p, type) PROVE SpeechInv'
    BY <2>1, <2>5, MainSays
  <2>6. ASSUME NEW m, Answers(m) PROVE SpeechInv'
    BY <2>1, <2>6, MainAnswers DEF Answers
  <2>7. ASSUME NEW k \in Instances, NEW p \in Ports, NEW kind \in {"Bulk", "Method", "Signals"},
               NEW thread \in {"none", "start"}, Confirms(k, p, kind, thread)
        PROVE  SpeechInv'
    BY <2>1, <2>7, MainConfirms DEF Confirms
  <2>8. QED
    BY <2>1, <2>2, <2>3, <2>4, <2>5, <2>6, <2>7 DEF Utters, SomePuts, SomeSays, SomeAnswers, SomeConfirms
<1>3. QED
  BY <1>1, <1>2

\* A confirmation is for an older request than those that are under way.
LEMMA ConfirmedBefore ==
  ASSUME TypeInv, RequestsInv, held[main].type = "opened", NEW k \in Instances, Asked(k)
  PROVE  held[main].inst < k
<1>1. /\ held[main].inst \in Nat /\ k \in Nat /\ opens \in Nat
      /\ held[main].inst <= opens
      /\ held[receiver].type = "open" => held[main].inst < held[receiver].inst
      /\ \A i \in 1 .. Len(receiveQueue) : receiveQueue[i].type = "open" => held[main].inst < receiveQueue[i].inst
  <2>1. opens \in Nat
    BY DEF TypeInv, TypeOK, CounterType
  <2>2. held[main].inst \in Nat
    <3>1. held[main] \in AllMessages
      BY DEF TypeInv, TypeOK, ThreadType
    <3>2. QED
      BY <3>1 DEF AllMessages
  <2>3. QED
    BY <2>1, <2>2 DEF RequestsInv, Instances
<1>2. QED
  BY <1>1 DEF Asked

\* Nothing is said of a service before it is answered for: whoever says something
\* is a thread or a port of the service, and these exist only afterwards.
LEMMA SilentInductive ==
  ASSUME GroundInv, OutputInv, [Next]_vars
  PROVE  SilentInv'
<1>0. /\ TypeInv /\ OwnedInv /\ ShapeInv /\ RequestsInv /\ ServicesInv /\ SilentInv
      /\ main \in Workers /\ \A k \in Instances : k \in Workers
      /\ ~About(NULL, 0) /\ \A k : ~About(NULL, k)
  BY DEF GroundInv, OutputInv, Workers, About, NULL, Message
<1>1. \A k \in Instances : Asked(k)' => Asked(k)
  BY <1>0, AskedShrinks
<1>2. ASSUME \A i \in 1 .. Len(Outgoing') : \E j \in 1 .. Len(Outgoing) : Outgoing'[i] = Outgoing[j],
             \A t \in Workers : Hand(t)' = Hand(t) \/ Hand(t)' = NULL
      PROVE  SilentInv'
  BY <1>0, <1>1, <1>2 DEF SilentInv, About
<1>3. Outgoing \in Seq(AllMessages)
  BY <1>0, OutgoingType
<1>4. CASE Quiet
  BY <1>2, <1>4 DEF Quiet, HandsSame
<1>5. CASE Drops
  <2>1. /\ Outgoing' = Tail(Outgoing) /\ \A t \in Workers : Hand(t)' = Hand(t)
        /\ Outgoing # << >>
    BY <1>5 DEF Drops, HandsSame
  <2>2. \A i \in 1 .. Len(Outgoing') : i + 1 \in 1 .. Len(Outgoing) /\ Outgoing'[i] = Outgoing[i + 1]
    BY <1>3, <2>1
  <2>3. QED
    BY <1>2, <2>1, <2>2
<1>6. CASE Clears
  <2>1. \A q : q = << >> => 1 .. Len(q) = {}
    OBVIOUS
  <2>2. QED
    BY <1>2, <1>6, <2>1 DEF Clears
<1>7. ASSUME NEW t \in Workers, Puts(t) PROVE SilentInv'
  <2>1. /\ Outgoing' = Append(Outgoing, Hand(t)) /\ Hand(t)' = NULL
        /\ \A u \in Workers \ {t} : Hand(u)' = Hand(u)
    BY <1>7 DEF Puts, HandsSame
  <2>2. \A i \in 1 .. Len(Outgoing') :
          \/ Outgoing'[i] = Hand(t)
          \/ \E j \in 1 .. Len(Outgoing) : Outgoing'[i] = Outgoing[j]
    BY <1>3, <2>1
  <2>3. ASSUME NEW k \in Instances, Asked(k) PROVE Hand(t).type = "opened" => Hand(t).inst < k
    BY <1>0, <2>3, HandsShape, ConfirmedBefore DEF Workers
  <2>4. SUFFICES ASSUME NEW k \in Instances, Asked(k)'
                 PROVE  /\ \A i \in 1 .. Len(Outgoing') :
                             ~About(Outgoing'[i], k) /\ (Outgoing'[i].type = "opened" => Outgoing'[i].inst < k)
                        /\ \A u \in Workers : ~About(Hand(u)', k)
    BY DEF SilentInv, About
  <2>5. Asked(k)
    BY <1>1, <2>4
  <2>6. /\ \A i \in 1 .. Len(Outgoing) :
             ~About(Outgoing[i], k) /\ (Outgoing[i].type = "opened" => Outgoing[i].inst < k)
        /\ \A u \in Workers : ~About(Hand(u), k)
    BY <1>0, <2>5 DEF SilentInv
  <2>7. QED
    BY <1>0, <2>1, <2>2, <2>3, <2>5, <2>6
<1>8. ASSUME NEW t \in Workers, NEW m, Takes(t, m), \A k \in Instances : Asked(k)' => ~About(m, k)
      PROVE  SilentInv'
  <2>1. /\ Outgoing' = Outgoing /\ Hand(t)' = m /\ \A u \in Workers \ {t} : Hand(u)' = Hand(u)
    BY <1>8 DEF Takes, HandsSame
  <2>2. QED
    BY <1>0, <1>1, <1>8, <2>1 DEF SilentInv, About
<1>9. ASSUME NEW k \in Instances, NEW type \in {"data", "eof"}, ThreadSpeaks(k, type) PROVE SilentInv'
  <2>1. pc[k] = "read" /\ Takes(k, Message(type, at[k], "none", k))
    BY <1>9 DEF ThreadSpeaks
  <2>2. ~Asked(k)
    BY <1>0, <2>1 DEF ServicesInv
  <2>3. \A j \in Instances : Asked(j)' => ~About(Message(type, at[k], "none", k), j)
    BY <1>1, <2>2 DEF About, Message
  <2>4. QED
    BY <1>0, <1>8, <2>1, <2>3
<1>10. ASSUME NEW p \in Ports, NEW type \in {"data", "eof", "close"}, Speaks(p, type) PROVE SilentInv'
  <2>1. Takes(main, Message(type, p, "none", services[p].inst))
    BY <1>10 DEF Speaks
  <2>2. \A j \in Instances : Asked(j) => services[p].inst # j
    BY <1>0 DEF ServicesInv
  <2>3. \A j \in Instances : Asked(j)' => ~About(Message(type, p, "none", services[p].inst), j)
    BY <1>1, <2>2 DEF About, Message
  <2>4. QED
    BY <1>0, <1>8, <2>1, <2>3
<1>11. ASSUME NEW m, Answers(m) PROVE SilentInv'
  BY <1>0, <1>8, <1>11 DEF Answers, About
<1>12. ASSUME NEW k \in Instances, NEW p \in Ports, NEW kind \in {"Bulk", "Method", "Signals"},
              NEW thread \in {"none", "start"}, Confirms(k, p, kind, thread)
       PROVE  SilentInv'
  <2>1. Takes(main, held'[main]) /\ held'[main].type = "opened"
    BY <1>12 DEF Confirms, Starts, Message
  <2>2. PICK m : m = held'[main]
    OBVIOUS
  <2>3. Takes(main, m) /\ \A j : ~About(m, j)
    BY <2>1, <2>2 DEF About
  <2>4. QED
    BY <1>0, <1>8, <2>3
<1>13. QED
  BY <1>0, <1>4, <1>5, <1>6, <1>7, <1>9, <1>10, <1>11, <1>12, OutputCases
     DEF Utters, SomePuts, SomeSays, SomeAnswers, SomeConfirms

\* No thread goes back into its loop.
LEMMA LoopLeft ==
  ASSUME GroundInv, [Next]_vars, SameNones, NEW k \in Instances, pc'[k] \in {"start", "read", "write"}
  PROVE  pc[k] \in {"start", "read", "write"}
<1> USE DEF GroundInv
<1>1. CASE Still(k)
  BY <1>1 DEF Still
<1>2. CASE PortStep(k)
  BY <1>2, PortHands DEF Workers
<1>3. CASE (ThreadData(k) \/ BulkReadEnd(k) \/ ThreadStep(k)) /\ ~PortStep(k)
  BY <1>3 DEF ThreadData, BulkReadEnd, SendStatus, ThreadStep, ThreadStart, ThreadWrite, SignalWatchStop, Goto
<1>4. ASSUME NEW t \in Workers \ {k}, PortStep(t) PROVE Still(k)
  BY <1>4, PortHands
<1>5. ASSUME NEW j \in Instances \ {k}, ThreadData(j) \/ BulkReadEnd(j) \/ ThreadStep(j), ~PortStep(j)
      PROVE  Still(k)
  BY <1>5, ThreadFrame
<1>6. CASE LinkDown \/ Receive \/ ReceiverStep \/ SenderStep \/ Finished
  BY <1>1, <1>6, OuterFrame DEF Workers
<1>7. CASE CheckPort \/ HandlerStep \/ MainReply \/ StatusStep \/ MainPoll \/ DeInitStep
  BY <1>1, <1>7, HandlerFrame, SessionFrame
<1>8. CASE SpawnerStep
  <2>1. CASE DenyService
    BY <2>1 DEF DenyService, Goto, TypeInv, TypeOK, PcType
  <2>2. ASSUME NEW j \in Instances, NEW p \in Ports, NEW kind \in {"Bulk", "Method", "Signals"},
               NEW thread \in {"none", "start"}, Starts(j, p, kind, thread)
        PROVE  pc[k] \in {"start", "read", "write"}
    <3>1. pc[j] = "none" /\ pc'[j] = thread /\ \A i \in Instances \ {j} : pc'[i] = pc[i]
      BY <2>2, StartedAsked DEF Starts, Still, ServicesInv
    <3>2. QED
      BY <3>1 DEF SameNones
  <2>3. QED
    BY <1>8, <2>1, <2>2, SpawnerCases
<1>9. CASE Accept
  BY <1>9 DEF Accept, TypeInv, TypeOK, PcType
<1>10. CASE UNCHANGED vars
  BY <1>10 DEF vars
<1>11. QED
  BY <1>1, <1>2, <1>3, <1>4, <1>5, <1>6, <1>7, <1>8, <1>9, <1>10
     DEF Next, MainStep, ThreadStep, Workers

\* Main goes on until the port of a service for D-Bus calls is cleaned up.
LEMMA ClosingGoesOn ==
  ASSUME GroundInv, [Next]_vars, NEW p \in Ports, services[p].kind = "Method", services'[p].inst # 0,
         Closing(p)
  PROVE  Closing(p)'
<1> USE DEF GroundInv
<1>0. /\ at[main] = p /\ pc[main] \in {"status write", "both closed?", "lock", "reset"}
      /\ pc[main] \in {"status write", "both closed?"} => BothClosed(p)
      /\ main \in Workers /\ DOMAIN pc = Threads /\ services \in [Ports -> Services]
  BY DEF Closing, Workers, TypeInv, TypeOK, PcType, TableType, Services
<1>1. ASSUME at'[main] = at[main], Still(main), BothClosed(p) => BothClosed(p)' PROVE Closing(p)'
  BY <1>0, <1>1 DEF Closing, Still
<1>2. ASSUME UNCHANGED services PROVE BothClosed(p) => BothClosed(p)'
  BY <1>2 DEF BothClosed
<1>3. ASSUME NEW t \in Workers, PortStep(t), t # main PROVE Closing(p)'
  <2>1. at'[main] = at[main] /\ Still(main)
    BY <1>3, PortHands
  <2>2. BothClosed(p) => BothClosed(p)'
    <3>1. CASE CleanupReset(t)
      <4>1. services' = [services EXCEPT ![at[t]] = Free]
        BY <3>1 DEF CleanupReset
      <4>2. Free.inst = 0
        BY DEF Free
      <4>3. services'[p] = services[p]
        BY <1>0, <4>1, <4>2
      <4>4. QED
        BY <4>3 DEF BothClosed
    <3>2. CASE ~CleanupReset(t)
      BY <1>2, <1>3, <3>2 DEF PortStep, StatusWrite, CheckBothClosed, CleanupLock, CleanupJoin, CleanupUnlock, table
    <3>3. QED
      BY <3>1, <3>2
  <2>3. QED
    BY <1>1, <2>1, <2>2
<1>4. CASE PortStep(main)
  <2>1. at'[main] = p
    BY <1>0, <1>4, PortHands
  <2>2. CASE StatusWrite(main)
    <3>1. pc'[main] = "both closed?" /\ UNCHANGED services /\ BothClosed(p)
      BY <1>0, <2>2 DEF StatusWrite, Goto, table
    <3>2. QED
      BY <1>2, <2>1, <3>1 DEF Closing
  <2>3. CASE CheckBothClosed(main)
    <3>1. pc'[main] = "lock"
      BY <1>0, <2>3 DEF CheckBothClosed, Goto
    <3>2. QED
      BY <2>1, <3>1 DEF Closing
  <2>4. CASE CleanupLock(main)
    <3>1. pc'[main] = "reset"
      BY <1>0, <2>4 DEF CleanupLock, Goto
    <3>2. QED
      BY <2>1, <3>1 DEF Closing
  <2>5. CASE CleanupReset(main)
    <3>1. services'[p] = Free /\ Free.inst = 0
      BY <1>0, <2>5 DEF CleanupReset, Free
    <3>2. QED
      BY <3>1
  <2>6. CASE CleanupJoin(main) \/ CleanupUnlock(main)
    BY <1>0, <2>6 DEF CleanupJoin, CleanupUnlock, Goto
  <2>7. QED
    BY <1>4, <2>2, <2>3, <2>4, <2>5, <2>6 DEF PortStep
<1>5. ASSUME NEW k \in Instances, ThreadData(k) \/ BulkReadEnd(k) \/ ThreadStep(k), ~PortStep(k)
      PROVE  Closing(p)'
  <2>1. at'[main] = at[main] /\ Still(main)
    BY <1>5, ThreadFrame
  <2>2. BothClosed(p) => BothClosed(p)'
    <3>1. CASE BulkReadEnd(k)
      <4>1. services' = [services EXCEPT ![at[k]] = [@ EXCEPT !.outputOpen = FALSE]]
        BY <3>1 DEF BulkReadEnd, SendStatus
      <4>2. BothClosed(p) => ~services'[p].inputOpen /\ ~services'[p].outputOpen
        <5>1. services[p] \in Services /\ services \in [Ports -> Services] /\ p \in Ports
          BY <1>0
        <5>2. services'[p] \in {services[p], [services[p] EXCEPT !.outputOpen = FALSE]}
          BY <4>1, <5>1
        <5>3. QED
          BY <5>1, <5>2 DEF BothClosed, Services
      <4>3. QED
        BY <4>2 DEF BothClosed
    <3>2. CASE ~BulkReadEnd(k)
      BY <1>2, <1>5, <3>2 DEF ThreadStep, ThreadStart, ThreadData, ThreadWrite, SignalWatchStop, table
    <3>3. QED
      BY <3>1, <3>2
  <2>3. QED
    BY <1>1, <2>1, <2>2
<1>6. CASE LinkDown \/ Receive \/ ReceiverStep \/ SenderStep \/ Finished
  BY <1>0, <1>1, <1>2, <1>6, OuterFrame
<1>7. CASE CheckPort \/ HandlerStep \/ MainReply \/ StatusStep \/ MainPoll \/ DeInitStep
  BY <1>0, <1>7, HandlerFrame, SessionFrame
<1>8. CASE SpawnerStep \/ Accept
  BY <1>0, <1>8, SpawnerFrame DEF Accept
<1>9. CASE UNCHANGED vars
  BY <1>1, <1>2, <1>9 DEF vars, Still
<1>10. QED
  BY <1>3, <1>4, <1>5, <1>6, <1>7, <1>8, <1>9 DEF Next, MainStep, ThreadStep, Workers

\* A service that has said its EOF says no more: its thread has left its loop for
\* good, and main cleans up the port of one without thread before it handles
\* another message.
LEMMA DoneInductive ==
  ASSUME GroundInv, OutputInv, [Next]_vars
  PROVE  DoneInv'
<1>0. /\ TypeInv /\ OwnedInv /\ ShapeInv /\ RequestsInv /\ ServicesInv /\ DoneInv
      /\ main \in Workers /\ NULL.type = "NULL"
      /\ \A k \in Instances : k # 0
  BY DEF GroundInv, OutputInv, Workers, NULL, Message, Instances
<1> DEFINE Done(k) == IF pc[k] = "none" THEN \A p \in Ports : services[p].inst = k => Closing(p)
                      ELSE pc[k] \notin {"start", "read", "write"}
\* A service that was done before the step is done after it.
<1>1. ASSUME NEW k \in Instances, SaidEof(k) PROVE Done(k)'
  <2>1. Done(k) /\ ~Asked(k)
    <3>1. Asked(k) => ~SaidEof(k)
      BY DEF OutputInv, SilentInv, SaidEof, About
    <3>2. QED
      BY <1>0, <1>1, <3>1 DEF DoneInv
  <2>2. CASE SlotsKept /\ SameNones
    <3>1. CASE pc[k] = "none"
      <4>1. pc'[k] = "none"
        BY <2>2, <3>1 DEF SameNones
      <4>2. ASSUME NEW p \in Ports, services'[p].inst = k PROVE Closing(p)'
        <5>1. services[p].inst = k /\ services'[p].inst # 0
          BY <1>0, <2>2, <4>2 DEF SlotsKept
        <5>2. Closing(p)
          BY <2>1, <3>1, <5>1
        <5>3. services[p].kind = "Method"
          BY <1>0, <3>1, <5>1 DEF ServicesInv
        <5>4. QED
          BY <5>1, <5>2, <5>3, ClosingGoesOn
      <4>3. QED
        BY <4>1, <4>2
    <3>2. CASE pc[k] # "none"
      <4>1. pc'[k] # "none" /\ pc'[k] \notin {"start", "read", "write"}
        BY <2>1, <2>2, <3>2, LoopLeft DEF SameNones
      <4>2. QED
        BY <4>1
    <3>3. QED
      BY <3>1, <3>2
  <2>3. ASSUME NEW j \in Instances, NEW q \in Ports, NEW kind \in {"Bulk", "Method", "Signals"},
               NEW thread \in {"none", "start"}, Starts(j, q, kind, thread)
        PROVE  Done(k)'
    <3>1. /\ pc[main] = "dispatch" /\ pc'[k] = pc[k] /\ services'[q].inst # k
          /\ \A p \in Ports \ {q} : services'[p] = services[p]
      <4>1. j # k
        BY <1>0, <2>1, <2>3, StartedAsked
      <4>2. QED
        BY <2>3, <4>1 DEF Starts, Still
    <3>2. pc[k] = "none" => \A p \in Ports : services[p].inst # k
      BY <2>1, <3>1 DEF Closing
    <3>3. pc'[k] = "none" => \A p \in Ports : services'[p].inst # k
      BY <3>1, <3>2
    <3>4. QED
      BY <2>1, <3>1, <3>3
  <2>4. QED
    BY <1>0, <2>2, <2>3, ServicesFrame
<1>2. ASSUME \A k \in Instances : SaidEof(k)' => SaidEof(k),
             SameNones => Hand(main)' \in {Hand(main), NULL} \/ Hand(main)'.type \notin {"data", "eof"}
      PROVE  DoneInv'
  <2>1. \A k \in Instances : SaidEof(k)' => Done(k)'
    BY <1>1, <1>2
  <2>2. CASE SameNones
    <3>1. ASSUME Hand(main)'.type \in {"data", "eof"}
          PROVE  Hand(main)'.inst \in Instances /\ pc'[Hand(main)'.inst] = "none"
      <4>1. Hand(main)' = Hand(main)
        BY <1>0, <1>2, <2>2, <3>1
      <4>2. Hand(main).inst \in Instances /\ pc[Hand(main).inst] = "none"
        BY <1>0, <3>1, <4>1 DEF DoneInv
      <4>3. QED
        BY <2>2, <4>1, <4>2 DEF SameNones
    <3>2. QED
      BY <2>1, <3>1 DEF DoneInv
  <2>3. ASSUME NEW j \in Instances, NEW q \in Ports, NEW kind \in {"Bulk", "Method", "Signals"},
               NEW thread \in {"none", "start"}, Starts(j, q, kind, thread)
        PROVE  DoneInv'
    <3>1. Hand(main)'.type = "opened"
      BY <2>3 DEF Starts, Hand, Message
    <3>2. QED
      BY <2>1, <3>1 DEF DoneInv
  <2>4. QED
    BY <1>0, <2>2, <2>3, ServicesFrame
<1>3. ASSUME \A i \in 1 .. Len(Outgoing') : \E j \in 1 .. Len(Outgoing) : Outgoing'[i] = Outgoing[j],
             \A t \in Workers : Hand(t)' = Hand(t) \/ Hand(t)' = NULL
      PROVE  DoneInv'
  <2>1. \A k \in Instances : SaidEof(k)' => SaidEof(k)
    BY <1>0, <1>3 DEF SaidEof
  <2>2. QED
    BY <1>0, <1>2, <1>3, <2>1
<1>4. Outgoing \in Seq(AllMessages)
  BY <1>0, OutgoingType
<1>5. CASE Quiet
  BY <1>3, <1>5 DEF Quiet, HandsSame
<1>6. CASE Drops
  <2>1. /\ Outgoing' = Tail(Outgoing) /\ \A t \in Workers : Hand(t)' = Hand(t)
        /\ Outgoing # << >>
    BY <1>6 DEF Drops, HandsSame
  <2>2. \A i \in 1 .. Len(Outgoing') : i + 1 \in 1 .. Len(Outgoing) /\ Outgoing'[i] = Outgoing[i + 1]
    BY <1>4, <2>1
  <2>3. QED
    BY <1>3, <2>1, <2>2
<1>7. CASE Clears
  <2>1. \A q : q = << >> => 1 .. Len(q) = {}
    OBVIOUS
  <2>2. QED
    BY <1>3, <1>7, <2>1 DEF Clears
<1>8. ASSUME NEW t \in Workers, Puts(t) PROVE DoneInv'
  <2>1. /\ Outgoing' = Append(Outgoing, Hand(t)) /\ Hand(t)' = NULL
        /\ \A u \in Workers \ {t} : Hand(u)' = Hand(u)
    BY <1>8 DEF Puts, HandsSame
  <2>2. \A i \in 1 .. Len(Outgoing') :
          \/ Outgoing'[i] = Hand(t)
          \/ \E j \in 1 .. Len(Outgoing) : Outgoing'[i] = Outgoing[j]
    BY <1>4, <2>1
  <2>3. \A k \in Instances : SaidEof(k)' => SaidEof(k)
    BY <1>0, <2>1, <2>2 DEF SaidEof
  <2>4. QED
    BY <1>0, <1>2, <2>1, <2>3
\* A new message in somebody's hands.
<1>9. ASSUME NEW t \in Workers, NEW m, Takes(t, m), NEW k \in Instances, SaidEof(k)', ~SaidEof(k)
      PROVE  m.type = "eof" /\ m.inst = k
  <2>1. Outgoing' = Outgoing /\ Hand(t)' = m /\ \A u \in Workers \ {t} : Hand(u)' = Hand(u)
    BY <1>9 DEF Takes, HandsSame
  <2>2. QED
    BY <1>9, <2>1 DEF SaidEof
<1>10. ASSUME NEW k \in Instances, NEW type \in {"data", "eof"}, ThreadSpeaks(k, type) PROVE DoneInv'
  <2> DEFINE m == Message(type, at[k], "none", k)
  <2>1. /\ Takes(k, m) /\ k \in Workers /\ pc[k] = "read" /\ m.type = type /\ m.inst = k
        /\ type = "eof" => pc'[k] = "status write"
    BY <1>10 DEF ThreadSpeaks, Workers, Message
  <2> HIDE DEF m
  <2>2. ASSUME NEW j \in Instances, SaidEof(j)' PROVE Done(j)'
    <3>1. CASE SaidEof(j)
      BY <1>1, <3>1
    <3>2. CASE ~SaidEof(j)
      <4>1. PICK n : n = m
        OBVIOUS
      <4>2. n.type = "eof" /\ n.inst = j
        BY <1>9, <2>1, <2>2, <3>2, <4>1
      <4>3. pc'[j] = "status write"
        BY <2>1, <4>1, <4>2
      <4>4. QED
        BY <4>3
    <3>3. QED
      BY <3>1, <3>2
  <2>3. Hand(main)' = Hand(main)
    BY <1>0, <2>1 DEF Takes, HandsSame
  <2>4. SameNones
    <3>1. ASSUME NEW j \in Instances, NEW q \in Ports, NEW kind \in {"Bulk", "Method", "Signals"},
                 NEW thread \in {"none", "start"}, Starts(j, q, kind, thread)
          PROVE  FALSE
      <4>1. Hand(main)'.type = "opened"
        BY <3>1 DEF Starts, Hand, Message
      <4>2. Hand(main) = NULL
        BY <3>1 DEF Starts, Hand
      <4>3. QED
        BY <1>0, <2>3, <4>1, <4>2
    <3>2. QED
      BY <1>0, <3>1, ServicesFrame
  <2>5. ASSUME Hand(main).type \in {"data", "eof"}
        PROVE  Hand(main).inst \in Instances /\ pc'[Hand(main).inst] = "none"
    <3>1. Hand(main).inst \in Instances /\ pc[Hand(main).inst] = "none"
      BY <1>0, <2>5 DEF DoneInv
    <3>2. QED
      BY <2>4, <3>1 DEF SameNones
  <2>6. QED
    BY <2>2, <2>3, <2>5 DEF DoneInv
<1>11. ASSUME NEW p \in Ports, NEW type \in {"data", "eof", "close"}, Speaks(p, type) PROVE DoneInv'
  <2>1. PICK m : m = Message(type, p, "none", services[p].inst)
    OBVIOUS
  <2>2. /\ Takes(main, m) /\ m.type = type /\ m.inst = services[p].inst /\ Hand(main)' = m
        /\ type = "eof" => at'[main] = p /\ pc'[main] = "status write" /\ BothClosed(p)'
        /\ pc[main] \in {"call", "apply"}
    BY <1>11, <2>1 DEF Speaks, Message, Takes
  <2>3. type # "close" => services[p].kind = "Method" /\ services[p].inst \in Instances /\ pc[services[p].inst] = "none"
    BY <1>0, <1>11 DEF Speaks, ServicesInv
  <2>4. SlotsKept /\ SameNones
    BY <1>0, <2>2, ServicesFrame DEF Starts
  <2>5. ASSUME NEW j \in Instances, SaidEof(j)' PROVE Done(j)'
    <3>1. CASE SaidEof(j)
      BY <1>1, <3>1
    <3>2. CASE ~SaidEof(j)
      <4>1. type = "eof" /\ services[p].inst = j
        <5>1. Takes(main, m) /\ m.type = type /\ m.inst = services[p].inst
          BY <2>2
        <5>2. m.type = "eof" /\ m.inst = j
          BY <1>0, <1>9, <2>5, <3>2, <5>1
        <5>3. QED
          BY <5>1, <5>2
      <4>2. pc'[j] = "none"
        BY <2>3, <2>4, <4>1 DEF SameNones
      <4>3. ASSUME NEW q \in Ports, services'[q].inst = j PROVE Closing(q)'
        <5>1. services[q].inst = j
          BY <1>0, <2>4, <4>3 DEF SlotsKept
        <5>2. q = p
          BY <1>0, <4>1, <5>1 DEF ServicesInv
        <5>3. Closing(p)'
          BY <2>2, <4>1 DEF Closing
        <5>4. QED
          BY <5>2, <5>3
      <4>4. QED
        BY <4>2, <4>3
    <3>3. QED
      BY <3>1, <3>2
  <2>6. ASSUME m.type \in {"data", "eof"} PROVE m.inst \in Instances /\ pc'[m.inst] = "none"
    BY <2>2, <2>3, <2>4, <2>6 DEF SameNones
  <2>7. QED
    BY <2>2, <2>5, <2>6 DEF DoneInv
<1>12. ASSUME NEW m, Takes(main, m), m.type \notin {"data", "eof"} PROVE DoneInv'
  <2>1. \A k \in Instances : SaidEof(k)' => SaidEof(k)
    BY <1>0, <1>9, <1>12
  <2>2. Hand(main)' = m
    BY <1>12 DEF Takes
  <2>3. QED
    BY <1>2, <1>12, <2>1, <2>2
<1>13. ASSUME NEW k \in Instances, NEW p \in Ports, NEW kind \in {"Bulk", "Method", "Signals"},
              NEW thread \in {"none", "start"}, Confirms(k, p, kind, thread)
       PROVE  DoneInv'
  <2>1. PICK m : m = held'[main]
    OBVIOUS
  <2>2. Takes(main, m) /\ m.type = "opened"
    BY <1>13, <2>1 DEF Confirms, Starts, Message
  <2>3. QED
    BY <1>12, <2>2
<1> HIDE DEF Done
<1>14. QED
  BY <1>0, <1>5, <1>6, <1>7, <1>8, <1>10, <1>11, <1>12, <1>13, OutputCases
     DEF Utters, SomePuts, SomeSays, SomeAnswers, SomeConfirms, Answers

-----------------------------------------------------------------------------
(* The answers to the requests.                                            *)

\* The requests that are answered, with the answer on its way, in main's hands,
\* in the queue and in the receiver's hands.
Answered(k) == \E i \in 1 .. Len(Outgoing) : IsRequest(Outgoing[i]) /\ Outgoing[i].inst = k
MainHas(k) == IsRequest(held[main]) /\ held[main].inst = k
QueueHas(k) ==
  \E i \in 1 .. Len(receiveQueue) : receiveQueue[i].type = "open" /\ receiveQueue[i].inst = k
ReceiverHas(k) == held[receiver].type = "open" /\ held[receiver].inst = k
Waiting(k) == MainHas(k) \/ QueueHas(k) \/ ReceiverHas(k)

\* The receiver reads with empty hands, and has at most the last request in them.
ReadsInv ==
  /\ pc[receiver] # "add" => held[receiver].type # "open"
  /\ held[receiver].type = "open" => held[receiver].inst = opens

\* The answers are in the order of the requests, before those that wait for one,
AnswerOrder ==
  \A i \in 1 .. Len(Outgoing) : \A j \in 1 .. i - 1 :
    IsRequest(Outgoing[i]) /\ IsRequest(Outgoing[j]) => Outgoing[j].inst < Outgoing[i].inst
AnsweredFirst ==
  \A k : Answered(k) => k <= opens /\ \A l : Waiting(l) => k < l

\* and from the first one on no request is missing.
NoneMissing ==
  \A k, l \in Nat :
    (Answered(k) \/ Waiting(k)) /\ k <= l /\ l <= opens => Answered(l) \/ Waiting(l)

AnswersInv == ReadsInv /\ AnswerOrder /\ AnsweredFirst /\ NoneMissing
-----------------------------------------------------------------------------
\* Only the spawner takes a request from main, and only its answer an answer.
LEMMA MainWaits ==
  ASSUME TypeInv, ShapeInv, Next, IsRequest(held[main]), ~SpawnerStep, ~MainReply
  PROVE  held'[main] = held[main] /\ pc'[main] = pc[main]
<1>1. /\ pc[main] \in {"dispatch", "reply"}
      /\ pc[main] = "dispatch" => held[main].type = "open"
      /\ held \in [Threads -> AllMessages] /\ DOMAIN pc = Threads
  <2>1. held[main].type = "open" => pc[main] = "dispatch"
    BY DEF ShapeInv, MainShape
  <2>2. held[main].type \in {"opened", "denied"} => pc[main] = "reply"
    BY DEF ShapeInv, MainShape
  <2>3. QED
    BY <2>1, <2>2 DEF IsRequest, TypeInv, TypeOK, ThreadType, PcType
<1>2. CASE LinkDown \/ Receive \/ ReceiverStep \/ SenderStep \/ Finished
  BY <1>2, OuterFrame DEF Still, Workers
<1>3. ASSUME NEW t \in Workers, PortStep(t) PROVE held'[main] = held[main] /\ pc'[main] = pc[main]
  BY <1>1, <1>3, PortHands DEF Still
<1>4. ASSUME NEW k \in Instances, ThreadData(k) \/ BulkReadEnd(k) \/ ThreadStep(k), ~PortStep(k)
      PROVE  held'[main] = held[main] /\ pc'[main] = pc[main]
  <2>1. held'[main] = held[main] /\ \A t \in Threads \ {k} : Still(t)
    BY <1>4, ThreadFrame
  <2>2. main \in Threads \ {k}
    BY <1>4
  <2>3. QED
    BY <2>1, <2>2 DEF Still
<1>5. ~MainPoll /\ ~StatusStep /\ ~DeInitStep /\ ~Accept
  BY <1>1 DEF MainPoll, StatusStep, OnClose, OnEof, MethodOnEof, CheckAfterStatus, DeInitStep,
              DeInitPort, DeInitStopSender, DeInitJoin, DeInitFree, Accept, Goto
<1>6. ~CheckPort /\ ~HandlerStep
  BY <1>1 DEF CheckPort, HandlerStep, Keepalive, MethodOnBytesReceived, BulkOnBytesReceived, SendStatus,
              SignalsOnBytesReceived, CallNull, Call, Goto
<1>7. QED
  BY <1>2, <1>3, <1>4, <1>5, <1>6 DEF Next, MainStep, ThreadStep, Workers

\* The two ends of a connection, when its queues are emptied.
Empties == DeInitFree \/ Accept

\* The other steps leave what has been received where it is.
LEMMA OthersWait ==
  ASSUME TypeInv, ShapeInv, ReadsInv, Next, ~Receive, ~ReceiverAdd, ~MainPoll, ~Empties
  PROVE  receiveQueue' = receiveQueue /\ (held[receiver].type = "open" => held'[receiver] = held[receiver])
<1>0. held \in [Threads -> AllMessages]
  BY DEF TypeInv, TypeOK, ThreadType
<1>1. CASE LinkDown \/ ReceiverError \/ ReceiverStop \/ SenderStep \/ Finished
  BY <1>0, <1>1 DEF LinkDown, ReceiverError, ReceiverStop, SenderStep, SenderTest, SenderPoll, SenderWrite,
                    Finished, vars, queues, ReadsInv, Goto
<1>2. ASSUME NEW t \in Workers, PortStep(t)
      PROVE  receiveQueue' = receiveQueue /\ held'[receiver] = held[receiver]
  <2>1. held'[receiver] = held[receiver]
    <3>1. receiver \in Threads \ {t}
      BY DEF Workers
    <3>2. QED
      BY <1>2, <3>1, PortHands
  <2>2. receiveQueue' = receiveQueue
    BY <1>2 DEF PortStep, StatusWrite, CheckBothClosed, CleanupLock, CleanupJoin, CleanupReset, CleanupUnlock, queues
  <2>3. QED
    BY <2>1, <2>2
<1>3. ASSUME NEW k \in Instances, ThreadData(k) \/ BulkReadEnd(k) \/ ThreadStep(k), ~PortStep(k)
      PROVE  receiveQueue' = receiveQueue /\ held'[receiver] = held[receiver]
  BY <1>0, <1>3 DEF ThreadStep, ThreadStart, ThreadData, ThreadWrite, SignalWatchStop, BulkReadEnd, SendStatus,
                    Enqueue, queues
<1>4. CASE CheckPort \/ HandlerStep \/ MainReply \/ StatusStep
  BY <1>0, <1>4 DEF CheckPort, HandlerStep, Keepalive, MethodOnBytesReceived, BulkOnBytesReceived, SendStatus,
       SignalsOnBytesReceived, CallNull, StatusStep, OnClose, OnEof, MethodOnEof, CheckAfterStatus,
       MainReply, Enqueue, queues
<1>5. CASE SpawnerStep
  BY <1>0, <1>5 DEF SpawnerStep, BulkInit, MethodInit, SignalsInit, OpenService, DenyService, queues
<1>6. CASE DeInitPort \/ DeInitStopSender \/ DeInitJoin
  BY <1>0, <1>6 DEF DeInitPort, DeInitStopSender, DeInitJoin, Enqueue, queues
<1>7. QED
  BY <1>1, <1>2, <1>3, <1>4, <1>5, <1>6 DEF Next, MainStep, ReceiverStep, ThreadStep, Workers, DeInitStep, Empties

\* What a step does to the requests that wait: nothing; one comes; the first is
\* answered; all is over.
Stays == opens' = opens /\ \A k : Waiting(k)' <=> Waiting(k)
Comes == opens' = opens + 1 /\ \A k : Waiting(k)' <=> (Waiting(k) \/ k = opens + 1)
Leaves == opens' = opens /\ IsRequest(held[main])
            /\ \A k : Waiting(k)' <=> (Waiting(k) /\ k # held[main].inst)
Ends == opens' = opens /\ Outgoing' = << >> /\ \A k : ~Waiting(k)'

\* The receiver gets a message from Android,
LEMMA ReceiveWaits ==
  ASSUME TypeInv, ReadsInv, Receive
  PROVE  Stays \/ Comes
<1>1. /\ receiveQueue' = receiveQueue /\ held'[main] = held[main]
      /\ \/ held'[receiver].type # "open" /\ opens' = opens
         \/ held'[receiver].type = "open" /\ held'[receiver].inst = opens + 1 /\ opens' = opens + 1
  BY ReceiveFrame
<1>2. held[receiver].type # "open"
  BY DEF Receive, Goto, ReadsInv
<1>3. \A k : (MainHas(k)' <=> MainHas(k)) /\ (QueueHas(k)' <=> QueueHas(k)) /\ ~ReceiverHas(k)
  BY <1>1, <1>2 DEF MainHas, QueueHas, ReceiverHas
<1>4. CASE held'[receiver].type # "open" /\ opens' = opens
  <2>1. \A k : ~ReceiverHas(k)'
    BY <1>4 DEF ReceiverHas
  <2>2. QED
    BY <1>3, <1>4, <2>1 DEF Stays, Waiting
<1>5. CASE held'[receiver].type = "open" /\ held'[receiver].inst = opens + 1 /\ opens' = opens + 1
  <2>1. \A k : ReceiverHas(k)' <=> k = opens + 1
    BY <1>5 DEF ReceiverHas
  <2>2. QED
    BY <1>3, <1>5, <2>1 DEF Comes, Waiting
<1>6. QED
  BY <1>1, <1>4, <1>5

\* hands it on,
LEMMA AddWaits ==
  ASSUME TypeInv, ReceiverAdd
  PROVE  Stays
<1> DEFINE n == Len(receiveQueue)
           last == held[receiver]
<1>1. /\ opens' = opens /\ held'[main] = held[main] /\ held'[receiver].type # "open"
      /\ n \in Nat /\ Len(receiveQueue') = n + 1 /\ receiveQueue'[n + 1] = last
      /\ \A i \in 1 .. n : receiveQueue'[i] = receiveQueue[i]
  BY AddFrame
<1>2. n + 1 \in 1 .. n + 1 /\ \A i \in 1 .. n + 1 : i \in 1 .. n \/ i = n + 1
  BY <1>1
<1>3. \A i \in 1 .. n : i \in 1 .. n + 1
  BY <1>1
<1>4. ASSUME NEW k PROVE QueueHas(k)' <=> QueueHas(k) \/ ReceiverHas(k)
  <2>1. QueueHas(k)' => QueueHas(k) \/ ReceiverHas(k)
    BY <1>1, <1>2 DEF QueueHas, ReceiverHas
  <2>2. QueueHas(k) => QueueHas(k)'
    BY <1>1, <1>3 DEF QueueHas
  <2>3. ReceiverHas(k) => QueueHas(k)'
    BY <1>1, <1>2 DEF QueueHas, ReceiverHas
  <2>4. QED
    BY <2>1, <2>2, <2>3
<1>5. \A k : (MainHas(k)' <=> MainHas(k)) /\ ~ReceiverHas(k)'
  BY <1>1 DEF MainHas, ReceiverHas
<1>6. QED
  BY <1>1, <1>4, <1>5 DEF Stays, Waiting

\* main takes it,
LEMMA PollWaits ==
  ASSUME TypeInv, ShapeInv, MainPoll
  PROVE  Stays
<1> DEFINE n == Len(receiveQueue)
<1>1. /\ opens' = opens /\ held'[receiver] = held[receiver]
      /\ held'[main] = receiveQueue[1] /\ held'[main].type \notin {"opened", "denied"}
      /\ n \in Nat /\ n >= 1 /\ Len(receiveQueue') = n - 1
      /\ \A i \in 1 .. Len(receiveQueue') :
           i + 1 \in 2 .. n /\ receiveQueue'[i] = receiveQueue[i + 1]
  BY PollFrame
<1>2. ~IsRequest(held[main])
  <2>1. pc[main] = "poll"
    BY DEF MainPoll, Goto
  <2>2. QED
    BY <2>1 DEF IsRequest, ShapeInv, MainShape
<1>3. 1 \in 1 .. n /\ \A i \in 2 .. n : i \in 1 .. n
  BY <1>1
<1>4. \A i \in 1 .. n : i = 1 \/ (i - 1 \in 1 .. n - 1 /\ (i - 1) + 1 = i)
  BY <1>1
<1>5. ASSUME NEW k PROVE QueueHas(k) <=> QueueHas(k)' \/ MainHas(k)'
  <2>1. QueueHas(k)' => QueueHas(k)
    <3>1. ASSUME NEW i \in 1 .. Len(receiveQueue'), receiveQueue'[i].type = "open", receiveQueue'[i].inst = k
          PROVE  QueueHas(k)
      <4>1. i + 1 \in 1 .. n /\ receiveQueue'[i] = receiveQueue[i + 1]
        BY <1>1, <1>3
      <4>2. QED
        BY <3>1, <4>1 DEF QueueHas
    <3>2. QED
      BY <3>1 DEF QueueHas
  <2>2. MainHas(k)' => QueueHas(k)
    BY <1>1, <1>3 DEF QueueHas, MainHas, IsRequest
  <2>3. ASSUME NEW i \in 1 .. n, receiveQueue[i].type = "open", receiveQueue[i].inst = k
        PROVE  QueueHas(k)' \/ MainHas(k)'
    <3>1. CASE i = 1
      BY <1>1, <2>3, <3>1 DEF MainHas, IsRequest
    <3>2. CASE i - 1 \in 1 .. n - 1 /\ (i - 1) + 1 = i
      <4>1. PICK j \in 1 .. n - 1 : j + 1 = i
        BY <3>2
      <4>2. receiveQueue'[j] = receiveQueue[i] /\ j \in 1 .. Len(receiveQueue')
        BY <1>1, <4>1
      <4>3. QED
        BY <2>3, <4>2 DEF QueueHas
    <3>3. QED
      BY <1>4, <3>1, <3>2
  <2>4. QED
    BY <2>1, <2>2, <2>3 DEF QueueHas
<1>6. \A k : (ReceiverHas(k)' <=> ReceiverHas(k)) /\ ~MainHas(k)
  BY <1>1, <1>2 DEF MainHas, ReceiverHas
<1>7. QED
  BY <1>1, <1>5, <1>6 DEF Stays, Waiting

\* the spawner handles it,
LEMMA SpawnerWaits ==
  ASSUME TypeInv, ShapeInv, ReadsInv, Next, SpawnerStep
  PROVE  Stays
<1>1. /\ held[main].type = "open" /\ held'[main].type \in {"opened", "denied"}
      /\ held'[main].inst = held[main].inst /\ opens' = opens
      /\ \A u \in Threads \ {main} : held'[u] = held[u]
      /\ receiveQueue' = receiveQueue
  <2>1. held \in [Threads -> AllMessages]
    BY DEF TypeInv, TypeOK, ThreadType
  <2>2. CASE DenyService
    <3>1. /\ held[main].type = "open" /\ UNCHANGED <<queues, peer>>
          /\ held' = [held EXCEPT ![main] = Message("denied", 0, "none", held[main].inst)]
      BY <2>2 DEF DenyService
    <3>2. QED
      BY <2>1, <3>1 DEF Message, queues, peer
  <2>3. ASSUME NEW k, NEW p, NEW kind, NEW thread, Starts(k, p, kind, thread)
        PROVE  /\ held[main].type = "open" /\ held'[main].type = "opened"
               /\ held'[main].inst = held[main].inst /\ opens' = opens
               /\ \A u \in Threads \ {main} : held'[u] = held[u]
               /\ receiveQueue' = receiveQueue
    BY <2>3 DEF Starts, Message, queues, peer
  <2>4. QED
    BY <2>2, <2>3, SpawnerCases
<1>2. \A k : /\ MainHas(k)' <=> MainHas(k)
             /\ QueueHas(k)' <=> QueueHas(k)
             /\ ReceiverHas(k)' <=> ReceiverHas(k)
  BY <1>1 DEF MainHas, IsRequest, QueueHas, ReceiverHas
<1>3. QED
  BY <1>1, <1>2 DEF Stays, Waiting

\* and main queues the answer.
LEMMA ReplyWaits ==
  ASSUME TypeInv, RequestsInv, MainReply
  PROVE  IF IsRequest(held[main]) THEN Leaves ELSE Stays
<1>1. /\ held'[main] = NULL /\ held'[receiver] = held[receiver] /\ receiveQueue' = receiveQueue
      /\ opens' = opens
  BY DEF MainReply, Enqueue, peer, TypeInv, TypeOK, ThreadType
<1>2. ~IsRequest(NULL)
  BY DEF IsRequest, NULL, Message
<1>3. \A k : /\ ~MainHas(k)' /\ (QueueHas(k)' <=> QueueHas(k))
             /\ ReceiverHas(k)' <=> ReceiverHas(k)
  BY <1>1, <1>2 DEF MainHas, QueueHas, ReceiverHas
<1>4. CASE IsRequest(held[main])
  <2>1. held[main].type \in {"open", "opened", "denied"} /\ held[main].inst \in Nat
    <3>1. \A m \in AllMessages : m.inst \in Nat
      BY DEF AllMessages
    <3>2. QED
      BY <1>4, <3>1 DEF IsRequest, TypeInv, TypeOK, ThreadType
  <2>2. \A k : QueueHas(k) => k # held[main].inst
    BY <2>1 DEF QueueHas, RequestsInv
  <2>3. \A k : ReceiverHas(k) => k # held[main].inst
    BY <2>1 DEF ReceiverHas, RequestsInv
  <2>4. \A k : MainHas(k) <=> k = held[main].inst
    BY <1>4 DEF MainHas
  <2>5. QED
    BY <1>1, <1>3, <1>4, <2>2, <2>3, <2>4 DEF Leaves, Waiting
<1>5. CASE ~IsRequest(held[main])
  BY <1>1, <1>3, <1>5 DEF Stays, Waiting, MainHas
<1>6. QED
  BY <1>4, <1>5

\* Between two connections nothing waits.
LEMMA EmptiesWaits ==
  ASSUME TypeInv, LoopInv, ShapeInv, ReadsInv, Empties
  PROVE  Ends
<1>1. held \in [Threads -> AllMessages] /\ DOMAIN pc = Threads
  BY DEF TypeInv, TypeOK, ThreadType, PcType
<1>2. /\ pc[main] \in {"free", "accept"} /\ opens' = opens /\ held' = held
      /\ sendQueue' = << >> /\ receiveQueue' = << >>
  BY DEF Empties, DeInitFree, Accept, Goto, peer
<1>3. held[main] = NULL
  BY <1>2 DEF ShapeInv, MainShape, Ending
<1>4. /\ pc[receiver] # "add" /\ pc'[sender] # "write"
  <2>1. CASE DeInitFree
    BY <1>1, <2>1 DEF DeInitFree, LoopInv, Goto
  <2>2. CASE Accept
    BY <1>1, <2>2 DEF Accept, LoopInv
  <2>3. QED
    BY <2>1, <2>2 DEF Empties
<1>5. Outgoing' = << >>
  BY <1>2, <1>4 DEF Outgoing
<1>6. ~IsRequest(NULL)
  BY DEF IsRequest, NULL, Message
<1>7. \A q : q = << >> => 1 .. Len(q) = {}
  OBVIOUS
<1>8. \A k : ~MainHas(k)' /\ ~QueueHas(k)' /\ ~ReceiverHas(k)'
  BY <1>2, <1>3, <1>4, <1>6, <1>7 DEF MainHas, QueueHas, ReceiverHas, ReadsInv
<1>9. QED
  BY <1>2, <1>5, <1>8 DEF Ends, Waiting

\* The steps between which only main's reply puts a request, or its answer, on its way.
LEMMA WaitingCases ==
  ASSUME GroundInv, ReadsInv, [Next]_vars
  PROVE  \/ Ends
         \/ ~(MainReply /\ IsRequest(held[main])) /\ (Stays \/ Comes)
         \/ MainReply /\ Leaves
<1>0. TypeInv /\ LoopInv /\ ShapeInv /\ RequestsInv
  BY DEF GroundInv
<1>1. CASE MainReply
  BY <1>0, <1>1, ReplyWaits
<1>2. CASE Next /\ (Receive \/ ReceiverAdd \/ MainPoll \/ SpawnerStep) /\ ~MainReply
  BY <1>0, <1>2, ReceiveWaits, AddWaits, PollWaits, SpawnerWaits
<1>3. CASE Empties
  BY <1>0, <1>3, EmptiesWaits
<1>4. CASE Next /\ ~Receive /\ ~ReceiverAdd /\ ~MainPoll /\ ~SpawnerStep /\ ~MainReply /\ ~Empties
  <2>1. /\ receiveQueue' = receiveQueue
        /\ held[receiver].type = "open" => held'[receiver] = held[receiver]
        /\ IsRequest(held[main]) => held'[main] = held[main]
    BY <1>0, <1>4, OthersWait, MainWaits
  <2>2. /\ opens' = opens /\ held'[receiver] \in {held[receiver], NULL}
        /\ \/ held'[main] = held[main]
           \/ held'[main].type \notin {"open", "opened", "denied"}
           \/ IsRequest(held[main])
    BY <1>0, <1>4, RequestFrame DEF IsRequest
  <2>3. NULL.type = "NULL"
    BY DEF NULL, Message
  <2>4. held'[main] = held[main] \/ (~IsRequest(held[main]) /\ ~IsRequest(held'[main]))
    BY <2>1, <2>2 DEF IsRequest
  <2>5. \A k : /\ MainHas(k)' <=> MainHas(k)
               /\ QueueHas(k)' <=> QueueHas(k)
               /\ ReceiverHas(k)' <=> ReceiverHas(k)
    BY <2>1, <2>2, <2>3, <2>4 DEF MainHas, QueueHas, ReceiverHas
  <2>6. QED
    BY <1>4, <2>2, <2>5 DEF Stays, Waiting
<1>5. CASE UNCHANGED vars
  <2>1. ~MainReply \/ ~IsRequest(held[main]) \/ MainReply
    OBVIOUS
  <2>2. /\ opens' = opens /\ receiveQueue' = receiveQueue /\ held' = held
    BY <1>5 DEF vars
  <2>3. Stays
    BY <2>2 DEF Stays, Waiting, MainHas, QueueHas, ReceiverHas
  <2>4. QED
    BY <1>0, <1>1, <2>3
<1>6. QED
  BY <1>1, <1>2, <1>3, <1>4, <1>5

\* What leaves the answers on their way, but for the first, or ends the connection:
SaysNoAnswer ==
  \/ Outgoing' = Outgoing
  \/ Outgoing # << >> /\ Outgoing' = Tail(Outgoing)
  \/ \E m \in AllMessages : ~IsRequest(m) /\ Outgoing' = Append(Outgoing, m)
  \/ Outgoing' = << >>

\* every step but that of main with an answer in its hands.
LEMMA OutgoingCases ==
  ASSUME GroundInv, [Next]_vars, ~(MainReply /\ IsRequest(held[main]))
  PROVE  SaysNoAnswer
<1>0. TypeInv /\ OwnedInv /\ ShapeInv
  BY DEF GroundInv
<1>1. NULL \in AllMessages /\ ~IsRequest(NULL)
  BY NullType DEF NULL, Message, IsRequest
<1>2. ASSUME NEW t \in Workers, Puts(t), ~IsRequest(Hand(t)) PROVE SaysNoAnswer
  <2>1. Hand(t) \in AllMessages
    BY <1>0, HandsShape
  <2>2. QED
    BY <1>2, <2>1 DEF Puts, SaysNoAnswer
<1>3. CASE MainReply
  <2>1. Puts(main) /\ main \in Workers
    BY <1>3, OutputCases DEF Workers
  <2>2. ~IsRequest(Hand(main))
    BY <1>1, <1>3 DEF Hand
  <2>3. QED
    BY <1>2, <2>1, <2>2
<1>4. CASE ~MainReply
  <2>1. Utters
    BY <1>4, OutputCases
  <2>2. ASSUME NEW t \in Workers, Puts(t) PROVE SaysNoAnswer
    <3>1. CASE t \in Instances
      <4>1. ~IsRequest(Hand(t))
        BY <1>0, <1>1, <3>1, HandsShape DEF IsRequest
      <4>2. QED
        BY <1>2, <2>2, <4>1
    <3>2. CASE t = main /\ IsRequest(Hand(main))
      <4>1. /\ pc[main] = "reply" /\ Hand(main) = held[main] /\ IsRequest(held[main])
        BY <1>0, <1>1, <3>2 DEF Hand, ShapeInv, MainShape, IsRequest
      <4>2. Hand(main)' = Hand(main)
        <5>1. CASE Next
          <6>1. ~SpawnerStep
            BY <1>0, <4>1, SpawnerFrame
          <6>2. QED
            BY <1>0, <1>4, <4>1, <5>1, <6>1, MainWaits DEF Hand
        <5>2. CASE UNCHANGED vars
          BY <5>2 DEF vars, Hand
        <5>3. QED
          BY <5>1, <5>2
      <4>3. QED
        BY <1>1, <2>2, <3>2, <4>2 DEF Puts
    <3>3. CASE t = main /\ ~IsRequest(Hand(main))
      BY <1>2, <2>2, <3>3
    <3>4. QED
      BY <3>1, <3>2, <3>3 DEF Workers
  <2>3. QED
    BY <2>1, <2>2 DEF Utters, Quiet, Drops, Clears, SomePuts, SomeSays, SomeAnswers, SomeConfirms,
                      ThreadSpeaks, Speaks, Answers, Confirms, Takes, SaysNoAnswer
<1>5. QED
  BY <1>3, <1>4

\* What is left of the answers is in order, and from some number on all of them.
LEMMA AnswersLeft ==
  ASSUME TypeInv, AnswerOrder, SaysNoAnswer
  PROVE  /\ AnswerOrder'
         /\ \A k : Answered(k)' => Answered(k)
         /\ \A k, l : Answered(k)' /\ Answered(l) /\ k <= l => Answered(l)'
<1>1. PICK q \in Seq(AllMessages), n \in Nat : q = Outgoing /\ n = Len(q)
  BY OutgoingType
<1>2. \A i \in 1 .. n : q[i] \in AllMessages /\ q[i].inst \in Nat
  <2>1. \A m \in AllMessages : m.inst \in Nat
    BY DEF AllMessages
  <2>2. QED
    BY <1>1, <2>1
<1>3. CASE Outgoing' = Outgoing
  BY <1>3 DEF AnswerOrder, Answered
<1>4. CASE Outgoing # << >> /\ Outgoing' = Tail(Outgoing)
  <2>1. /\ Len(Outgoing') = n - 1 /\ n >= 1
        /\ \A i \in 1 .. n - 1 : Outgoing'[i] = q[i + 1] /\ i + 1 \in 1 .. n
    BY <1>1, <1>4, Removed
  <2>2. \A i \in 1 .. n : i = 1 \/ \E j \in 1 .. n - 1 : j + 1 = i
    <3>1. \A i \in 1 .. n : i = 1 \/ (i - 1 \in 1 .. n - 1 /\ (i - 1) + 1 = i)
      BY <1>1
    <3>2. QED
      BY <3>1
  <2>3. AnswerOrder'
    <3>1. \A i \in 1 .. n - 1 : \A j \in 1 .. i - 1 :
            IsRequest(q[i + 1]) /\ IsRequest(q[j + 1]) => q[j + 1].inst < q[i + 1].inst
      <4>1. \A i \in 1 .. n : \A j \in 1 .. i - 1 :
              IsRequest(q[i]) /\ IsRequest(q[j]) => q[j].inst < q[i].inst
        BY <1>1 DEF AnswerOrder
      <4>2. \A i \in 1 .. n - 1 : i + 1 \in 1 .. n /\ \A j \in 1 .. i - 1 : j + 1 \in 1 .. (i + 1) - 1
        BY <1>1
      <4>3. QED
        BY <4>1, <4>2
    <3>2. \A i \in 1 .. n - 1 : \A j \in 1 .. i - 1 : j \in 1 .. n - 1
      BY <1>1
    <3>3. PICK o : o = Outgoing'
      OBVIOUS
    <3>4. Len(o) = n - 1 /\ \A i \in 1 .. n - 1 : o[i] = q[i + 1]
      BY <2>1, <3>3
    <3>5. ASSUME NEW i \in 1 .. n - 1, NEW j \in 1 .. i - 1, IsRequest(o[i]), IsRequest(o[j])
          PROVE  o[j].inst < o[i].inst
      <4>1. o[i] = q[i + 1] /\ o[j] = q[j + 1]
        BY <3>2, <3>4
      <4>2. QED
        BY <3>1, <3>5, <4>1
    <3>6. QED
      BY <3>3, <3>4, <3>5 DEF AnswerOrder
  <2>4. ASSUME NEW k, Answered(k)' PROVE Answered(k)
    BY <1>1, <2>1, <2>4 DEF Answered
  <2>5. ASSUME NEW k, NEW l, Answered(k)', Answered(l), k <= l PROVE Answered(l)'
    <3>1. PICK i \in 1 .. n : IsRequest(q[i]) /\ q[i].inst = l
      BY <1>1, <2>5 DEF Answered
    <3>2. PICK j \in 1 .. n - 1 : IsRequest(q[j + 1]) /\ q[j + 1].inst = k
      BY <2>1, <2>5 DEF Answered
    <3>3. i # 1
      <4>1. SUFFICES ASSUME i = 1 PROVE FALSE
        OBVIOUS
      <4>2. 1 \in 1 .. (j + 1) - 1 /\ j + 1 \in 1 .. n
        BY <1>1
      <4>3. q[1].inst < q[j + 1].inst
        BY <1>1, <3>1, <3>2, <4>1, <4>2 DEF AnswerOrder
      <4>4. QED
        BY <1>2, <2>5, <3>1, <3>2, <4>1, <4>2, <4>3
    <3>4. PICK h \in 1 .. n - 1 : h + 1 = i
      BY <2>2, <3>3
    <3>5. Outgoing'[h] = q[i] /\ h \in 1 .. Len(Outgoing')
      BY <2>1, <3>4
    <3>6. QED
      BY <3>1, <3>5 DEF Answered
  <2>6. QED
    BY <2>3, <2>4, <2>5
<1>5. ASSUME NEW m \in AllMessages, ~IsRequest(m), Outgoing' = Append(Outgoing, m)
      PROVE  AnswerOrder' /\ \A k : Answered(k)' <=> Answered(k)
  <2>1. /\ Len(Outgoing') = n + 1 /\ Outgoing'[n + 1] = m
        /\ \A i \in 1 .. n : Outgoing'[i] = q[i]
    <3>1. /\ Len(Append(q, m)) = n + 1 /\ Append(q, m)[n + 1] = m
          /\ \A i \in 1 .. n : Append(q, m)[i] = q[i]
      BY <1>1
    <3>2. QED
      BY <1>1, <1>5, <3>1
  <2>2. \A i \in 1 .. n + 1 : IsRequest(Outgoing'[i]) => i \in 1 .. n /\ Outgoing'[i] = q[i]
    BY <1>1, <1>5, <2>1
  <2>3. \A i \in 1 .. n : i \in 1 .. n + 1
    BY <1>1
  <2>4. \A k : Answered(k)' <=> Answered(k)
    BY <1>1, <2>1, <2>2, <2>3 DEF Answered
  <2>5. \A i \in 1 .. n + 1 : \A j \in 1 .. i - 1 : j \in 1 .. n + 1
    BY <1>1
  <2>6. AnswerOrder'
    BY <1>1, <2>1, <2>2, <2>5 DEF AnswerOrder
  <2>7. QED
    BY <2>4, <2>6
<1>6. CASE Outgoing' = << >>
  <2>1. \A s : s = << >> => 1 .. Len(s) = {}
    OBVIOUS
  <2>2. QED
    BY <1>6, <2>1 DEF AnswerOrder, Answered
<1>7. QED
  BY <1>3, <1>4, <1>5, <1>6 DEF SaysNoAnswer

\* The receiver's hands are empty when it reads.
LEMMA ReadsInductive ==
  ASSUME TypeInv, LoopInv, ShapeInv, ReadsInv, [Next]_vars
  PROVE  ReadsInv'
<1>0. held \in [Threads -> AllMessages] /\ DOMAIN pc = Threads /\ NULL.type = "NULL"
  BY DEF TypeInv, TypeOK, ThreadType, PcType, NULL, Message
<1>1. CASE Receive
  <2>1. pc'[receiver] = "add"
    BY <1>0, <1>1 DEF Receive, Goto
  <2>2. held'[receiver].type = "open" => held'[receiver].inst = opens'
    BY <1>1, ReceiveFrame
  <2>3. QED
    BY <2>1, <2>2 DEF ReadsInv
<1>2. CASE ReceiverAdd
  BY <1>2, AddFrame DEF ReadsInv
<1>3. CASE Next /\ ~Receive /\ ~ReceiverAdd
  <2>1. opens' = opens /\ held'[receiver] \in {held[receiver], NULL}
    BY <1>0, <1>3, RequestFrame, PollFrame
  <2>2. pc'[receiver] = pc[receiver] \/ held[receiver].type # "open"
    <3>1. CASE LinkDown \/ ReceiverError \/ ReceiverStop \/ SenderStep \/ Finished
      BY <1>0, <3>1 DEF LinkDown, ReceiverError, ReceiverStop, SenderStep, SenderTest, SenderPoll, SenderWrite,
                        Finished, vars, Goto, ReadsInv
    <3>2. ASSUME NEW t \in Workers, PortStep(t) PROVE pc'[receiver] = pc[receiver]
      <4>1. receiver \in Threads \ {t}
        BY DEF Workers
      <4>2. \A u \in Threads \ {t} : Still(u) /\ held'[u] = held[u]
        BY <3>2, PortHands
      <4>3. QED
        BY <4>1, <4>2 DEF Still
    <3>3. ASSUME NEW k \in Instances, ThreadData(k) \/ BulkReadEnd(k) \/ ThreadStep(k), ~PortStep(k)
          PROVE  pc'[receiver] = pc[receiver]
      <4>1. receiver \in Threads \ {k}
        BY <3>3
      <4>2. \A t \in Threads \ {k} : Still(t)
        BY <3>3, ThreadFrame
      <4>3. QED
        BY <4>1, <4>2 DEF Still
    <3>4. CASE CheckPort \/ HandlerStep \/ MainReply \/ StatusStep
      BY <3>4, HandlerFrame DEF Still
    <3>5. CASE SpawnerStep
      BY <3>5, SpawnerFrame DEF Still
    <3>6. CASE MainPoll \/ DeInitStep
      BY <1>0, <3>6 DEF MainPoll, DeInitStep, DeInitPort, DeInitStopSender, DeInitJoin, DeInitFree, Goto
    <3>7. CASE Accept
      BY <3>7 DEF Accept, LoopInv, ReadsInv
    <3>8. QED
      BY <1>3, <3>1, <3>2, <3>3, <3>4, <3>5, <3>6, <3>7
         DEF Next, MainStep, ReceiverStep, ThreadStep, Workers
  <2>3. QED
    BY <1>0, <2>1, <2>2 DEF ReadsInv
<1>4. CASE UNCHANGED vars
  BY <1>4 DEF vars, ReadsInv
<1>5. QED
  BY <1>1, <1>2, <1>3, <1>4

\* The numbers of the requests.
LEMMA RequestNumbers ==
  ASSUME TypeInv, RequestsInv
  PROVE  /\ opens \in Nat
         /\ \A k : Answered(k) => k \in Nat
         /\ \A k : Waiting(k) => k \in Nat /\ k <= opens
         /\ IsRequest(held[main]) => \A k : Waiting(k) => k = held[main].inst \/ held[main].inst < k
<1>1. opens \in Nat /\ held \in [Threads -> AllMessages] /\ receiveQueue \in Seq(AllMessages)
  <2>1. opens \in Nat
    BY DEF TypeInv, TypeOK, CounterType
  <2>2. QED
    BY <2>1 DEF TypeInv, TypeOK, ThreadType, QueueType
<1>2. \A m \in AllMessages : m.inst \in Nat
  BY DEF AllMessages
<1>3. ASSUME NEW k, Answered(k) PROVE k \in Nat
  <2>1. Outgoing \in Seq(AllMessages)
    BY OutgoingType
  <2>2. QED
    BY <1>2, <1>3, <2>1 DEF Answered
<1>4. ASSUME NEW k, Waiting(k)
      PROVE  /\ k \in Nat /\ k <= opens
             /\ IsRequest(held[main]) => k = held[main].inst \/ held[main].inst < k
  <2>1. CASE MainHas(k)
    BY <1>1, <1>2, <2>1 DEF MainHas, IsRequest, RequestsInv
  <2>2. CASE QueueHas(k)
    BY <1>1, <1>2, <2>2 DEF QueueHas, IsRequest, RequestsInv
  <2>3. CASE ReceiverHas(k)
    BY <1>1, <1>2, <2>3 DEF ReceiverHas, IsRequest, RequestsInv
  <2>4. QED
    BY <1>4, <2>1, <2>2, <2>3 DEF Waiting
<1>5. QED
  BY <1>1, <1>3, <1>4

\* Main queues the answer to the first request that waits.
LEMMA AnswerQueued ==
  ASSUME GroundInv, AnswersInv, [Next]_vars, MainReply, Leaves
  PROVE  AnswerOrder' /\ \A k : Answered(k)' <=> (Answered(k) \/ k = held[main].inst)
<1>0. TypeInv /\ OwnedInv /\ ShapeInv /\ RequestsInv /\ AnswerOrder /\ AnsweredFirst
  BY DEF GroundInv, AnswersInv
<1>1. PICK q \in Seq(AllMessages), n \in Nat, m \in AllMessages :
        q = Outgoing /\ n = Len(q) /\ m = held[main]
  BY <1>0, OutgoingType DEF TypeInv, TypeOK, ThreadType
<1>2. Outgoing' = Append(q, m) /\ IsRequest(m)
  <2>1. Puts(main)
    BY OutputCases
  <2>2. Hand(main) = held[main]
    BY DEF Hand, MainReply, Goto
  <2>3. QED
    BY <1>1, <2>1, <2>2 DEF Puts, Leaves
<1>3. /\ Len(Outgoing') = n + 1 /\ Outgoing'[n + 1] = m
      /\ \A i \in 1 .. n : Outgoing'[i] = q[i]
  <2>1. /\ Len(Append(q, m)) = n + 1 /\ Append(q, m)[n + 1] = m
        /\ \A i \in 1 .. n : Append(q, m)[i] = q[i]
    BY <1>1
  <2>2. QED
    BY <1>2, <2>1
<1>4. /\ \A i \in 1 .. n + 1 : i \in 1 .. n \/ i = n + 1
      /\ n + 1 \in 1 .. n + 1 /\ \A i \in 1 .. n : i \in 1 .. n + 1
      /\ \A i \in 1 .. n : \A j \in 1 .. i - 1 : j \in 1 .. n
      /\ \A j \in 1 .. (n + 1) - 1 : j \in 1 .. n
  BY <1>1
<1>5. \A i \in 1 .. n : IsRequest(q[i]) => q[i].inst < m.inst
  <2>1. Waiting(m.inst)
    BY <1>1, <1>2 DEF Waiting, MainHas
  <2>2. \A i \in 1 .. n : IsRequest(q[i]) => Answered(q[i].inst)
    BY <1>1 DEF Answered
  <2>3. QED
    BY <1>0, <2>1, <2>2 DEF AnsweredFirst
<1>6. \A k : Answered(k)' <=> (Answered(k) \/ k = m.inst)
  BY <1>1, <1>2, <1>3, <1>4 DEF Answered
<1>7. AnswerOrder'
  <2>1. \A i \in 1 .. n : \A j \in 1 .. i - 1 :
          IsRequest(q[i]) /\ IsRequest(q[j]) => q[j].inst < q[i].inst
    BY <1>0, <1>1 DEF AnswerOrder
  <2>2. QED
    BY <1>3, <1>4, <1>5, <2>1 DEF AnswerOrder
<1>8. QED
  BY <1>1, <1>6, <1>7

\* No request is lost, doubled or overtaken, by any step.
LEMMA AnswersInductive ==
  /\ Init => AnswersInv
  /\ GroundInv /\ AnswersInv /\ [Next]_vars => AnswersInv'
<1>1. Init => AnswersInv
  <2> SUFFICES ASSUME Init PROVE AnswersInv
    OBVIOUS
  <2>1. /\ held[main].type = "NULL" /\ held[receiver].type = "NULL" /\ receiveQueue = << >>
    BY DEF Init, NULL, Message
  <2>2. Outgoing = << >>
    BY DEF Init, Outgoing, Threads
  <2>3. \A q : q = << >> => 1 .. Len(q) = {}
    OBVIOUS
  <2>4. \A k : ~Answered(k) /\ ~Waiting(k)
    BY <2>1, <2>2, <2>3 DEF Answered, Waiting, MainHas, QueueHas, ReceiverHas, IsRequest
  <2>5. AnswerOrder
    BY <2>2, <2>3 DEF AnswerOrder
  <2>6. QED
    BY <2>1, <2>4, <2>5 DEF AnswersInv, ReadsInv, AnsweredFirst, NoneMissing
<1> SUFFICES ASSUME GroundInv, AnswersInv, [Next]_vars PROVE AnswersInv'
  BY <1>1
<1>2. /\ TypeInv /\ OwnedInv /\ LoopInv /\ ShapeInv /\ RequestsInv
      /\ ReadsInv /\ AnswerOrder /\ AnsweredFirst /\ NoneMissing
  BY DEF GroundInv, AnswersInv
<1>3. ReadsInv'
  BY <1>2, ReadsInductive
<1>4. /\ opens \in Nat
      /\ \A k : Answered(k) => k \in Nat /\ k <= opens
      /\ \A k : Waiting(k) => k \in Nat /\ k <= opens
      /\ \A k, l : Answered(k) /\ Waiting(l) => k < l
  BY <1>2, RequestNumbers DEF AnsweredFirst
<1>5. \A k, l \in Nat :
        (Answered(k) \/ Waiting(k)) /\ k <= l /\ l <= opens => Answered(l) \/ Waiting(l)
  BY <1>2 DEF NoneMissing
<1>6. CASE Ends
  <2>1. \A k : ~Answered(k)' /\ ~Waiting(k)'
    <3>1. \A q : q = << >> => 1 .. Len(q) = {}
      OBVIOUS
    <3>2. QED
      BY <1>6, <3>1 DEF Ends, Answered
  <2>2. AnswerOrder'
    BY <1>6 DEF Ends, AnswerOrder
  <2>3. QED
    BY <1>3, <2>1, <2>2 DEF AnswersInv, AnsweredFirst, NoneMissing
<1>7. CASE ~(MainReply /\ IsRequest(held[main])) /\ (Stays \/ Comes)
  <2>1. /\ AnswerOrder'
        /\ \A k : Answered(k)' => Answered(k)
        /\ \A k, l : Answered(k)' /\ Answered(l) /\ k <= l => Answered(l)'
    BY <1>2, <1>7, OutgoingCases, AnswersLeft
  <2>2. CASE Stays
    <3>1. opens' = opens /\ \A k : Waiting(k)' <=> Waiting(k)
      BY <2>2 DEF Stays
    <3>2. AnsweredFirst'
      BY <1>4, <2>1, <3>1 DEF AnsweredFirst
    <3>3. ASSUME NEW k \in Nat, NEW l \in Nat, Answered(k)' \/ Waiting(k)', k <= l, l <= opens
          PROVE  Answered(l)' \/ Waiting(l)'
      <4>1. Answered(l) \/ Waiting(l)
        BY <1>5, <2>1, <3>1, <3>3
      <4>2. CASE Answered(l) /\ Waiting(k)
        <5>1. l < k
          BY <1>4, <4>2
        <5>2. QED
          BY <3>3, <5>1
      <4>3. CASE Answered(l) /\ Answered(k)'
        BY <2>1, <3>3, <4>3
      <4>4. QED
        BY <3>1, <3>3, <4>1, <4>2, <4>3
    <3>4. QED
      BY <1>3, <2>1, <3>1, <3>2, <3>3 DEF AnswersInv, NoneMissing
  <2>3. CASE Comes
    <3>1. opens' = opens + 1 /\ \A k : Waiting(k)' <=> (Waiting(k) \/ k = opens + 1)
      BY <2>3 DEF Comes
    <3>2. AnsweredFirst'
      BY <1>4, <2>1, <3>1 DEF AnsweredFirst
    <3>3. ASSUME NEW k \in Nat, NEW l \in Nat, Answered(k)' \/ Waiting(k)', k <= l, l <= opens + 1
          PROVE  Answered(l)' \/ Waiting(l)'
      <4>1. CASE l = opens + 1
        BY <3>1, <4>1
      <4>2. CASE l # opens + 1
        <5>1. l <= opens /\ k # opens + 1
          BY <1>4, <3>3, <4>2
        <5>2. Answered(l) \/ Waiting(l)
          BY <1>5, <2>1, <3>1, <3>3, <5>1
        <5>3. CASE Answered(l) /\ Waiting(k)
          <6>1. l < k
            BY <1>4, <5>3
          <6>2. QED
            BY <3>3, <6>1
        <5>4. CASE Answered(l) /\ Answered(k)'
          BY <2>1, <3>3, <5>4
        <5>5. QED
          BY <3>1, <3>3, <5>1, <5>2, <5>3, <5>4
      <4>3. QED
        BY <4>1, <4>2
    <3>4. QED
      BY <1>3, <2>1, <3>1, <3>2, <3>3 DEF AnswersInv, NoneMissing
  <2>4. QED
    BY <1>7, <2>2, <2>3
<1>8. CASE MainReply /\ Leaves
  <2> DEFINE a == held[main].inst
  <2>1. AnswerOrder' /\ \A k : Answered(k)' <=> (Answered(k) \/ k = a)
    BY <1>8, AnswerQueued
  <2>2. /\ opens' = opens /\ \A k : Waiting(k)' <=> (Waiting(k) /\ k # a)
        /\ IsRequest(held[main])
    BY <1>8 DEF Leaves
  <2>3. Waiting(a) /\ \A k : Waiting(k) => k = a \/ a < k
    BY <1>2, <2>2, RequestNumbers DEF Waiting, MainHas
  <2> HIDE DEF a
  <2>4. AnsweredFirst'
    BY <1>4, <2>1, <2>2, <2>3 DEF AnsweredFirst
  <2>5. \A k : (Answered(k)' \/ Waiting(k)') <=> (Answered(k) \/ Waiting(k))
    BY <2>1, <2>2, <2>3
  <2>6. QED
    BY <1>3, <1>5, <2>1, <2>2, <2>4, <2>5 DEF AnswersInv, NoneMissing
<1>9. QED
  BY <1>2, <1>6, <1>7, <1>8, WaitingCases
\* What joining two sequences gives.
LEMMA Concatenated ==
  ASSUME NEW S, NEW a \in Seq(S), NEW b \in Seq(S)
  PROVE  /\ a \o b \in Seq(S) /\ Len(a \o b) = Len(a) + Len(b)
         /\ \A i \in 1 .. Len(a) : (a \o b)[i] = a[i]
         /\ \A i \in 1 .. Len(b) : (a \o b)[Len(a) + i] = b[i]
OBVIOUS

\* The four parts of the way of the requests.
LEMMA FourParts ==
  ASSUME NEW S, NEW a \in Seq(S), NEW x \in S, NEW b \in Seq(S), NEW y \in S,
         NEW w, w = a \o <<x>> \o b \o <<y>>
  PROVE  /\ Len(w) = Len(a) + Len(b) + 2
         /\ \A i \in 1 .. Len(a) : w[i] = a[i]
         /\ w[Len(a) + 1] = x
         /\ \A i \in 1 .. Len(b) : w[Len(a) + 1 + i] = b[i]
         /\ w[Len(a) + Len(b) + 2] = y
<1>1. PICK X \in Seq(S), Y \in Seq(S) :
        X = <<x>> /\ Y = <<y>> /\ Len(X) = 1 /\ Len(Y) = 1 /\ X[1] = x /\ Y[1] = y
  <2>1. <<x>> \in Seq(S) /\ Len(<<x>>) = 1 /\ <<x>>[1] = x
    OBVIOUS
  <2>2. <<y>> \in Seq(S) /\ Len(<<y>>) = 1 /\ <<y>>[1] = y
    OBVIOUS
  <2>3. QED
    BY <2>1, <2>2
<1>2. PICK v \in Seq(S) : v = a \o X
  BY Concatenated
<1>3. PICK u \in Seq(S) : u = v \o b
  BY Concatenated
<1>4. w = u \o Y
  BY <1>1, <1>2, <1>3
<1>5. Len(v) = Len(a) + 1 /\ v[Len(a) + 1] = x /\ \A i \in 1 .. Len(a) : v[i] = a[i]
  BY <1>1, <1>2, Concatenated
<1>6. /\ Len(u) = Len(v) + Len(b) /\ \A i \in 1 .. Len(v) : u[i] = v[i]
      /\ \A i \in 1 .. Len(b) : u[Len(v) + i] = b[i]
  BY <1>3, Concatenated
<1>7. Len(w) = Len(u) + 1 /\ w[Len(u) + 1] = y /\ \A i \in 1 .. Len(u) : w[i] = u[i]
  <2>1. 1 \in 1 .. Len(Y) /\ Y[1] = y
    BY <1>1
  <2>2. /\ Len(u \o Y) = Len(u) + Len(Y) /\ \A i \in 1 .. Len(u) : (u \o Y)[i] = u[i]
        /\ \A i \in 1 .. Len(Y) : (u \o Y)[Len(u) + i] = Y[i]
    BY Concatenated
  <2>3. QED
    BY <1>1, <1>4, <2>1, <2>2
<1>8. /\ Len(a) \in Nat /\ Len(b) \in Nat
      /\ \A i \in 1 .. Len(a) : i \in 1 .. Len(v) /\ i \in 1 .. Len(u)
      /\ Len(a) + 1 \in 1 .. Len(v) /\ Len(a) + 1 \in 1 .. Len(u)
      /\ \A i \in 1 .. Len(b) : Len(v) + i \in 1 .. Len(u)
  BY <1>5, <1>6
<1>9. Len(w) = Len(a) + Len(b) + 2 /\ Len(u) + 1 = Len(a) + Len(b) + 2
  BY <1>5, <1>6, <1>7, <1>8
<1>10. QED
  BY <1>5, <1>6, <1>7, <1>8, <1>9

\* Where the requests are that are answered and those that wait tells their order.
LEMMA AnswersInOrder == GroundInv /\ AnswersInv => RequestsInOrder
<1> SUFFICES ASSUME GroundInv, AnswersInv PROVE RequestsInOrder
  OBVIOUS
<1>0. /\ TypeInv /\ RequestsInv /\ AnswerOrder /\ AnsweredFirst /\ NoneMissing
      /\ \A i \in 1 .. Len(receiveQueue) : Addressed(receiveQueue[i])
      /\ Addressed(held[receiver])
  BY DEF GroundInv, AnswersInv, TypeInv, IncomingInv
<1>1. PICK a \in Seq(AllMessages), x \in AllMessages, b \in Seq(AllMessages), y \in AllMessages :
        a = Outgoing /\ x = held[main] /\ b = receiveQueue /\ y = held[receiver]
  BY <1>0, OutgoingType DEF TypeInv, TypeOK, ThreadType, QueueType
<1>2. PICK w : w = Way
  OBVIOUS
<1>3. w = a \o <<x>> \o b \o <<y>>
  BY <1>1, <1>2 DEF Way
<1>4. PICK l \in Nat, n \in Nat : l = Len(a) /\ n = Len(b)
  OBVIOUS
<1>5. /\ Len(w) = l + n + 2
      /\ \A i \in 1 .. l : w[i] = a[i]
      /\ w[l + 1] = x
      /\ \A i \in 1 .. n : w[l + 1 + i] = b[i]
      /\ w[l + n + 2] = y
  BY <1>3, <1>4, FourParts
<1>6. ASSUME NEW i \in 1 .. Len(w)
      PROVE  i \in 1 .. l \/ i = l + 1 \/ (\E j \in 1 .. n : i = l + 1 + j) \/ i = l + n + 2
  <2>1. CASE i > l + 1 /\ i < l + n + 2
    <3>1. i - (l + 1) \in 1 .. n /\ i = l + 1 + (i - (l + 1))
      BY <1>5, <2>1
    <3>2. QED
      BY <3>1
  <2>2. i \in Nat /\ 1 <= i /\ i <= l + n + 2
    BY <1>5
  <2>3. i \in 1 .. l \/ i = l + 1 \/ (i > l + 1 /\ i < l + n + 2) \/ i = l + n + 2
    BY <2>2
  <2>4. QED
    BY <2>1, <2>3
<1>7. /\ \A i \in 1 .. n : IsRequest(b[i]) <=> b[i].type = "open"
      /\ IsRequest(y) <=> y.type = "open"
  BY <1>0, <1>1, <1>4 DEF IsRequest, Addressed
<1>8. \A i \in 1 .. l : IsRequest(w[i]) => Answered(w[i].inst)
  BY <1>1, <1>4, <1>5 DEF Answered
<1>9. ASSUME NEW i \in 1 .. Len(w), i \notin 1 .. l, IsRequest(w[i]) PROVE Waiting(w[i].inst)
  <2>1. w[i] = x \/ (\E j \in 1 .. n : w[i] = b[j]) \/ w[i] = y
    <3>1. i = l + 1 => w[i] = x
      BY <1>5
    <3>2. ASSUME NEW j \in 1 .. n, i = l + 1 + j PROVE w[i] = b[j]
      BY <1>5, <3>2
    <3>3. i = l + n + 2 => w[i] = y
      BY <1>5
    <3>4. i = l + 1 \/ (\E j \in 1 .. n : i = l + 1 + j) \/ i = l + n + 2
      BY <1>6, <1>9
    <3>5. QED
      BY <3>1, <3>2, <3>3, <3>4
  <2>2. QED
    BY <1>1, <1>4, <1>7, <1>9, <2>1 DEF Waiting, MainHas, QueueHas, ReceiverHas
<1>10. ASSUME NEW k, Answered(k) \/ Waiting(k)
       PROVE  \E i \in 1 .. Len(w) : IsRequest(w[i]) /\ w[i].inst = k
  <2>1. /\ l + 1 \in 1 .. Len(w) /\ l + n + 2 \in 1 .. Len(w)
        /\ \A i \in 1 .. l : i \in 1 .. Len(w)
        /\ \A i \in 1 .. n : l + 1 + i \in 1 .. Len(w)
    <3>1. Len(w) = l + n + 2
      BY <1>5
    <3>2. /\ l + 1 \in 1 .. l + n + 2 /\ l + n + 2 \in 1 .. l + n + 2
          /\ \A i \in 1 .. l : i \in 1 .. l + n + 2
          /\ \A i \in 1 .. n : l + 1 + i \in 1 .. l + n + 2
      OBVIOUS
    <3>3. QED
      BY <3>1, <3>2
  <2>2. CASE Answered(k)
    BY <1>1, <1>4, <1>5, <2>1, <2>2 DEF Answered
  <2>3. CASE MainHas(k)
    BY <1>1, <1>5, <2>1, <2>3 DEF MainHas
  <2>4. CASE QueueHas(k)
    BY <1>1, <1>4, <1>5, <1>7, <2>1, <2>4 DEF QueueHas
  <2>5. CASE ReceiverHas(k)
    BY <1>1, <1>5, <1>7, <2>1, <2>5 DEF ReceiverHas
  <2>6. QED
    BY <1>10, <2>2, <2>3, <2>4, <2>5 DEF Waiting
<1>11. /\ opens \in Nat
       /\ \A k : Answered(k) => k \in Nat /\ k <= opens
       /\ \A k : Waiting(k) => k \in Nat /\ k <= opens
       /\ \A k, j : Answered(k) /\ Waiting(j) => k < j
  BY <1>0, RequestNumbers DEF AnsweredFirst
<1>12. ASSUME NEW i \in 1 .. Len(w), IsRequest(w[i])
       PROVE  (Answered(w[i].inst) \/ Waiting(w[i].inst)) /\ w[i].inst \in Nat /\ w[i].inst <= opens
  BY <1>8, <1>9, <1>11, <1>12
<1>13. ASSUME NEW i \in 1 .. Len(w), NEW j \in 1 .. i - 1, IsRequest(w[i]), IsRequest(w[j])
       PROVE  w[j].inst < w[i].inst
  <2>1. j \in 1 .. Len(w) /\ j < i /\ Len(w) \in Nat
    BY <1>5
  <2>2. CASE i \in 1 .. l
    <3>1. j \in 1 .. l
      BY <2>1, <2>2
    <3>2. w[i] = a[i] /\ w[j] = a[j]
      BY <1>5, <2>2, <3>1
    <3>3. QED
      BY <1>0, <1>1, <1>4, <1>13, <2>2, <3>2 DEF AnswerOrder
  <2>3. CASE i \notin 1 .. l /\ j \in 1 .. l
    BY <1>8, <1>9, <1>11, <1>13, <2>3
  <2>4. CASE j = l + 1
    <3>1. w[j] = x /\ ((\E h \in 1 .. n : w[i] = b[h]) \/ w[i] = y)
      <4>1. i \notin 1 .. l /\ i # l + 1
        BY <2>1, <2>4
      <4>2. ASSUME NEW h \in 1 .. n, i = l + 1 + h PROVE w[i] = b[h]
        BY <1>5, <4>2
      <4>3. w[j] = x /\ (i = l + n + 2 => w[i] = y)
        BY <1>5, <2>4
      <4>4. (\E h \in 1 .. n : i = l + 1 + h) \/ i = l + n + 2
        BY <1>6, <4>1
      <4>5. QED
        BY <4>2, <4>3, <4>4
    <3>2. QED
      BY <1>0, <1>1, <1>4, <1>7, <1>13, <3>1 DEF RequestsInv, IsRequest
  <2>5. CASE \E h \in 1 .. n : j = l + 1 + h
    <3>1. PICK h \in 1 .. n : j = l + 1 + h
      BY <2>5
    <3>2. w[j] = b[h] /\ ((\E g \in 1 .. n : h < g /\ w[i] = b[g]) \/ w[i] = y)
      <4>1. i \notin 1 .. l /\ i # l + 1
        BY <2>1, <3>1
      <4>2. ASSUME NEW g \in 1 .. n, i = l + 1 + g PROVE h < g /\ w[i] = b[g]
        <5>1. l + 1 + h < l + 1 + g
          BY <2>1, <3>1, <4>2
        <5>2. h < g
          BY <5>1
        <5>3. w[i] = b[g]
          BY <1>5, <4>2
        <5>4. QED
          BY <5>2, <5>3
      <4>3. w[j] = b[h] /\ (i = l + n + 2 => w[i] = y)
        BY <1>5, <3>1
      <4>4. (\E g \in 1 .. n : i = l + 1 + g) \/ i = l + n + 2
        BY <1>6, <4>1
      <4>5. QED
        BY <4>2, <4>3, <4>4
    <3>3. QED
      BY <1>0, <1>1, <1>4, <1>7, <1>13, <3>2 DEF RequestsInv
  <2>6. j # l + n + 2
    BY <1>5, <2>1
  <2>7. QED
    BY <1>6, <2>1, <2>2, <2>3, <2>4, <2>5, <2>6
<1>14. ASSUME NEW i \in 1 .. Len(w), IsRequest(w[i]), NEW k \in w[i].inst .. opens
       PROVE  \E j \in i .. Len(w) : IsRequest(w[j]) /\ w[j].inst = k
  <2>1. k \in Nat /\ w[i].inst <= k /\ k <= opens
    BY <1>11, <1>12, <1>14
  <2>2. Answered(k) \/ Waiting(k)
    BY <1>0, <1>12, <1>14, <2>1 DEF NoneMissing
  <2>3. PICK j \in 1 .. Len(w) : IsRequest(w[j]) /\ w[j].inst = k
    BY <1>10, <2>2
  <2>4. ~(w[i].inst > w[j].inst)
    BY <1>12, <1>14, <2>1, <2>3
  <2>5. j >= i
    <3>1. CASE j < i
      <4>1. j \in 1 .. i - 1
        BY <3>1
      <4>2. w[j].inst < w[i].inst
        BY <1>13, <1>14, <2>3, <4>1
      <4>3. QED
        BY <1>12, <1>14, <2>3, <2>4, <4>2
    <3>2. QED
      BY <1>5, <3>1
  <2>6. QED
    BY <1>5, <2>3, <2>5
<1>15. ASSUME NEW i \in 1 .. Len(w), IsRequest(w[i])
       PROVE  /\ w[i].inst <= opens
              /\ \A j \in 1 .. i - 1 : IsRequest(w[j]) => w[j].inst < w[i].inst
              /\ \A k \in w[i].inst .. opens : \E j \in i .. Len(w) : IsRequest(w[j]) /\ w[j].inst = k
  <2>1. w[i].inst <= opens
    BY <1>12, <1>15
  <2>2. \A j \in 1 .. i - 1 : IsRequest(w[j]) => w[j].inst < w[i].inst
    BY <1>13, <1>15
  <2>3. \A k \in w[i].inst .. opens : \E j \in i .. Len(w) : IsRequest(w[j]) /\ w[j].inst = k
    BY <1>14, <1>15
  <2>4. QED
    BY <2>1, <2>2, <2>3
<1>16. QED
  BY <1>2, <1>15 DEF RequestsInOrder

-----------------------------------------------------------------------------
(* The theorems.                                                           *)

\* A connection begins with nothing said, in nobody's hands and on no port.
LEMMA InitOutput == Init => GroundInv /\ OutputInv
<1> SUFFICES ASSUME Init PROVE GroundInv /\ OutputInv
  OBVIOUS
<1>1. GroundInv
  BY InitType, OverInductive, ShapeInductive, RequestsInductive, ServicesInductive DEF GroundInv
<1>2. Outgoing = << >>
  BY DEF Init, Outgoing, Threads
<1>3. /\ \A q : q = << >> => 1 .. Len(q) = {}
      /\ \A n : n = 0 => 1 .. n = {}
  OBVIOUS
<1>4. /\ \A t \in Workers : Hand(t) = NULL
      /\ held[main] = NULL /\ \A k \in Instances : pc[k] = "none"
      /\ \A p \in Ports : services[p].inst = 0
  BY DEF Init, Hand, Threads, Workers, Instances, Free
<1>5. NULL.type = "NULL"
  BY DEF NULL, Message
<1>6. Ready(NULL)
  BY <1>2, <1>3, <1>5 DEF Ready, Fits, Speech
<1>7. MayFollow(NULL, NULL)
  BY <1>5, NullFollows
<1>8. SpeechInv
  BY <1>2, <1>3, <1>4, <1>6, <1>7 DEF SpeechInv, OrderInv, HandsInv, VoiceInv
<1>9. SilentInv
  BY <1>2, <1>3, <1>4, <1>5 DEF SilentInv, About
<1>10. DoneInv
  BY <1>2, <1>3, <1>4, <1>5 DEF DoneInv, SaidEof, Workers
<1>11. QED
  BY <1>1, <1>8, <1>9, <1>10 DEF OutputInv

\* Together the invariants are inductive: each of them rests on the others.
LEMMA OutputInductive ==
  GroundInv /\ OutputInv /\ [Next]_vars => GroundInv' /\ OutputInv'
<1> SUFFICES ASSUME GroundInv, OutputInv, [Next]_vars PROVE GroundInv' /\ OutputInv'
  OBVIOUS
<1>1. TypeInv /\ OwnedInv /\ LoopInv /\ ShapeInv /\ RequestsInv /\ ServicesInv
  BY DEF GroundInv
<1>2. TypeInv'
  BY <1>1, StepKeepsType
<1>3. OwnedInv' /\ LoopInv'
  BY <1>1, OverInductive
<1>4. ShapeInv' /\ RequestsInv' /\ ServicesInv'
  BY <1>1, ShapeInductive, RequestsInductive, ServicesInductive
<1>5. OutputInv'
  BY SpeechInductive, SilentInductive, DoneInductive DEF OutputInv
<1>6. QED
  BY <1>2, <1>3, <1>4, <1>5 DEF GroundInv

\* What the accessory says to Android is said in an order Android can make sense
\* of, whatever the services, their threads, the two queues and the link do.
THEOREM OutputInvariant == Spec => [](GroundInv /\ OutputInv)
BY InitOutput, OutputInductive, PTL DEF Spec

\* Android gets one answer to every request for a service, and gets the answers in
\* the order of its requests: it takes each for the answer to the first that waits
\* (ServiceSpawnerOnBytesReceived answers every request main gives it, and the two
\* queues keep the order).
THEOREM RequestsInOrderHolds == Spec => []RequestsInOrder
BY OutputInvariant, AnswersInductive, AnswersInOrder, PTL DEF Spec

\* Android hears of a service's port before it hears anything of the service: the
\* confirmation is queued before the first data, EOF or CLOSE of the service
\* (startingLock in servicespawner.c).
THEOREM ConfirmationFirstHolds == Spec => []ConfirmationFirst
<1>1. GroundInv /\ OutputInv => ConfirmationFirst
  <2> SUFFICES ASSUME GroundInv, OutputInv PROVE ConfirmationFirst
    OBVIOUS
  <2>1. OrderInv /\ HandsInv /\ TypeInv /\ OwnedInv /\ ShapeInv /\ main \in Workers
    BY DEF GroundInv, OutputInv, SpeechInv, Workers
  <2>2. ASSUME held[main].type = "opened", NEW i \in 1 .. Len(Outgoing)
        PROVE  ~About(Outgoing[i], held[main].inst)
    <3>1. Hand(main) = held[main]
      BY <2>1, <2>2, HandsShape
    <3>2. MayFollow(Outgoing[i], Hand(main))
      BY <2>1 DEF HandsInv, Ready, Fits
    <3>3. QED
      BY <2>2, <3>1, <3>2 DEF MayFollow
  <2>3. ASSUME NEW i \in 1 .. Len(Outgoing), NEW j \in 1 .. Len(Outgoing), i < j, Outgoing[j].type = "opened"
        PROVE  ~About(Outgoing[i], Outgoing[j].inst)
    <3>1. i \in 1 .. j - 1
      BY <2>3
    <3>2. MayFollow(Outgoing[i], Outgoing[j])
      BY <2>1, <3>1 DEF OrderInv, Fits
    <3>3. QED
      BY <2>3, <3>2 DEF MayFollow
  <2>4. QED
    BY <2>2, <2>3 DEF ConfirmationFirst
<1>2. QED
  BY <1>1, OutputInvariant, PTL

\* After its EOF a service says neither data nor a second EOF, also when its
\* thread, main and a cleanup race (sendEof, "No more write calls may be made").
THEOREM NothingAfterEofHolds == Spec => []NothingAfterEof
<1>1. GroundInv /\ OutputInv => NothingAfterEof
  <2> SUFFICES ASSUME OrderInv, NEW i \in 1 .. Len(Outgoing), NEW j \in 1 .. Len(Outgoing), i < j,
                      Outgoing[i].type = "eof", Outgoing[i].inst = Outgoing[j].inst
               PROVE  Outgoing[j].type \notin {"data", "eof"}
    BY DEF NothingAfterEof, OutputInv, SpeechInv
  <2>1. i \in 1 .. j - 1
    OBVIOUS
  <2>2. MayFollow(Outgoing[i], Outgoing[j])
    BY <2>1 DEF OrderInv, Fits
  <2>3. QED
    BY <2>2 DEF MayFollow
<1>2. QED
  BY <1>1, OutputInvariant, PTL

\* As long as the link is up, what Android receives on a port comes from the
\* service it knows on that port: a port is given to a new service only when the
\* old one has said its last (CleanupService joins the thread before it resets).
THEOREM NoStaleOutputHolds == Spec => []NoStaleOutput
<1>1. GroundInv /\ OutputInv => NoStaleOutput
  <2> SUFFICES ASSUME OrderInv, link, NEW i \in 1 .. Len(Outgoing), NEW m, m = Outgoing[i],
                      m.type \in Speech, m.port \in Ports
               PROVE  /\ \A j \in 1 .. i - 1 : Outgoing[j].type = "opened" /\ Outgoing[j].port = m.port
                           => Outgoing[j].inst <= m.inst
                      /\ android[m.port].inst # 0
                         /\ (\A j \in 1 .. i - 1 : ~(Outgoing[j].type = "opened" /\ Outgoing[j].port = m.port))
                           => android[m.port].inst = m.inst
    BY DEF NoStaleOutput, OutputInv, SpeechInv, Speech
  <2>1. /\ \A j \in 1 .. i - 1 : MayFollow(Outgoing[j], m)
        /\ Told(Outgoing, i - 1, android, m)
    BY DEF OrderInv, Fits
  <2>2. QED
    BY <2>1 DEF MayFollow, Told
<1>2. QED
  BY <1>1, OutputInvariant, PTL
=============================================================================
