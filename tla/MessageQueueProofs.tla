------------------------- MODULE MessageQueueProofs -------------------------
(***************************************************************************)
(* What MessageQueue promises for every size of the ring and every finite  *)
(* set of threads.  The argument is the accounting of the semaphores: a    *)
(* token is in space_sem, in the hands of a thread, or a queued message,   *)
(* so a thread that reaches the body of add or poll finds what it needs.   *)
(***************************************************************************)
EXTENDS MessageQueue, FiniteSetTheorems, SequenceTheorems, TLAPS

\* A queue that is down is empty and nobody is inside a call.
DownIsQuiet == ~up => Quiet /\ messages = 0

IInv == TypeOK /\ MutualExclusion /\ SlotsAccounted /\ RingConsistent /\ DownIsQuiet

-----------------------------------------------------------------------------
\* The threads that hold a token are finitely many, so they can be counted.
LEMMA OwnersFinite ==
  /\ IsFiniteSet(SlotOwners) /\ Cardinality(SlotOwners) \in Nat
  /\ IsFiniteSet(MessageOwners) /\ Cardinality(MessageOwners) \in Nat
<1>1. SlotOwners \in SUBSET Producers /\ MessageOwners \in SUBSET Consumers
  BY DEF SlotOwners, MessageOwners
<1>2. IsFiniteSet(SlotOwners) /\ IsFiniteSet(MessageOwners)
  BY <1>1, FS_Subset, ThreadsAssumption
<1> QED
  BY <1>2, FS_CardinalityType

\* A thread in the body of add owns a slot and one in the body of poll owns a
\* message, so the ring is not full for the first nor empty for the second.
LEMMA BodyFindsToken ==
  ASSUME IInv
  PROVE  NeverDrops /\ PollFindsMessage
<1> USE QueueMaxAssumption
<1>1. ASSUME NEW p \in Producers, pc[p] = "add_body"
      PROVE  messages < MESSAGEQUEMAX
  <2>1. up
    BY <1>1 DEF IInv, DownIsQuiet, Quiet, Threads
  <2>2. SlotOwners # {}
    BY <1>1 DEF SlotOwners
  <2>3. Cardinality(SlotOwners) \in Nat /\ Cardinality(SlotOwners) # 0
    BY <2>2, OwnersFinite, FS_EmptySet
  <2> QED
    BY <2>1, <2>3 DEF IInv, TypeOK, SlotsAccounted
<1>2. ASSUME NEW c \in Consumers, pc[c] = "poll_body"
      PROVE  messages > 0
  <2>1. up
    BY <1>2 DEF IInv, DownIsQuiet, Quiet, Threads
  <2>2. MessageOwners # {}
    BY <1>2 DEF MessageOwners
  <2>3. Cardinality(MessageOwners) \in Nat /\ Cardinality(MessageOwners) # 0
    BY <2>2, OwnersFinite, FS_EmptySet
  <2> QED
    BY <2>1, <2>3 DEF IInv, TypeOK, SlotsAccounted
<1> QED
  BY <1>1, <1>2 DEF NeverDrops, PollFindsMessage

\* Effect of one thread's move on the two sets of token owners.
LEMMA OwnersAfterMove ==
  ASSUME TypeOK, NEW t \in Threads, NEW from, NEW to, Goto(t, from, to)
  PROVE  /\ SlotOwners' = IF t \in Producers /\ to \in {"add_lock", "add_body"}
                          THEN SlotOwners \union {t} ELSE SlotOwners \ {t}
         /\ MessageOwners' = IF t \in Consumers /\ to \in {"poll_lock", "poll_body"}
                             THEN MessageOwners \union {t} ELSE MessageOwners \ {t}
<1>1. \A s \in Threads : pc'[s] = IF s = t THEN to ELSE pc[s]
  BY DEF Goto, TypeOK
<1>2. Producers \subseteq Threads /\ Consumers \subseteq Threads
  BY DEF Threads
<1> QED
  BY <1>1, <1>2 DEF SlotOwners, MessageOwners

\* The counts that go with it: a move into a token's holding adds one, a move
\* out of it takes one away, any other move leaves the count.
LEMMA OwnersCount ==
  ASSUME TypeOK, NEW t \in Threads, NEW from, NEW to, Goto(t, from, to)
  PROVE  /\ Cardinality(SlotOwners') =
              IF t \in Producers /\ to \in {"add_lock", "add_body"}
              THEN IF t \in SlotOwners THEN Cardinality(SlotOwners)
                                       ELSE Cardinality(SlotOwners) + 1
              ELSE IF t \in SlotOwners THEN Cardinality(SlotOwners) - 1
                                       ELSE Cardinality(SlotOwners)
         /\ Cardinality(MessageOwners') =
              IF t \in Consumers /\ to \in {"poll_lock", "poll_body"}
              THEN IF t \in MessageOwners THEN Cardinality(MessageOwners)
                                          ELSE Cardinality(MessageOwners) + 1
              ELSE IF t \in MessageOwners THEN Cardinality(MessageOwners) - 1
                                          ELSE Cardinality(MessageOwners)
<1>1. /\ Cardinality(SlotOwners \union {t}) =
           IF t \in SlotOwners THEN Cardinality(SlotOwners) ELSE Cardinality(SlotOwners) + 1
      /\ Cardinality(SlotOwners \ {t}) =
           IF t \in SlotOwners THEN Cardinality(SlotOwners) - 1 ELSE Cardinality(SlotOwners)
  BY OwnersFinite, FS_AddElement, FS_RemoveElement
<1>2. /\ Cardinality(MessageOwners \union {t}) =
           IF t \in MessageOwners THEN Cardinality(MessageOwners)
                                  ELSE Cardinality(MessageOwners) + 1
      /\ Cardinality(MessageOwners \ {t}) =
           IF t \in MessageOwners THEN Cardinality(MessageOwners) - 1
                                  ELSE Cardinality(MessageOwners)
  BY OwnersFinite, FS_AddElement, FS_RemoveElement
<1> QED
  BY <1>1, <1>2, OwnersAfterMove

\* A thread that moves without touching the mutex was no holder and is none;
\* one that obtains it finds no holder; one that releases it was the only one.
LEMMA MutexAfterMove ==
  ASSUME TypeOK, MutualExclusion, NEW t \in Threads, NEW from, NEW to, Goto(t, from, to),
         LET held == {"add_body", "add_unlock", "poll_body", "poll_unlock"}
         IN  \/ from \in held /\ to \in held /\ lock' = lock
             \/ from \notin held /\ to \notin held /\ lock' = lock
             \/ from \notin held /\ to \in held /\ ~lock /\ lock' = TRUE
             \/ from \in held /\ to \notin held /\ lock' = FALSE
  PROVE  MutualExclusion'
<1>1. \A s \in Threads : pc'[s] = IF s = t THEN to ELSE pc[s]
  BY DEF Goto, TypeOK
<1>2. pc[t] = from
  BY DEF Goto
<1> QED
  BY <1>1, <1>2 DEF MutualExclusion, Holders, TypeOK
-----------------------------------------------------------------------------
\* The queue starts empty and unlocked.
LEMMA InitIInv == Init => IInv
<1> SUFFICES ASSUME Init PROVE IInv
  OBVIOUS
<1> USE QueueMaxAssumption
<1>1. SlotOwners = {} /\ MessageOwners = {} /\ Holders = {}
  BY DEF Init, SlotOwners, MessageOwners, Holders, Threads
<1>2. TypeOK
  <2>1. /\ pc \in [Threads -> {"idle"} \union AddPc \union PollPc]
        /\ \A t \in Threads : pc[t] = "idle"
    BY DEF Init
  <2>2. \A t \in Threads : pc[t] \notin AddPc \union PollPc
    BY <2>1 DEF AddPc, PollPc
  <2>3. /\ messages \in 0 .. MESSAGEQUEMAX /\ writePosition \in 0 .. MESSAGEQUEMAX
        /\ readPosition \in 0 .. MESSAGEQUEMAX /\ message_sem \in 0 .. MESSAGEQUEMAX
        /\ space_sem \in 0 .. MESSAGEQUEMAX
    BY DEF Init
  <2>4. /\ \A p \in Producers : pc[p] \notin PollPc
        /\ \A c \in Consumers : pc[c] \notin AddPc
    BY <2>2 DEF Threads
  <2> QED
    BY <2>1, <2>3, <2>4 DEF Init, TypeOK
<1>3. SlotsAccounted
  BY <1>1, FS_EmptySet DEF Init, SlotsAccounted
<1> QED
  BY <1>1, <1>2, <1>3 DEF Init, IInv, MutualExclusion, RingConsistent, DownIsQuiet

\* The calls and the steps before and after the bodies: the ring is untouched.
LEMMA OutsideBody ==
  ASSUME IInv, NEW t \in Threads,
         \/ t \in Producers /\ (AddWait(t) \/ AddLock(t) \/ AddUnlock(t)
                                 \/ \E m \in Message : AddCall(t, m))
         \/ t \in Consumers /\ (PollWait(t) \/ PollLock(t) \/ PollUnlock(t) \/ PollCall(t))
  PROVE  IInv'
<1> USE QueueMaxAssumption, ThreadsAssumption
<1>1. up /\ up' = up /\ UNCHANGED ring
  BY DEF IInv, DownIsQuiet, Quiet, Threads, Goto,
     AddWait, AddLock, AddUnlock, AddCall, PollWait, PollLock, PollUnlock, PollCall
<1>2. MutualExclusion'
  BY MutexAfterMove DEF IInv, TypeOK,
     AddWait, AddLock, AddUnlock, AddCall, PollWait, PollLock, PollUnlock, PollCall
<1>3. SlotsAccounted'
  <2>1. CASE t \in Producers /\ (AddWait(t) \/ AddLock(t) \/ AddUnlock(t)
                                 \/ \E m \in Message : AddCall(t, m))
    <3>1. t \notin MessageOwners /\ t \notin Consumers
      BY <2>1 DEF MessageOwners
    <3>2. Cardinality(MessageOwners') = Cardinality(MessageOwners) /\ message_sem' = message_sem
      BY <2>1, <3>1, OwnersCount DEF IInv, AddWait, AddLock, AddUnlock, AddCall, sems
    <3>3. space_sem' + Cardinality(SlotOwners') = space_sem + Cardinality(SlotOwners)
      BY <2>1, OwnersCount, OwnersFinite
      DEF IInv, TypeOK, SlotOwners, Goto, AddWait, AddLock, AddUnlock, AddCall, sems
    <3> QED
      BY <1>1, <3>2, <3>3 DEF IInv, SlotsAccounted, ring
  <2>2. CASE t \in Consumers /\ (PollWait(t) \/ PollLock(t) \/ PollUnlock(t) \/ PollCall(t))
    <3>1. t \notin SlotOwners /\ t \notin Producers
      BY <2>2 DEF SlotOwners
    <3>2. Cardinality(SlotOwners') = Cardinality(SlotOwners) /\ space_sem' = space_sem
      BY <2>2, <3>1, OwnersCount DEF IInv, PollWait, PollLock, PollUnlock, PollCall, sems
    <3>3. message_sem' + Cardinality(MessageOwners') = message_sem + Cardinality(MessageOwners)
      BY <2>2, OwnersCount, OwnersFinite
      DEF IInv, TypeOK, MessageOwners, Goto, PollWait, PollLock, PollUnlock, PollCall, sems
    <3> QED
      BY <1>1, <3>2, <3>3 DEF IInv, SlotsAccounted, ring
  <2> QED
    BY <2>1, <2>2
<1>4. TypeOK'
  <2>1. /\ pc' \in [Threads -> {"idle"} \union AddPc \union PollPc]
        /\ \A p \in Producers : pc'[p] \notin PollPc
        /\ \A c \in Consumers : pc'[c] \notin AddPc
    BY DEF IInv, TypeOK, Goto, AddPc, PollPc, Threads,
       AddWait, AddLock, AddUnlock, AddCall, PollWait, PollLock, PollUnlock, PollCall
  <2>2. message_sem' \in 0 .. MESSAGEQUEMAX /\ space_sem' \in 0 .. MESSAGEQUEMAX
    BY DEF IInv, TypeOK, sems,
       AddWait, AddLock, AddUnlock, AddCall, PollWait, PollLock, PollUnlock, PollCall
  <2>3. lock' \in BOOLEAN /\ msg' \in [Threads -> Message]
    BY DEF IInv, TypeOK,
       AddWait, AddLock, AddUnlock, AddCall, PollWait, PollLock, PollUnlock, PollCall
  <2> QED
    BY <1>1, <2>1, <2>2, <2>3 DEF IInv, TypeOK, ring
<1> QED
  BY <1>1, <1>2, <1>3, <1>4 DEF IInv, RingConsistent, DownIsQuiet, ring

\* The body of add fills a free slot: the branch that drops is out of reach.
LEMMA AddBodyIInv ==
  ASSUME IInv, NEW p \in Producers, AddBody(p)
  PROVE  IInv'
<1> USE QueueMaxAssumption, ThreadsAssumption
<1>1. messages < MESSAGEQUEMAX /\ p \in Threads /\ p \notin Consumers
  BY BodyFindsToken DEF AddBody, Goto, NeverDrops, Threads
<1>2. up /\ up' = up
  BY <1>1 DEF AddBody, Goto, IInv, DownIsQuiet, Quiet
<1>3. MutualExclusion'
  BY <1>1, MutexAfterMove DEF IInv, AddBody
<1>4. /\ Wrap(writePosition) \in 0 .. MESSAGEQUEMAX - 1
      /\ writePosition' = Wrap(writePosition) + 1
      /\ messages' = messages + 1
      /\ message_sem' = message_sem + 1
      /\ UNCHANGED <<readPosition, lock, space_sem, msg>>
      /\ queue' = [queue EXCEPT ![Wrap(writePosition)] = msg[p]]
  BY <1>1 DEF AddBody, IInv, TypeOK, Wrap
<1>5. /\ Cardinality(SlotOwners') = Cardinality(SlotOwners) - 1
      /\ Cardinality(MessageOwners') = Cardinality(MessageOwners)
  <2>1. p \in SlotOwners /\ p \notin MessageOwners
    BY <1>1 DEF AddBody, Goto, SlotOwners, MessageOwners
  <2>2. Goto(p, "add_body", "add_unlock") /\ TypeOK
    BY DEF AddBody, IInv
  <2> QED
    BY <1>1, <2>1, <2>2, OwnersCount
<1>6. SlotsAccounted'
  <2>1. /\ space_sem + Cardinality(SlotOwners) + messages = MESSAGEQUEMAX
        /\ message_sem + Cardinality(MessageOwners) = messages
    BY <1>2 DEF IInv, SlotsAccounted
  <2>2. space_sem \in Nat /\ message_sem \in Nat /\ messages \in Nat
    BY DEF IInv, TypeOK
  <2> QED
    BY <1>4, <1>5, <2>1, <2>2, OwnersFinite DEF SlotsAccounted
<1>7. TypeOK'
  <2>1. /\ pc' \in [Threads -> {"idle"} \union AddPc \union PollPc]
        /\ \A q \in Producers : pc'[q] \notin PollPc
        /\ \A c \in Consumers : pc'[c] \notin AddPc
    BY <1>1 DEF IInv, TypeOK, Goto, AddPc, PollPc, Threads, AddBody
  <2>2. message_sem + Cardinality(MessageOwners) = messages
    BY <1>2 DEF IInv, SlotsAccounted
  <2>3. message_sem' \in 0 .. MESSAGEQUEMAX
    BY <1>1, <1>4, <2>2, OwnersFinite DEF IInv, TypeOK
  <2>4. queue' \in [0 .. MESSAGEQUEMAX - 1 -> Message]
    BY <1>1, <1>4 DEF IInv, TypeOK
  <2> QED
    BY <1>1, <1>2, <1>4, <2>1, <2>3, <2>4 DEF IInv, TypeOK
<1>8. RingConsistent'
  BY <1>1, <1>2, <1>4 DEF IInv, TypeOK, RingConsistent, Wrap
<1> QED
  BY <1>2, <1>3, <1>6, <1>7, <1>8 DEF IInv, DownIsQuiet

\* The body of poll reads a slot that holds a message and gives the slot back.
LEMMA PollBodyIInv ==
  ASSUME IInv, NEW c \in Consumers, PollBody(c)
  PROVE  IInv'
<1> USE QueueMaxAssumption, ThreadsAssumption
<1>1. messages > 0 /\ c \in Threads /\ c \notin Producers
  BY BodyFindsToken DEF PollBody, Goto, PollFindsMessage, Threads
<1>2. up /\ up' = up
  BY <1>1 DEF PollBody, Goto, IInv, DownIsQuiet, Quiet
<1>3. MutualExclusion'
  BY <1>1, MutexAfterMove DEF IInv, PollBody
<1>4. /\ Wrap(readPosition) \in 0 .. MESSAGEQUEMAX - 1
      /\ readPosition' = Wrap(readPosition) + 1
      /\ messages' = messages - 1
      /\ space_sem' = space_sem + 1
      /\ UNCHANGED <<queue, writePosition, lock, message_sem>>
      /\ msg' = [msg EXCEPT ![c] = queue[Wrap(readPosition)]]
  BY <1>1 DEF PollBody, IInv, TypeOK, Wrap
<1>5. /\ Cardinality(MessageOwners') = Cardinality(MessageOwners) - 1
      /\ Cardinality(SlotOwners') = Cardinality(SlotOwners)
  <2>1. c \in MessageOwners /\ c \notin SlotOwners
    BY <1>1 DEF PollBody, Goto, SlotOwners, MessageOwners
  <2>2. Goto(c, "poll_body", "poll_unlock") /\ TypeOK
    BY DEF PollBody, IInv
  <2> QED
    BY <1>1, <2>1, <2>2, OwnersCount
<1>6. SlotsAccounted'
  <2>1. /\ space_sem + Cardinality(SlotOwners) + messages = MESSAGEQUEMAX
        /\ message_sem + Cardinality(MessageOwners) = messages
    BY <1>2 DEF IInv, SlotsAccounted
  <2>2. space_sem \in Nat /\ message_sem \in Nat /\ messages \in Nat
    BY DEF IInv, TypeOK
  <2> QED
    BY <1>4, <1>5, <2>1, <2>2, OwnersFinite DEF SlotsAccounted
<1>7. TypeOK'
  <2>1. /\ pc' \in [Threads -> {"idle"} \union AddPc \union PollPc]
        /\ \A p \in Producers : pc'[p] \notin PollPc
        /\ \A d \in Consumers : pc'[d] \notin AddPc
    BY <1>1 DEF IInv, TypeOK, Goto, AddPc, PollPc, Threads, PollBody
  <2>2. space_sem + Cardinality(SlotOwners) + messages = MESSAGEQUEMAX
    BY <1>2 DEF IInv, SlotsAccounted
  <2>3. space_sem' \in 0 .. MESSAGEQUEMAX
    BY <1>1, <1>4, <2>2, OwnersFinite DEF IInv, TypeOK
  <2>4. msg' \in [Threads -> Message]
    BY <1>1, <1>4 DEF IInv, TypeOK
  <2> QED
    BY <1>1, <1>2, <1>4, <2>1, <2>3, <2>4 DEF IInv, TypeOK
<1>8. RingConsistent'
  BY <1>1, <1>2, <1>4 DEF IInv, TypeOK, RingConsistent, Wrap
<1> QED
  BY <1>2, <1>3, <1>6, <1>7, <1>8 DEF IInv, DownIsQuiet

\* Taking the queue down and up again, which only happens between connections.
LEMMA UpDownIInv ==
  ASSUME IInv, InitQueue \/ DeInitQueue
  PROVE  IInv'
<1> USE QueueMaxAssumption
<1>1. CASE InitQueue
  <2>1. Quiet /\ pc' = pc
    BY <1>1 DEF InitQueue, IInv, DownIsQuiet, threads
  <2>2. SlotOwners' = {} /\ MessageOwners' = {} /\ Holders' = {}
    BY <2>1 DEF SlotOwners, MessageOwners, Holders, Quiet, Threads
  <2>3. TypeOK'
    <3>1. /\ messages' \in 0 .. MESSAGEQUEMAX /\ writePosition' \in 0 .. MESSAGEQUEMAX
          /\ readPosition' \in 0 .. MESSAGEQUEMAX /\ message_sem' \in 0 .. MESSAGEQUEMAX
          /\ space_sem' \in 0 .. MESSAGEQUEMAX
      BY <1>1 DEF InitQueue
    <3>2. UNCHANGED <<queue, pc, msg>> /\ lock' = FALSE /\ up' = TRUE
      BY <1>1 DEF InitQueue, threads
    <3> QED
      BY <3>1, <3>2 DEF IInv, TypeOK
  <2>4. SlotsAccounted'
    BY <1>1, <2>2, FS_EmptySet DEF InitQueue, SlotsAccounted
  <2> QED
    BY <1>1, <2>2, <2>3, <2>4
    DEF InitQueue, IInv, MutualExclusion, RingConsistent, DownIsQuiet
<1>2. CASE DeInitQueue
  <2>1. Quiet' /\ Holders' = Holders /\ ~up' /\ messages' = 0 /\ lock' = lock
    BY <1>2 DEF DeInitQueue, Quiet, Holders, threads
  <2>2. TypeOK'
    <3>1. messages' \in 0 .. MESSAGEQUEMAX /\ readPosition' \in 0 .. MESSAGEQUEMAX
      BY <1>2 DEF DeInitQueue, IInv, TypeOK
    <3>2. UNCHANGED <<queue, writePosition, lock, message_sem, space_sem, pc, msg>> /\ ~up'
      BY <1>2 DEF DeInitQueue, threads, sems
    <3> QED
      BY <1>2, <3>1, <3>2 DEF IInv, TypeOK, DeInitQueue
  <2> QED
    BY <2>1, <2>2 DEF IInv, MutualExclusion, SlotsAccounted, RingConsistent, DownIsQuiet
<1> QED
  BY <1>1, <1>2

\* Every step of a thread, and the start and end of a connection, keep it.
LEMMA NextIInv == IInv /\ [Next]_vars => IInv'
<1> SUFFICES ASSUME IInv, [Next]_vars PROVE IInv'
  OBVIOUS
<1>1. CASE InitQueue \/ DeInitQueue
  BY <1>1, UpDownIInv
<1>2. ASSUME NEW p \in Producers, AddStep(p) \/ \E m \in Message : AddCall(p, m)
      PROVE  IInv'
  <2>1. p \in Threads
    BY DEF Threads
  <2> QED
    BY <1>2, <2>1, AddBodyIInv, OutsideBody DEF AddStep
<1>3. ASSUME NEW c \in Consumers, PollCall(c) \/ PollStep(c)
      PROVE  IInv'
  <2>1. c \in Threads
    BY DEF Threads
  <2> QED
    BY <1>3, <2>1, PollBodyIInv, OutsideBody DEF PollStep
<1>4. CASE UNCHANGED vars
  BY <1>4 DEF vars, IInv, TypeOK, MutualExclusion, SlotsAccounted, RingConsistent,
     DownIsQuiet, Holders, SlotOwners, MessageOwners, Quiet
<1> QED
  BY <1>1, <1>2, <1>3, <1>4 DEF Next

\* The inductive invariant holds in every reachable state of every instance.
THEOREM Invariance == Spec => []IInv
<1> QED
  BY InitIInv, NextIInv, PTL DEF Spec

\* Types, among them that no position ever passes the end of the ring.
THEOREM TypeCorrect == Spec => []TypeOK
<1>1. IInv => TypeOK
  BY DEF IInv
<1> QED
  BY <1>1, Invariance, PTL

\* The mutex keeps the bodies of add and poll apart.
THEOREM MutualExclusionHolds == Spec => []MutualExclusion
<1>1. IInv => MutualExclusion
  BY DEF IInv
<1> QED
  BY <1>1, Invariance, PTL

\* The two semaphores and the count always agree.
THEOREM SlotsAccountedHolds == Spec => []SlotsAccounted
<1>1. IInv => SlotsAccounted
  BY DEF IInv
<1> QED
  BY <1>1, Invariance, PTL

\* "This should never happen" is right: add never frees the message it was given.
THEOREM NeverDropsHolds == Spec => []NeverDrops
<1> QED
  BY BodyFindsToken, Invariance, PTL

\* poll needs no test for an empty ring.
THEOREM PollFindsMessageHolds == Spec => []PollFindsMessage
<1> QED
  BY BodyFindsToken, Invariance, PTL

\* The lazily wrapped positions never drift from the count.
THEOREM RingConsistentHolds == Spec => []RingConsistent
<1>1. IInv => RingConsistent
  BY DEF IInv
<1> QED
  BY <1>1, Invariance, PTL

-----------------------------------------------------------------------------
(* The ring implements the bounded queue of BoundedFifo: the body of add   *)
(* appends, the body of poll takes the head, taking the queue down         *)
(* discards, and every other step is a call, a return or a stutter.        *)

Phases == [t \in Threads |-> Phase(t)]

\* A move of one thread changes the abstract phase of that thread only.
LEMMA PhaseAfterMove ==
  ASSUME TypeOK, NEW t \in Threads, NEW from, NEW to, Goto(t, from, to)
  PROVE  Phases' = [Phases EXCEPT ![t] = Phase(t)']
<1>1. \A s \in Threads : s # t => pc'[s] = pc[s]
  BY DEF Goto, TypeOK
<1>2. \A s \in Threads : s # t => Phase(s)' = Phase(s)
  BY <1>1 DEF Phase
<1> QED
  BY <1>2 DEF Phases

\* A stretch of the ring is a sequence of messages, as long as it is said to be.
LEMMA StretchType ==
  ASSUME NEW q \in [0 .. MESSAGEQUEMAX - 1 -> Message],
         NEW n \in 0 .. MESSAGEQUEMAX, NEW r \in 0 .. MESSAGEQUEMAX
  PROVE  LET stretch == [i \in 1 .. n |-> q[Wrap(r + i - 1)]]
         IN  stretch \in Seq(Message) /\ Len(stretch) = n
<1> USE QueueMaxAssumption
<1>1. \A i \in 1 .. n : Wrap(r + i - 1) \in 0 .. MESSAGEQUEMAX - 1
  BY DEF Wrap
<1> QED
  BY <1>1

\* The body of add appends to the contents.
LEMMA AddAppends ==
  ASSUME IInv, NEW p \in Producers, AddBody(p)
  PROVE  Contents' = Append(Contents, msg[p])
<1> USE QueueMaxAssumption
<1>1. messages < MESSAGEQUEMAX /\ up
  BY BodyFindsToken DEF AddBody, Goto, NeverDrops, IInv, DownIsQuiet, Quiet, Threads
<1>2. /\ queue' = [queue EXCEPT ![Wrap(writePosition)] = msg[p]]
      /\ messages' = messages + 1
      /\ readPosition' = readPosition
  BY <1>1 DEF AddBody, IInv, TypeOK
<1>3. Wrap(writePosition) = Wrap(readPosition + messages)
  BY <1>1 DEF Wrap, IInv, TypeOK, RingConsistent
<1>4. \A i \in 1 .. messages : /\ Wrap(readPosition + i - 1) \in 0 .. MESSAGEQUEMAX - 1
                               /\ Wrap(readPosition + i - 1) # Wrap(readPosition + messages)
  BY <1>1 DEF Wrap, IInv, TypeOK
<1>5. \A i \in 1 .. messages :
        queue'[Wrap(readPosition + i - 1)] = queue[Wrap(readPosition + i - 1)]
  BY <1>2, <1>3, <1>4 DEF IInv, TypeOK
<1>6. Wrap(readPosition + messages) \in 0 .. MESSAGEQUEMAX - 1
  BY <1>1 DEF Wrap, IInv, TypeOK
<1>7. queue'[Wrap(readPosition + (messages + 1) - 1)] = msg[p]
  BY <1>2, <1>3, <1>6 DEF IInv, TypeOK
<1>8. /\ Contents' \in Seq(Message) /\ Len(Contents') = messages + 1
      /\ Contents \in Seq(Message) /\ Len(Contents) = messages
  <2>1. /\ queue' \in [0 .. MESSAGEQUEMAX - 1 -> Message]
        /\ messages' \in 0 .. MESSAGEQUEMAX /\ readPosition' \in 0 .. MESSAGEQUEMAX
    BY AddBodyIInv DEF IInv, TypeOK
  <2>2. Contents' \in Seq(Message) /\ Len(Contents') = messages'
    BY <2>1, StretchType DEF Contents
  <2>3. Contents \in Seq(Message) /\ Len(Contents) = messages
    BY StretchType DEF Contents, IInv, TypeOK
  <2> QED
    BY <1>2, <2>2, <2>3
<1>9. \A i \in 1 .. messages + 1 :
        Contents'[i] = IF i = messages + 1 THEN msg[p] ELSE Contents[i]
  <2>1. messages \in Nat
    BY DEF IInv, TypeOK
  <2>2. \A i \in 1 .. messages' : Contents'[i] = queue'[Wrap(readPosition' + i - 1)]
    BY DEF Contents, Wrap
  <2>3. \A i \in 1 .. messages : Contents[i] = queue[Wrap(readPosition + i - 1)]
    BY DEF Contents
  <2>4. \A i \in 1 .. messages + 1 : Contents'[i] = queue'[Wrap(readPosition + i - 1)]
    BY <1>2, <2>2
  <2>5. ASSUME NEW i \in 1 .. messages + 1
        PROVE  Contents'[i] = IF i = messages + 1 THEN msg[p] ELSE Contents[i]
    <3>1. CASE i = messages + 1
      BY <3>1, <1>7, <2>4
    <3>2. CASE i # messages + 1
      <4>1. i \in 1 .. messages
        BY <3>2, <2>1
      <4> QED
        BY <3>2, <4>1, <1>5, <2>3, <2>4
    <3> QED
      BY <3>1, <3>2
  <2> QED
    BY <2>5
<1>10. msg[p] \in Message
  BY DEF IInv, TypeOK, Threads
<1>11. Append(Contents, msg[p]) \in Seq(Message) /\ Len(Append(Contents, msg[p])) = messages + 1
  BY <1>8, <1>10
<1>12. \A i \in 1 .. messages + 1 : Contents'[i] = Append(Contents, msg[p])[i]
  BY <1>8, <1>9, <1>10, AppendProperties
<1> QED
  BY <1>8, <1>11, <1>12, SeqEqual

\* The body of poll takes the head of the contents and leaves the tail.
LEMMA PollTakesHead ==
  ASSUME IInv, NEW c \in Consumers, PollBody(c)
  PROVE  /\ Contents # << >>
         /\ Contents' = Tail(Contents)
         /\ msg' = [msg EXCEPT ![c] = Head(Contents)]
<1> USE QueueMaxAssumption
<1>1. messages > 0 /\ messages \in Nat
  BY BodyFindsToken DEF PollBody, Goto, PollFindsMessage, IInv, TypeOK
<1>2. /\ queue' = queue
      /\ messages' = messages - 1
      /\ readPosition' = Wrap(readPosition) + 1
      /\ msg' = [msg EXCEPT ![c] = queue[Wrap(readPosition)]]
  BY DEF PollBody
<1>3. /\ Contents' \in Seq(Message) /\ Len(Contents') = messages - 1
      /\ Contents \in Seq(Message) /\ Len(Contents) = messages
  <2>1. /\ queue' \in [0 .. MESSAGEQUEMAX - 1 -> Message]
        /\ messages' \in 0 .. MESSAGEQUEMAX /\ readPosition' \in 0 .. MESSAGEQUEMAX
    BY PollBodyIInv DEF IInv, TypeOK
  <2>2. Contents' \in Seq(Message) /\ Len(Contents') = messages'
    BY <2>1, StretchType DEF Contents
  <2>3. Contents \in Seq(Message) /\ Len(Contents) = messages
    BY StretchType DEF Contents, IInv, TypeOK
  <2> QED
    BY <1>2, <2>2, <2>3
<1>4. \A i \in 1 .. messages - 1 :
        Wrap(readPosition' + i - 1) = Wrap(readPosition + (i + 1) - 1)
  BY <1>2 DEF Wrap, IInv, TypeOK
<1>5. \A i \in 1 .. messages - 1 : Contents'[i] = Contents[i + 1]
  BY <1>1, <1>2, <1>4 DEF Contents
<1>6. Contents # << >> /\ Head(Contents) = Contents[1]
  BY <1>1, <1>3
<1>7. Contents[1] = queue[Wrap(readPosition)]
  BY <1>1 DEF Contents, IInv, TypeOK
<1>8. /\ Tail(Contents) \in Seq(Message) /\ Len(Tail(Contents)) = messages - 1
      /\ \A i \in 1 .. messages - 1 : Tail(Contents)[i] = Contents[i + 1]
  BY <1>1, <1>3, <1>6, HeadTailProperties
<1>9. Contents' = Tail(Contents)
  BY <1>3, <1>5, <1>8, SeqEqual
<1> QED
  BY <1>2, <1>6, <1>7, <1>9

\* A step that leaves the ring and the messages alone, and only moves a thread
\* between two places of one abstract phase, is a stutter of the abstract queue.
LEMMA SamePhase ==
  ASSUME TypeOK, NEW t \in Threads, NEW from, NEW to, Goto(t, from, to),
         UNCHANGED <<queue, messages, readPosition, msg>>,
         Phase(t)' = Phase(t)
  PROVE  UNCHANGED Fifo!fifoVars
<1>1. Phases' = Phases
  BY PhaseAfterMove DEF Phases
<1>2. Contents' = Contents
  BY DEF Contents
<1> QED
  BY <1>1, <1>2 DEF Fifo!fifoVars, Phases

\* A step of a thread that adds is a call, the append, a return or a stutter.
LEMMA AddRefines ==
  ASSUME IInv, NEW p \in Producers, AddStep(p) \/ \E m \in Message : AddCall(p, m)
  PROVE  [Fifo!FifoNext]_(Fifo!fifoVars)
<1>1. p \in Threads /\ p \in Fifo!Threads /\ TypeOK
  BY DEF Threads, Fifo!Threads, IInv
<1>2. ASSUME NEW m \in Message, AddCall(p, m)
      PROVE  Fifo!AddCall(p, m)
  <2>1. Phases' = [Phases EXCEPT ![p] = "called"] /\ Phases[p] = "idle"
    BY <1>1, <1>2, PhaseAfterMove DEF AddCall, Goto, Phase, Phases, TypeOK
  <2>2. Contents' = Contents /\ msg' = [msg EXCEPT ![p] = m]
    BY <1>2 DEF AddCall, Contents, ring
  <2> QED
    BY <2>1, <2>2 DEF Fifo!AddCall, Phases
<1>3. CASE AddWait(p)
  BY <1>1, <1>3, SamePhase DEF AddWait, ring, Phase, Goto, TypeOK
<1>4. CASE AddLock(p)
  BY <1>1, <1>4, SamePhase DEF AddLock, ring, Phase, Goto, TypeOK
<1>5. ASSUME AddBody(p)
      PROVE  Fifo!AddEffect(p)
  <2>1. Phases' = [Phases EXCEPT ![p] = "done"] /\ Phases[p] = "called"
    BY <1>1, <1>5, PhaseAfterMove DEF AddBody, Goto, Phase, Phases, TypeOK
  <2>2. Len(Contents) < MESSAGEQUEMAX
    BY <1>1, <1>5, BodyFindsToken, StretchType DEF Contents, TypeOK, AddBody, Goto, NeverDrops
  <2>3. Contents' = Append(Contents, msg[p]) /\ msg' = msg
    BY <1>5, AddAppends DEF AddBody
  <2> QED
    BY <2>1, <2>2, <2>3 DEF Fifo!AddEffect, Phases
<1>6. ASSUME AddUnlock(p)
      PROVE  Fifo!Return(p)
  <2>1. Phases' = [Phases EXCEPT ![p] = "idle"] /\ Phases[p] = "done"
    BY <1>1, <1>6, PhaseAfterMove DEF AddUnlock, Goto, Phase, Phases, TypeOK
  <2>2. Contents' = Contents /\ msg' = msg
    BY <1>6 DEF AddUnlock, Contents, ring
  <2> QED
    BY <2>1, <2>2 DEF Fifo!Return, Phases
<1> QED
  BY <1>1, <1>2, <1>3, <1>4, <1>5, <1>6 DEF AddStep, Fifo!FifoNext

\* A step of a thread that polls is a call, the taking, a return or a stutter.
LEMMA PollRefines ==
  ASSUME IInv, NEW c \in Consumers, PollCall(c) \/ PollStep(c)
  PROVE  [Fifo!FifoNext]_(Fifo!fifoVars)
<1>1. c \in Threads /\ c \in Fifo!Threads /\ TypeOK
  BY DEF Threads, Fifo!Threads, IInv
<1>2. ASSUME PollCall(c)
      PROVE  Fifo!PollCall(c)
  <2>1. Phases' = [Phases EXCEPT ![c] = "called"] /\ Phases[c] = "idle"
    BY <1>1, <1>2, PhaseAfterMove DEF PollCall, Goto, Phase, Phases, TypeOK
  <2>2. Contents' = Contents /\ msg' = msg
    BY <1>2 DEF PollCall, Contents, ring
  <2> QED
    BY <2>1, <2>2 DEF Fifo!PollCall, Phases
<1>3. CASE PollWait(c)
  BY <1>1, <1>3, SamePhase DEF PollWait, ring, Phase, Goto, TypeOK
<1>4. CASE PollLock(c)
  BY <1>1, <1>4, SamePhase DEF PollLock, ring, Phase, Goto, TypeOK
<1>5. ASSUME PollBody(c)
      PROVE  Fifo!PollEffect(c)
  <2>1. Phases' = [Phases EXCEPT ![c] = "done"] /\ Phases[c] = "called"
    BY <1>1, <1>5, PhaseAfterMove DEF PollBody, Goto, Phase, Phases, TypeOK
  <2> QED
    BY <1>5, <2>1, PollTakesHead DEF Fifo!PollEffect, Phases
<1>6. ASSUME PollUnlock(c)
      PROVE  Fifo!Return(c)
  <2>1. Phases' = [Phases EXCEPT ![c] = "idle"] /\ Phases[c] = "done"
    BY <1>1, <1>6, PhaseAfterMove DEF PollUnlock, Goto, Phase, Phases, TypeOK
  <2>2. Contents' = Contents /\ msg' = msg
    BY <1>6 DEF PollUnlock, Contents, ring
  <2> QED
    BY <2>1, <2>2 DEF Fifo!Return, Phases
<1> QED
  BY <1>1, <1>2, <1>3, <1>4, <1>5, <1>6 DEF PollStep, Fifo!FifoNext

\* Taking the queue down discards the contents; bringing it up is a stutter.
LEMMA UpDownRefines ==
  ASSUME IInv, InitQueue \/ DeInitQueue
  PROVE  [Fifo!FifoNext]_(Fifo!fifoVars)
<1>1. Phases' = Phases /\ msg' = msg
  BY DEF InitQueue, DeInitQueue, threads, Phases, Phase
<1>2. messages' = 0
  BY DEF InitQueue, DeInitQueue
<1>3. Contents' = << >>
  BY <1>2 DEF Contents
<1>4. CASE InitQueue
  <2>1. Contents = << >>
    BY <1>4 DEF InitQueue, IInv, DownIsQuiet, Contents
  <2> QED
    BY <1>1, <1>3, <2>1 DEF Fifo!fifoVars, Phases
<1>5. CASE DeInitQueue
  <2>1. \A t \in Threads : Phases[t] = "idle"
    BY <1>5 DEF DeInitQueue, Quiet, Phases, Phase
  <2>2. Fifo!Discard
    BY <1>1, <1>3, <2>1 DEF Fifo!Discard, Fifo!Threads, Threads, Phases
  <2> QED
    BY <2>2 DEF Fifo!FifoNext
<1> QED
  BY <1>4, <1>5

\* Every behaviour of the ring is a behaviour of the bounded queue: first in,
\* first out, nothing lost, nothing twice, and each call takes effect once.
THEOREM Refinement == Spec => ImplementsFifo
<1>1. Init => Fifo!FifoInit
  <2> SUFFICES ASSUME Init PROVE Fifo!FifoInit
    OBVIOUS
  <2>1. Contents = << >>
    BY DEF Init, Contents
  <2>2. Phases = [t \in Threads |-> "idle"] /\ msg \in [Threads -> Message]
    BY DEF Init, Phases, Phase
  <2> QED
    BY <2>1, <2>2 DEF Fifo!FifoInit, Fifo!Threads, Threads, Phases
<1>2. IInv /\ [Next]_vars => [Fifo!FifoNext]_(Fifo!fifoVars)
  <2> SUFFICES ASSUME IInv, [Next]_vars PROVE [Fifo!FifoNext]_(Fifo!fifoVars)
    OBVIOUS
  <2>1. CASE UNCHANGED vars
    BY <2>1 DEF vars, Fifo!fifoVars, Contents, Phase
  <2> QED
    BY <2>1, AddRefines, PollRefines, UpDownRefines DEF Next
<1> QED
  BY <1>1, <1>2, Invariance, PTL DEF Spec, ImplementsFifo, Fifo!FifoSpec
=============================================================================
