---------------------------- MODULE MessageQueue ----------------------------
(***************************************************************************)
(* The ring buffer between the threads of AAP-Bridge.  sendqueue.c and     *)
(* receivequeue.c hold two copies of the same code; this module is one     *)
(* queue with any number of threads adding to it and polling it.           *)
(*                                                                         *)
(* A call is split where another thread can run: before sem_wait returns,  *)
(* before the mutex is obtained, between the body and the unlock.  The     *)
(* body of a call runs under the mutex and is one step.                    *)
(***************************************************************************)
EXTENDS Naturals, Sequences, FiniteSets

CONSTANTS MESSAGEQUEMAX,  \* capacity of the ring
          Producers,      \* threads that add messages
          Consumers,      \* threads that poll messages
          Message         \* what is queued, the NULL pointer included

ASSUME QueueMaxAssumption == MESSAGEQUEMAX \in Nat \ {0}
ASSUME ThreadsAssumption ==
  /\ IsFiniteSet(Producers)
  /\ IsFiniteSet(Consumers)
  /\ Producers \intersect Consumers = {}

Threads == Producers \union Consumers

VARIABLES queue,          \* the slots, 0 .. MESSAGEQUEMAX-1
          messages,       \* number of messages in the ring
          writePosition,  \* next slot to write, wrapped only when it is used
          readPosition,   \* next slot to read, wrapped only when it is used
          lock,           \* is the mutex held?
          message_sem,    \* semaphore: messages to poll
          space_sem,      \* semaphore: free slots
          up,             \* between the initialisation and the deinitialisation
          pc,             \* where each thread is in its call
          msg             \* the message a thread adds, or the last one it polled

ring    == <<queue, messages, writePosition, readPosition>>
sems    == <<message_sem, space_sem>>
threads == <<pc, msg>>
vars    == <<queue, messages, writePosition, readPosition, lock,
             message_sem, space_sem, up, pc, msg>>

AddPc  == {"add_wait", "add_lock", "add_body", "add_unlock"}
PollPc == {"poll_wait", "poll_lock", "poll_body", "poll_unlock"}

\* Slot of a position that is not yet wrapped: "if (position >= MAX) position -= MAX".
Wrap(position) ==
  IF position >= MESSAGEQUEMAX THEN position - MESSAGEQUEMAX ELSE position

Goto(t, from, to) ==
  /\ pc[t] = from
  /\ pc' = [pc EXCEPT ![t] = to]

Quiet == \A t \in Threads : pc[t] = "idle"
-----------------------------------------------------------------------------
Init ==
  /\ queue \in [0 .. MESSAGEQUEMAX - 1 -> Message]
  /\ messages = 0
  /\ writePosition = 0
  /\ readPosition = 0
  /\ lock = FALSE
  /\ message_sem = 0
  /\ space_sem = MESSAGEQUEMAX
  /\ up = TRUE
  /\ pc = [t \in Threads |-> "idle"]
  /\ msg \in [Threads -> Message]

\* MUTANT of InitQueue: message_sem keeps its count.
InitQueueKeepsSem ==
  /\ ~up /\ up' = TRUE
  /\ messages' = 0 /\ writePosition' = 0 /\ readPosition' = 0
  /\ space_sem' = MESSAGEQUEMAX
  /\ lock' = FALSE
  /\ UNCHANGED <<queue, message_sem, threads>>

\* initSendQueue for the next connection; the static slots keep what they held.
InitQueue ==
  /\ ~up
  /\ messages' = 0
  /\ writePosition' = 0
  /\ readPosition' = 0
  /\ message_sem' = 0
  /\ space_sem' = MESSAGEQUEMAX
  /\ lock' = FALSE
  /\ up' = TRUE
  /\ UNCHANGED <<queue, threads>>

\* deInitSendQueue: what is left is read out and freed.  The callers have
\* stopped: deInitServer has joined them before.
DeInitQueue ==
  /\ up
  /\ Quiet
  /\ readPosition' = IF messages = 0 \/ readPosition + messages <= MESSAGEQUEMAX
                     THEN readPosition + messages
                     ELSE readPosition + messages - MESSAGEQUEMAX
  /\ messages' = 0
  /\ up' = FALSE
  /\ UNCHANGED <<queue, writePosition, lock, sems, threads>>

AddCall(p, m) ==
  /\ up
  /\ Goto(p, "idle", "add_wait")
  /\ msg' = [msg EXCEPT ![p] = m]
  /\ UNCHANGED <<ring, lock, sems, up>>

\* MUTANT of AddWait: no wait for a free slot.
AddNoWait(p) ==
  /\ Goto(p, "add_wait", "add_lock")
  /\ UNCHANGED <<ring, lock, sems, up, msg>>

AddWait(p) ==
  /\ Goto(p, "add_wait", "add_lock")
  /\ space_sem > 0
  /\ space_sem' = space_sem - 1
  /\ UNCHANGED <<ring, lock, message_sem, up, msg>>

AddLock(p) ==
  /\ Goto(p, "add_lock", "add_body")
  /\ ~lock
  /\ lock' = TRUE
  /\ UNCHANGED <<ring, sems, up, msg>>

\* MUTANT of AddBody: the message is stored and message_sem is not posted.
AddBodyNoPost(p) ==
  /\ Goto(p, "add_body", "add_unlock")
  /\ messages < MESSAGEQUEMAX
  /\ queue' = [queue EXCEPT ![Wrap(writePosition)] = msg[p]]
  /\ writePosition' = Wrap(writePosition) + 1
  /\ messages' = messages + 1
  /\ UNCHANGED <<readPosition, lock, sems, up, msg>>

\* The wrap of writePosition comes before the test for a full ring; a message
\* that finds the ring full is freed and no semaphore is posted for it.
AddBody(p) ==
  /\ Goto(p, "add_body", "add_unlock")
  /\ IF messages = MESSAGEQUEMAX
     THEN /\ writePosition' = Wrap(writePosition)
          /\ UNCHANGED <<queue, messages, message_sem>>
     ELSE /\ queue' = [queue EXCEPT ![Wrap(writePosition)] = msg[p]]
          /\ writePosition' = Wrap(writePosition) + 1
          /\ messages' = messages + 1
          /\ message_sem' = message_sem + 1
  /\ UNCHANGED <<readPosition, lock, space_sem, up, msg>>

AddUnlock(p) ==
  /\ Goto(p, "add_unlock", "idle")
  /\ lock' = FALSE
  /\ UNCHANGED <<ring, sems, up, msg>>

PollCall(c) ==
  /\ up
  /\ Goto(c, "idle", "poll_wait")
  /\ UNCHANGED <<ring, lock, sems, up, msg>>

PollWait(c) ==
  /\ Goto(c, "poll_wait", "poll_lock")
  /\ message_sem > 0
  /\ message_sem' = message_sem - 1
  /\ UNCHANGED <<ring, lock, space_sem, up, msg>>

PollLock(c) ==
  /\ Goto(c, "poll_lock", "poll_body")
  /\ ~lock
  /\ lock' = TRUE
  /\ UNCHANGED <<ring, sems, up, msg>>

\* MUTANT of PollBody: the position is advanced before the slot is read.
PollBodyNextSlot(c) ==
  /\ Goto(c, "poll_body", "poll_unlock")
  /\ readPosition' = Wrap(readPosition) + 1
  /\ msg' = [msg EXCEPT ![c] = queue[Wrap(readPosition')]]
  /\ messages' = messages - 1
  /\ space_sem' = space_sem + 1
  /\ UNCHANGED <<queue, writePosition, lock, message_sem, up>>

\* No test for an empty ring here: the semaphore is all that protects the slot.
PollBody(c) ==
  /\ Goto(c, "poll_body", "poll_unlock")
  /\ msg' = [msg EXCEPT ![c] = queue[Wrap(readPosition)]]
  /\ readPosition' = Wrap(readPosition) + 1
  /\ messages' = messages - 1
  /\ space_sem' = space_sem + 1
  /\ UNCHANGED <<queue, writePosition, lock, message_sem, up>>

PollUnlock(c) ==
  /\ Goto(c, "poll_unlock", "idle")
  /\ lock' = FALSE
  /\ UNCHANGED <<ring, sems, up, msg>>

AddStep(p)  == AddWait(p) \/ AddLock(p) \/ AddBody(p) \/ AddUnlock(p)
PollStep(c) == PollWait(c) \/ PollLock(c) \/ PollBody(c) \/ PollUnlock(c)

Next ==
  \/ InitQueue
  \/ DeInitQueue
  \/ \E p \in Producers : AddStep(p) \/ \E m \in Message : AddCall(p, m)
  \/ \E c \in Consumers : PollCall(c) \/ PollStep(c)

Spec == Init /\ [][Next]_vars

\* A thread inside a call is eventually scheduled, and a consumer (the loops of
\* sender() and main()) polls again; nothing makes a producer add.
Fairness ==
  /\ \A p \in Producers : WF_vars(AddStep(p))
  /\ \A c \in Consumers : WF_vars(PollStep(c)) /\ WF_vars(PollCall(c))

FairSpec == Spec /\ Fairness
-----------------------------------------------------------------------------
\* Every variable has its type; positions may rest at MESSAGEQUEMAX, the lazy
\* wrap of add and poll, and never beyond.
TypeOK ==
  /\ queue \in [0 .. MESSAGEQUEMAX - 1 -> Message]
  /\ messages \in 0 .. MESSAGEQUEMAX
  /\ writePosition \in 0 .. MESSAGEQUEMAX
  /\ readPosition \in 0 .. MESSAGEQUEMAX
  /\ lock \in BOOLEAN
  /\ message_sem \in 0 .. MESSAGEQUEMAX
  /\ space_sem \in 0 .. MESSAGEQUEMAX
  /\ up \in BOOLEAN
  /\ pc \in [Threads -> {"idle"} \union AddPc \union PollPc]
  /\ \A p \in Producers : pc[p] \notin PollPc
  /\ \A c \in Consumers : pc[c] \notin AddPc
  /\ msg \in [Threads -> Message]

Holders   == {t \in Threads :
                pc[t] \in {"add_body", "add_unlock", "poll_body", "poll_unlock"}}
SlotOwners == {p \in Producers : pc[p] \in {"add_lock", "add_body"}}
MessageOwners == {c \in Consumers : pc[c] \in {"poll_lock", "poll_body"}}

\* At most one thread runs the body of add or poll, and the mutex is held
\* exactly then: the ring's four variables are never updated by two threads.
MutualExclusion ==
  /\ lock <=> Holders # {}
  /\ \A s, t \in Holders : s = t

\* While the queue is up, every slot is counted once: by space_sem, by a thread
\* that has taken a slot and not yet filled it, or by a queued message; and
\* every queued message by message_sem or by a thread on its way to fetch it.
SlotsAccounted ==
  up => /\ space_sem + Cardinality(SlotOwners) + messages = MESSAGEQUEMAX
        /\ message_sem + Cardinality(MessageOwners) = messages

\* The branch of add that frees the message, "This should never happen", is
\* never taken: a thread in the body of add finds a free slot.
NeverDrops == \A p \in Producers : pc[p] = "add_body" => messages < MESSAGEQUEMAX

\* poll, which does not test for an empty ring, always finds a message: it
\* never returns a stale slot and messages never becomes negative.
PollFindsMessage == \A c \in Consumers : pc[c] = "poll_body" => messages > 0

\* The positions agree with the count in spite of the lazy wrap: writePosition
\* is messages slots after readPosition, modulo the size of the ring.
RingConsistent ==
  up => \/ writePosition = readPosition + messages
        \/ writePosition + MESSAGEQUEMAX = readPosition + messages
-----------------------------------------------------------------------------
\* The messages between readPosition and writePosition, in the order of reading.
Contents == [i \in 1 .. messages |-> queue[Wrap(readPosition + i - 1)]]

Phase(t) ==
  CASE pc[t] = "idle" -> "idle"
    [] pc[t] \in {"add_unlock", "poll_unlock"} -> "done"
    [] OTHER -> "called"

Fifo == INSTANCE BoundedFifo WITH
  Capacity <- MESSAGEQUEMAX,
  fifo <- Contents,
  phase <- [t \in Threads |-> Phase(t)],
  arg <- msg

\* The ring implements the bounded queue: messages come out in the order in
\* which the bodies of add ran, none is lost, doubled or overwritten, and a
\* call takes effect once, in its body, for any interleaving of the threads.
ImplementsFifo == Fifo!FifoSpec

\* No lost wakeup: while messages are queued, some poll returns sooner or later
\* (or the queue is taken down), whatever the threads that add are doing.
QueuedIsPolled == messages > 0 ~> (~up \/ \E c \in Consumers : pc[c] = "poll_unlock")

=============================================================================
