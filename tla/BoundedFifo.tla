---------------------------- MODULE BoundedFifo ----------------------------
(***************************************************************************)
(* What the two message queues of AAP-Bridge promise to the threads that   *)
(* use them: a first-in first-out buffer of bounded capacity whose add and *)
(* poll calls block while the buffer is full, or empty, and take effect at *)
(* one instant between the call and the return.  Nothing is said of how    *)
(* the threads are kept apart; MessageQueue.tla is shown to implement this. *)
(***************************************************************************)
EXTENDS Naturals, Sequences

CONSTANTS Producers,  \* threads that add messages
          Consumers,  \* threads that poll messages
          Message,    \* what travels through the queue, the NULL pointer included
          Capacity    \* number of messages the queue can hold

Threads == Producers \union Consumers

VARIABLES fifo,   \* the messages added and not yet polled, oldest first
          phase,  \* phase[t]: no call, a call that has not taken effect, or one that has
          arg     \* arg[t]: the message t is adding, or the last one it got

fifoVars == <<fifo, phase, arg>>

FifoTypeOK ==
  /\ fifo \in Seq(Message)
  /\ Len(fifo) <= Capacity
  /\ phase \in [Threads -> {"idle", "called", "done"}]
  /\ arg \in [Threads -> Message]

FifoInit ==
  /\ fifo = << >>
  /\ phase = [t \in Threads |-> "idle"]
  /\ arg \in [Threads -> Message]

AddCall(p, m) ==
  /\ phase[p] = "idle"
  /\ phase' = [phase EXCEPT ![p] = "called"]
  /\ arg' = [arg EXCEPT ![p] = m]
  /\ UNCHANGED fifo

AddEffect(p) ==
  /\ phase[p] = "called"
  /\ Len(fifo) < Capacity
  /\ fifo' = Append(fifo, arg[p])
  /\ phase' = [phase EXCEPT ![p] = "done"]
  /\ UNCHANGED arg

PollCall(c) ==
  /\ phase[c] = "idle"
  /\ phase' = [phase EXCEPT ![c] = "called"]
  /\ UNCHANGED <<fifo, arg>>

PollEffect(c) ==
  /\ phase[c] = "called"
  /\ fifo # << >>
  /\ arg' = [arg EXCEPT ![c] = Head(fifo)]
  /\ fifo' = Tail(fifo)
  /\ phase' = [phase EXCEPT ![c] = "done"]

Return(t) ==
  /\ phase[t] = "done"
  /\ phase' = [phase EXCEPT ![t] = "idle"]
  /\ UNCHANGED <<fifo, arg>>

\* The end of a connection: whatever is left is thrown away, and only when
\* no call is in progress.
Discard ==
  /\ \A t \in Threads : phase[t] = "idle"
  /\ fifo' = << >>
  /\ UNCHANGED <<phase, arg>>

FifoNext ==
  \/ \E p \in Producers : AddEffect(p) \/ \E m \in Message : AddCall(p, m)
  \/ \E c \in Consumers : PollCall(c) \/ PollEffect(c)
  \/ \E t \in Threads : Return(t)
  \/ Discard

FifoSpec == FifoInit /\ [][FifoNext]_fifoVars
=============================================================================
