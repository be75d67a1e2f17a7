------------------------------ MODULE LossyFifo ------------------------------
(***************************************************************************)
(* What one direction of a channel promises to its two users: a bounded    *)
(* queue of whole messages.  A write puts its message at the end, possibly *)
(* after throwing away messages from the front, or fails; a read takes the *)
(* front.  Messages are thrown away only inside a write.  A queue whose    *)
(* reader's validation was defeated is broken and promises nothing.        *)
(***************************************************************************)
EXTENDS Naturals, Sequences

CONSTANTS MaxQueued,  \* MAX_MESSAGES
          Lengths     \* of the messages a write accepts

VARIABLES queue,      \* the messages, each with its number and length
          accepted,   \* how many messages were ever accepted
          received,   \* the message a read has taken and not yet returned
          writing,    \* a write is in progress
          broken

fifo == <<queue, accepted, received, writing, broken>>

NoMessage == [id |-> 0, len |-> 0]

FifoInit ==
  /\ queue = << >> /\ accepted = 0 /\ received = NoMessage
  /\ writing = FALSE /\ broken = FALSE

BeginWrite ==
  /\ ~broken /\ ~writing /\ writing' = TRUE
  /\ UNCHANGED <<queue, accepted, received, broken>>

\* The message becomes the last of the queue.
Accept(len) ==
  /\ ~broken /\ writing /\ Len(queue) < MaxQueued
  /\ accepted' = accepted + 1
  /\ queue' = Append(queue, [id |-> accepted + 1, len |-> len])
  /\ UNCHANGED <<received, writing, broken>>

\* The write makes room.
Drop ==
  /\ ~broken /\ writing /\ queue # << >>
  /\ queue' = Tail(queue)
  /\ UNCHANGED <<accepted, received, writing, broken>>

\* The write returns, whether its message was accepted or not.
EndWrite ==
  /\ ~broken /\ writing /\ writing' = FALSE
  /\ UNCHANGED <<queue, accepted, received, broken>>

Receive ==
  /\ ~broken /\ queue # << >> /\ received = NoMessage
  /\ received' = Head(queue)
  /\ queue' = Tail(queue)
  /\ UNCHANGED <<accepted, writing, broken>>

\* The read returns the message.
Return ==
  /\ ~broken /\ received # NoMessage
  /\ received' = NoMessage
  /\ UNCHANGED <<queue, accepted, writing, broken>>

\* What a broken queue holds is not said.
Break ==
  /\ ~broken
  /\ broken' = TRUE
  /\ queue' = << >> /\ accepted' = 0 /\ received' = NoMessage /\ writing' = FALSE

FifoNext ==
  \/ BeginWrite \/ Drop \/ EndWrite \/ Receive \/ Return \/ Break
  \/ \E len \in Lengths : Accept(len)

FifoSpec == FifoInit /\ [][FifoNext]_fifo
=============================================================================
