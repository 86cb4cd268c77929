---------------------------- MODULE MessageQueue ----------------------------
(***************************************************************************)
(* OSMessageQueue (runtime/src/hle/os/os_message.cpp): a ring buffer in    *)
(* guest memory with a queue of blocked senders and one of blocked         *)
(* receivers.  Guest threads are cooperative, so an operation changes the  *)
(* queue without interruption; but between its wake-up and its next turn a *)
(* thread is only READY, and any number of other operations, or its own    *)
(* cancellation, may come first.                                           *)
(***************************************************************************)
EXTENDS Integers, Sequences

CONSTANTS
  Users,      \* the threads that use the queue
  Messages,   \* what they send
  Capacity    \* the length of the message array

ASSUME CapacityAssumption == Capacity \in Nat \ {0}

VARIABLES
  array, first, used,   \* the ring: its slots, the oldest one, how many
  sending,              \* the threads on the queue of blocked senders
  receiving,            \* the threads on the queue of blocked receivers
  call,                 \* the operation each thread is in
  got                   \* the message each thread received last

ring   == << array, first, used >>
queues == << sending, receiving >>
vars   == << ring, queues, call, got >>

Slots == 0 .. Capacity - 1

Operations == [op : {"send", "jam", "receive"}, msg : Messages, block : BOOLEAN]
NoCall     == [op |-> "none"]
Cancelled  == [op |-> "cancelled"]

Init ==
  /\ array \in [Slots -> Messages]
  /\ first = 0
  /\ used = 0
  /\ sending = {} /\ receiving = {}
  /\ call = [t \in Users |-> NoCall]
  /\ got \in [Users -> Messages]

-----------------------------------------------------------------------------
(* The ring.                                                               *)

(* Mutant: one message too many is let in.                                 *)
MsgQueueIsFull_OneMore == used > Capacity

MsgQueueIsFull  == used >= Capacity
MsgQueueIsEmpty == used = 0

MsgQueueEnqueue(m) ==
  /\ array' = [array EXCEPT ![(first + used) % Capacity] = m]
  /\ used'  = used + 1
  /\ UNCHANGED first

(* Mutant: `first' does not wrap below slot 0.                             *)
MsgQueueJam_NoWrap(m) ==
  LET f == IF first = 0 THEN 0 ELSE first - 1
  IN  /\ array' = [array EXCEPT ![f] = m]
      /\ first' = f
      /\ used'  = used + 1

MsgQueueJam(m) ==
  LET f == IF first = 0 THEN Capacity - 1 ELSE first - 1
  IN  /\ array' = [array EXCEPT ![f] = m]
      /\ first' = f
      /\ used'  = used + 1

MsgQueueDequeue ==
  /\ first' = (first + 1) % Capacity
  /\ used'  = used - 1
  /\ UNCHANGED array

-----------------------------------------------------------------------------
(* The operations.                                                         *)

(* A thread on one of the wait queues is not running.                      *)
Running(t) == t \notin sending \cup receiving /\ call[t] # Cancelled

(* A thread enters OSSendMessage, OSJamMessage or OSReceiveMessage.        *)
Enter(t, c) ==
  /\ call[t] = NoCall
  /\ call' = [call EXCEPT ![t] = c]
  /\ UNCHANGED << ring, queues, got >>

(* The body of MsgQueueOp when the queue has the shape the operation       *)
(* needs: apply it, wake every thread of the opposite queue, return 1.     *)
Send(t) ==
  /\ Running(t) /\ call[t].op \in {"send", "jam"}
  /\ ~MsgQueueIsFull
  /\ IF call[t].op = "send" THEN MsgQueueEnqueue(call[t].msg) ELSE MsgQueueJam(call[t].msg)
  /\ receiving' = {}
  /\ call' = [call EXCEPT ![t] = NoCall]
  /\ UNCHANGED << sending, got >>

(* Mutant: the receivers are woken instead of the senders.                 *)
Receive_WakesReceivers(t) ==
  /\ Running(t) /\ call[t].op = "receive"
  /\ ~MsgQueueIsEmpty
  /\ MsgQueueDequeue
  /\ got' = [got EXCEPT ![t] = array[first]]
  /\ receiving' = {}
  /\ call' = [call EXCEPT ![t] = NoCall]
  /\ UNCHANGED sending

Receive(t) ==
  /\ Running(t) /\ call[t].op = "receive"
  /\ ~MsgQueueIsEmpty
  /\ MsgQueueDequeue
  /\ got' = [got EXCEPT ![t] = array[first]]
  /\ sending' = {}
  /\ call' = [call EXCEPT ![t] = NoCall]
  /\ UNCHANGED receiving

(* Otherwise a non-blocking operation returns 0 and a blocking one parks   *)
(* on its own queue, to start over when it is woken.                       *)
NotReady(t) ==
  /\ Running(t) /\ call[t] # NoCall
  /\ IF call[t].op = "receive" THEN MsgQueueIsEmpty ELSE MsgQueueIsFull
  /\ IF ~call[t].block
     THEN call' = [call EXCEPT ![t] = NoCall] /\ UNCHANGED queues
     ELSE /\ UNCHANGED call
          /\ IF call[t].op = "receive"
             THEN receiving' = receiving \cup {t} /\ UNCHANGED sending
             ELSE sending' = sending \cup {t} /\ UNCHANGED receiving
  /\ UNCHANGED << ring, got >>

(* OSCancelThread takes a thread off the queue it waits on; one that was   *)
(* woken but has not run yet takes its wake-up with it.                    *)
Cancel(t) ==
  /\ call[t] # Cancelled
  /\ call' = [call EXCEPT ![t] = Cancelled]
  /\ sending' = sending \ {t}
  /\ receiving' = receiving \ {t}
  /\ UNCHANGED << ring, got >>

Next ==
  \E t \in Users :
    \/ \E c \in Operations : Enter(t, c)
    \/ Send(t) \/ Receive(t) \/ NotReady(t) \/ Cancel(t)

Spec == Init /\ [][Next]_vars

-----------------------------------------------------------------------------
(* Properties.                                                             *)

(* The ring stays within its array, and its wait queues hold the threads   *)
(* that are inside the operation they block.                               *)
TypeOK ==
  /\ array \in [Slots -> Messages]
  /\ first \in Slots
  /\ used \in 0 .. Capacity
  /\ sending \subseteq Users /\ receiving \subseteq Users
  /\ call \in [Users -> Operations \cup {NoCall, Cancelled}]
  /\ got \in [Users -> Messages]

(* No lost wake-up: a blocked sender faces a full queue and a blocked      *)
(* receiver an empty one, so the wake-up of MsgQueueOp never leaves behind *)
(* a thread whose operation could go on, whoever runs or is cancelled      *)
(* between a wake-up and the woken thread's next turn.                     *)
NoLostWakeup ==
  /\ sending # {} => MsgQueueIsFull
  /\ receiving # {} => MsgQueueIsEmpty

(* The queue as a sequence, and the promise it keeps: messages leave in    *)
(* the order of BoundedFifo, each one once.                                *)
Contents == [i \in 1 .. used |-> array[(first + (i - 1)) % Capacity]]

Fifo == INSTANCE BoundedFifo WITH items <- Contents

ImplementsFifo == Fifo!Spec
=============================================================================
