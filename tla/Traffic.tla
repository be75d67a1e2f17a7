------------------------------- MODULE Traffic -------------------------------
(* The messages of a MultiServer: its one worker reads the rings of all slots *)
(* in batches and hands the messages to the handler, the programs' threads    *)
(* and the handler itself send with send_to and broadcast, and each client    *)
(* writes as often as it likes.  The slots are connected all the time (their  *)
(* connections are module MultiSlots), a message is not told from another,    *)
(* and of a send to a client only the lock is here (modules Ring and CApi     *)
(* have what it does to the ring): what counts is who waits for whom, and     *)
(* whether for ever.  Nothing is bounded but the rings.                       *)
EXTENDS Channel

CONSTANTS
    MAX_CLIENTS,    \* the number of slots
    RecvBatch,      \* recv_batch
    Callers         \* threads of the program that call send_to and broadcast

ASSUME TrafficAssumption ==
    /\ MAX_CLIENTS \in Nat \ {0} /\ RecvBatch \in Nat \ {0}
    /\ "worker" \notin Callers /\ "none" \notin Callers

Slots == 0 .. MAX_CLIENTS - 1
Threads == Callers \union {"worker"}

VARIABLES
    c2s,        \* the ring of each slot, with its data event
    torn,       \* the slots whose read_pos has left the messages
    client,     \* the write of each client: its place, WriteOutcome
    mutex,      \* who holds each slot
    worker,     \* the worker: its place; the slots it goes through; messages
                \* the batch may still take, and those in its hands
    call        \* the slots that the call of each thread has still to send to

vars == <<c2s, torn, client, mutex, worker, call>>

All == [i \in 1..MAX_CLIENTS |-> i - 1]
NoWrite == [pc |-> "idle", was_empty |-> FALSE]

Init ==
    /\ c2s = [s \in Slots |-> EmptyRing]
    /\ torn = {}
    /\ client = [s \in Slots |-> NoWrite]
    /\ mutex = [s \in Slots |-> "none"]
    /\ worker = [pc |-> "collect", todo |-> All, left |-> 0, messages |-> 0]
    /\ call = [t \in Threads |-> <<>>]

----------------------------------------------------------------------------
(* send_to_server in the client of slot s.  A write that fails, or looks at   *)
(* the ring again, is as if it had not begun.  A torn ring is followed no     *)
(* further: nothing is written to it any more.                                *)
Writes(s) == client[s].pc = "idle" /\ s \notin torn
Discard(s) ==
    /\ Writes(s) /\ \E tight \in Loads(c2s[s]) : Discards(c2s[s], tight)
    /\ c2s' = [c2s EXCEPT ![s] = Taken(@)]
    /\ client' = [client EXCEPT ![s].pc = "discarded"]
    /\ UNCHANGED <<torn, mutex, worker, call>>
Discount(s) ==
    /\ client[s].pc = "discarded"
    /\ c2s' = [c2s EXCEPT ![s] = Subtracted(@)]
    /\ client' = [client EXCEPT ![s] = NoWrite]
    /\ UNCHANGED <<torn, mutex, worker, call>>
Count(s) ==
    /\ Writes(s) /\ ~Full(c2s[s], FALSE)
    /\ client' = [client EXCEPT ![s] = [pc |-> "signal", was_empty |-> WasEmpty(c2s[s])]]
    /\ c2s' = [c2s EXCEPT ![s] = Counted(@, "message")]
    /\ UNCHANGED <<torn, mutex, worker, call>>
Signal(s) ==
    /\ client[s].pc = "signal"
    /\ c2s' = [c2s EXCEPT ![s] = Signalled(@, client[s].was_empty)]
    /\ client' = [client EXCEPT ![s] = NoWrite]
    /\ UNCHANGED <<torn, mutex, worker, call>>

----------------------------------------------------------------------------
(* The worker.  It locks every slot for a moment to see what to wait for (and *)
(* once more before, for the claims).                                         *)
At(pc) == worker' = [worker EXCEPT !.pc = pc]
slot == Head(worker.todo)

Collect ==
    /\ worker.pc = "collect" /\ mutex[slot] = "none"
    /\ worker' = [worker EXCEPT !.todo = Tail(@),
                                !.pc = IF Len(worker.todo) = 1 THEN "wait" ELSE "collect"]
    /\ UNCHANGED <<c2s, torn, client, mutex, call>>

(* wait_any: of the signalled events the one of lowest index.                 *)
WaitAny ==
    /\ worker.pc = "wait"
    /\ \E s \in Slots :
         /\ c2s[s].data /\ \A t \in Slots : c2s[t].data => s <= t
         /\ c2s' = [c2s EXCEPT ![s].data = FALSE]
         /\ worker' = [worker EXCEPT !.pc = "lock", !.todo = <<s>>]
    /\ UNCHANGED <<torn, client, mutex, call>>

(* poll_timeout passes, and all slots are looked at - or, in a wrong variant, *)
(* none.                                                                      *)
Quiet == worker.pc = "wait" /\ \A s \in Slots : ~c2s[s].data
PollNothing ==
    /\ Quiet
    /\ worker' = [worker EXCEPT !.pc = "collect", !.todo = All]
    /\ UNCHANGED <<c2s, torn, client, mutex, call>>
PollAllSlots ==
    /\ Quiet
    /\ worker' = [worker EXCEPT !.pc = "lock", !.todo = All]
    /\ UNCHANGED <<c2s, torn, client, mutex, call>>

(* receive_from_slot: up to recv_batch messages, under the lock of the slot.  *)
Lock ==
    /\ worker.pc = "lock" /\ mutex[slot] = "none"
    /\ mutex' = [mutex EXCEPT ![slot] = "worker"]
    /\ worker' = [worker EXCEPT !.pc = "look", !.left = RecvBatch]
    /\ UNCHANGED <<c2s, torn, client, call>>
Look ==
    /\ worker.pc = "look" /\ worker.left > 0 /\ ~QueueEmpty(c2s[slot])
    /\ At("take")
    /\ UNCHANGED <<c2s, torn, client, mutex, call>>
Take ==
    /\ worker.pc = "take" /\ ~Phantom(c2s[slot])
    /\ c2s' = [c2s EXCEPT ![slot] = Taken(@)]
    /\ At("subtract")
    /\ UNCHANGED <<torn, client, mutex, call>>
(* The client has discarded what was counted: the read looks again, if it     *)
(* sees read_pos move, or it fails and the batch ends with a call of on_error,*)
(* or it takes bytes that nobody sent for a message.                          *)
LookAgain ==
    /\ worker.pc = "take" /\ Phantom(c2s[slot]) /\ slot \notin torn
    /\ At("look")
    /\ UNCHANGED <<c2s, torn, client, mutex, call>>
Corrupted ==
    /\ worker.pc = "take" /\ Phantom(c2s[slot])
    /\ worker' = [worker EXCEPT !.pc = "look", !.left = 0, !.messages = @ + 1]
    /\ UNCHANGED <<c2s, torn, client, mutex, call>>
TakeNothing ==
    /\ worker.pc = "take" /\ Phantom(c2s[slot])
    /\ torn' = torn \union {slot}
    /\ At("subtract")
    /\ UNCHANGED <<c2s, client, mutex, call>>
Read == Take \/ LookAgain \/ Corrupted \/ TakeNothing
Subtract ==
    /\ worker.pc = "subtract"
    /\ c2s' = [c2s EXCEPT ![slot] = Subtracted(@)]
    /\ worker' = [worker EXCEPT !.pc = "look", !.left = @ - 1, !.messages = @ + 1]
    /\ UNCHANGED <<torn, client, mutex, call>>

BatchDone == worker.pc = "look" /\ (worker.left = 0 \/ QueueEmpty(c2s[slot]))
Delivers == worker' = [worker EXCEPT !.pc = "deliver", !.left = 0]
(* A wrong variant of Unlock: the handler is called under the lock.           *)
UnlockLater ==
    /\ BatchDone /\ Delivers
    /\ mutex' = IF worker.messages = 0 THEN [mutex EXCEPT ![slot] = "none"] ELSE mutex
    /\ UNCHANGED <<c2s, torn, client, call>>
Unlock ==
    /\ BatchDone /\ Delivers
    /\ mutex' = [mutex EXCEPT ![slot] = "none"]
    /\ UNCHANGED <<c2s, torn, client, call>>

(* on_message and on_error, which may send to a client and do return.         *)
OnMessage ==
    /\ worker.pc = "deliver" /\ worker.messages > 0 /\ call["worker"] = <<>>
    /\ worker' = [worker EXCEPT !.messages = @ - 1]
    /\ \E to \in {<<>>, All} \union {<<s>> : s \in Slots} : call' = [call EXCEPT !["worker"] = to]
    /\ UNCHANGED <<c2s, torn, client, mutex>>
NextSlot ==
    /\ worker.pc = "deliver" /\ worker.messages = 0 /\ call["worker"] = <<>>
    /\ worker' = IF Len(worker.todo) = 1
                 THEN [worker EXCEPT !.pc = "collect", !.todo = All]
                 ELSE [worker EXCEPT !.pc = "lock", !.todo = Tail(@)]
    /\ UNCHANGED <<c2s, torn, client, mutex, call>>

----------------------------------------------------------------------------
(* send_to and broadcast, from thread t.                                      *)
SendTo(t) ==
    /\ call[t] = <<>>
    /\ \E s \in Slots : call' = [call EXCEPT ![t] = <<s>>]
    /\ UNCHANGED <<c2s, torn, client, mutex, worker>>
Broadcast(t) ==
    /\ call[t] = <<>>
    /\ call' = [call EXCEPT ![t] = All]
    /\ UNCHANGED <<c2s, torn, client, mutex, worker>>

LockSlot(t) ==
    /\ call[t] # <<>> /\ mutex[Head(call[t])] = "none"
    /\ mutex' = [mutex EXCEPT ![Head(call[t])] = t]
    /\ UNCHANGED <<c2s, torn, client, worker, call>>
(* The worker holds a slot for a call only while it delivers.                 *)
Sent(t) ==
    /\ call[t] # <<>> /\ mutex[Head(call[t])] = t
    /\ mutex' = [mutex EXCEPT ![Head(call[t])] = "none"]
    /\ call' = [call EXCEPT ![t] = Tail(@)]
    /\ UNCHANGED <<c2s, torn, client, worker>>

----------------------------------------------------------------------------
WorkerStep ==
    \/ Collect \/ WaitAny \/ PollAllSlots \/ Lock \/ Look \/ Read \/ Subtract
    \/ Unlock \/ OnMessage \/ NextSlot
FinishWrite(s) == Discount(s) \/ Signal(s)
CallStep(t) == LockSlot(t) \/ Sent(t)
Next ==
    \/ WorkerStep
    \/ \E s \in Slots : Discard(s) \/ Count(s) \/ FinishWrite(s)
    \/ \E t \in Threads : CallStep(t)
    \/ \E t \in Callers : SendTo(t) \/ Broadcast(t)

Spec == Init /\ [][Next]_vars

(* The threads are scheduled.  Nothing is assumed of the locks, which may go  *)
(* to another thread each time they are free, and nothing of the clients but  *)
(* that they finish what they have begun to change in the ring.               *)
FairSpec ==
    /\ Spec
    /\ WF_vars(WorkerStep)
    /\ \A t \in Threads : WF_vars(CallStep(t))
    /\ \A s \in Slots : WF_vars(FinishWrite(s))

----------------------------------------------------------------------------
(* Properties.                                                                *)

(* The slots that thread t asks for and does not hold.                        *)
Wanted(t) ==
    {s \in Slots : \/ call[t] # <<>> /\ s = Head(call[t]) /\ mutex[s] # t
                   \/ t = "worker" /\ worker.pc \in {"collect", "lock"} /\ s = slot}

(* Whoever holds a slot asks for no other: the batch is read under one lock,  *)
(* and the handler is called, and a broadcast goes on to its next client,     *)
(* when the lock is given back.  So nobody waits for a thread that waits.     *)
HoldersNeverWait ==
    \A t \in Threads : (\E s \in Slots : mutex[s] = t) => Wanted(t) = {}

(* Thread t may find some slot taken by others over and over again.           *)
Crowded(t) ==
    \E s \in Slots : /\ []<>(mutex[s] = "none")
                     /\ []<>(mutex[s] \notin {"none", t})

(* One read under the lock may have no end, as its client discards a message  *)
(* each time the read looks for it.                                           *)
Overrun ==
    \E s \in Slots : /\ []<>(client[s].pc = "discarded")
                     /\ <>[](worker.pc \in {"look", "take"} /\ slot = s)

(* A message in the ring of a slot is read by the worker, whether its write   *)
(* signalled the data event or not, and the messages beyond recv_batch too.   *)
(* Three things stand in the way: data events of another slot that never      *)
(* cease (wait_any prefers the lowest handle, and as long as it returns one   *)
(* of them the timeout after which all slots are looked at does not come),    *)
(* locks that always go to others, and a read that has no end.                *)
Served ==
    \A s \in Slots :
        \/ c2s[s].msgs # <<>> ~> mutex[s] = "worker" /\ worker.pc = "look"
        \/ \E t \in Slots \ {s} : []<>c2s[t].data
        \/ Crowded("worker") \/ Overrun

(* send_to and broadcast return, called from the handler too: nobody waits    *)
(* for a slot that is held by somebody who waits, unless the worker's read of *)
(* it has no end.                                                             *)
CallsReturn ==
    \A t \in Threads : (call[t] # <<>> ~> call[t] = <<>>) \/ Crowded(t) \/ Overrun

----------------------------------------------------------------------------
(* The inductive invariant behind the lock discipline: who holds a slot, and  *)
(* at which place of its work.                                                *)
Places == {"collect", "wait", "lock", "look", "take", "subtract", "deliver"}

(* The slots a thread goes through are slots, and a worker that goes through  *)
(* them has one left.                                                         *)
Tours ==
    /\ mutex \in [Slots -> Threads \union {"none"}]
    /\ call \in [Threads -> Seq(Slots)]
    /\ worker \in [pc : Places, todo : Seq(Slots), left : Nat, messages : Nat]
    /\ worker.pc # "wait" => worker.todo # <<>>
    /\ worker.pc \in {"take", "subtract"} => worker.left > 0

Batch == {"look", "take", "subtract"}

(* A slot is held by the worker for its batch, or by a thread for the send it *)
(* is at - the worker, too, and then it delivers.                             *)
Holders ==
    /\ worker.pc \in Batch => mutex[slot] = "worker"
    /\ call["worker"] # <<>> => worker.pc = "deliver"
    /\ \A s \in Slots : \A t \in Threads :
         mutex[s] = t =>
           \/ t = "worker" /\ worker.pc \in Batch /\ s = slot
           \/ call[t] # <<>> /\ s = Head(call[t])

(* Each thread of the server is at a place of its work that tells which slot  *)
(* it holds, if any (receive_from_slot, send_to and broadcast).               *)
IInv == Tours /\ Holders
==============================================================================
