---------------------------- MODULE TrafficProofs ----------------------------
(* The lock discipline of Traffic, for any number of slots and of threads and *)
(* any size of a batch.                                                       *)
EXTENDS Traffic, SequenceTheorems, TLAPS

-----------------------------------------------------------------------------
(* Tours                                                                      *)

LEMMA Numbers == MAX_CLIENTS \in Nat /\ MAX_CLIENTS > 0
  BY TrafficAssumption

LEMMA AllSlots == All \in Seq(Slots) /\ All # <<>>
<1>1. All \in [1..MAX_CLIENTS -> Slots]
  BY Numbers DEF All, Slots
<1>2. All \in Seq(Slots)
  BY <1>1, Numbers, SeqDef
<1>3. 1 \in DOMAIN All
  BY Numbers DEF All
<1>. QED
  BY <1>2, <1>3

LEMMA OneSlot ==
  ASSUME NEW s \in Slots
  PROVE  <<s>> \in Seq(Slots) /\ <<s>> # <<>> /\ Head(<<s>>) = s /\ Tail(<<s>>) = <<>>
  OBVIOUS

LEMMA Rest ==
  ASSUME NEW q \in Seq(Slots), q # <<>>
  PROVE  /\ Head(q) \in Slots /\ Tail(q) \in Seq(Slots) /\ Len(q) \in Nat
         /\ Len(q) # 1 => Tail(q) # <<>>
<1>1. /\ Head(q) \in Slots /\ Tail(q) \in Seq(Slots) /\ Len(q) \in Nat
      /\ Len(Tail(q)) = Len(q) - 1
  BY HeadTailProperties, LenProperties
<1>2. Len(q) # 1 => Len(Tail(q)) # 0
  BY <1>1
<1>. QED
  BY <1>1, <1>2, EmptySeq

LEMMA WorkerIsAThread == /\ "worker" \in Threads /\ "none" \notin Threads
                         /\ Callers \subseteq Threads /\ "worker" \notin Callers
  BY TrafficAssumption DEF Threads

-----------------------------------------------------------------------------
LEMMA InitInv == Init => IInv
<1> SUFFICES ASSUME Init PROVE IInv
  OBVIOUS
<1>1. Tours
  BY AllSlots, EmptySeq DEF Init, Tours, Places
<1>2. Holders
  BY WorkerIsAThread DEF Init, Holders, Batch
<1>. QED
  BY <1>1, <1>2 DEF IInv

(* Steps that neither take nor give back a slot, nor begin a call.            *)
LEMMA Elsewhere ==
  ASSUME IInv, UNCHANGED <<mutex, worker, call>>
  PROVE  IInv'
  BY DEF IInv, Tours, Holders, slot

(* Steps of the worker that take and give back no slot.                       *)
LEMMA CollectKeeps == ASSUME IInv, Collect PROVE IInv'
<1>1. /\ Tours /\ Holders /\ worker.pc = "collect" /\ worker.todo # <<>>
      /\ UNCHANGED <<mutex, call>>
  BY DEF IInv, Tours, Collect
<1>2. /\ worker' \in [pc : Places, todo : Seq(Slots), left : Nat, messages : Nat]
      /\ worker'.pc \in {"wait", "collect"}
      /\ worker'.pc # "wait" => worker'.todo # <<>>
  <2>1. /\ Tail(worker.todo) \in Seq(Slots)
        /\ Len(worker.todo) # 1 => Tail(worker.todo) # <<>>
    BY <1>1, Rest DEF Tours
  <2>. QED
    BY <1>1, <2>1 DEF Tours, Collect, Places
<1>3. Tours'
  BY <1>1, <1>2 DEF Tours
<1>4. Holders'
  BY <1>1, <1>2 DEF Holders, Batch
<1>. QED
  BY <1>3, <1>4 DEF IInv

LEMMA WaitKeeps == ASSUME IInv, WaitAny \/ PollAllSlots PROVE IInv'
<1>1. /\ Tours /\ Holders /\ worker.pc = "wait" /\ UNCHANGED <<mutex, call>>
  BY DEF IInv, WaitAny, PollAllSlots, Quiet
<1>2. PICK q \in Seq(Slots) : q # <<>> /\ worker' = [worker EXCEPT !.pc = "lock", !.todo = q]
  BY AllSlots, OneSlot DEF WaitAny, PollAllSlots
<1>3. Tours'
  BY <1>1, <1>2 DEF Tours, Places
<1>4. worker'.pc = "lock"
  BY <1>1, <1>2 DEF Tours
<1>5. Holders'
  BY <1>1, <1>4 DEF Holders, Batch
<1>. QED
  BY <1>3, <1>5 DEF IInv

LEMMA BatchKeeps == ASSUME IInv, Look \/ Read \/ Subtract PROVE IInv'
<1>1. /\ Tours /\ Holders /\ worker.pc \in Batch /\ UNCHANGED <<mutex, call>>
      /\ worker'.pc \in Batch /\ worker'.todo = worker.todo
      /\ worker' \in [pc : Places, todo : Seq(Slots), left : Nat, messages : Nat]
      /\ worker'.pc \in {"take", "subtract"} => worker'.left > 0
  <2>1. Tours /\ Holders
    BY DEF IInv
  <2>2. CASE Look
    BY <2>1, <2>2 DEF Look, Tours, At, Places, Batch
  <2>3. CASE Take \/ LookAgain \/ TakeNothing
    BY <2>1, <2>3 DEF Take, LookAgain, TakeNothing, Tours, At, Places, Batch
  <2>4. CASE Corrupted
    <3>1. worker.messages + 1 \in Nat
      BY <2>1 DEF Tours
    <3>. QED
      BY <2>1, <2>4, <3>1 DEF Corrupted, Tours, Places, Batch
  <2>5. CASE Subtract
    <3>1. /\ worker.left \in Nat /\ worker.messages \in Nat /\ worker.left > 0
          /\ worker.left - 1 \in Nat /\ worker.messages + 1 \in Nat
      BY <2>1, <2>5 DEF Tours, Subtract
    <3>. QED
      BY <2>1, <2>5, <3>1 DEF Subtract, Tours, Places, Batch
  <2>. QED
    BY <2>2, <2>3, <2>4, <2>5 DEF Read
<1>2. Tours'
  BY <1>1 DEF Tours, Batch
<1>3. Holders'
  BY <1>1 DEF Holders, slot, Batch
<1>. QED
  BY <1>2, <1>3 DEF IInv

(* The handler is called by a worker that holds nothing.                      *)
LEMMA DeliverKeeps == ASSUME IInv, OnMessage \/ NextSlot PROVE IInv'
<1>1. /\ Tours /\ Holders /\ worker.pc = "deliver" /\ UNCHANGED mutex
      /\ call["worker"] = <<>>
  BY DEF IInv, OnMessage, NextSlot
<1>2. \A s \in Slots : mutex[s] # "worker"
  BY <1>1, WorkerIsAThread DEF Holders, Batch
<1>3. CASE OnMessage
  <2>1. PICK q \in Seq(Slots) : call' = [call EXCEPT !["worker"] = q]
    BY <1>3, AllSlots, OneSlot, EmptySeq DEF OnMessage
  <2>2. /\ worker' = [worker EXCEPT !.messages = @ - 1]
        /\ worker.messages \in Nat /\ worker.messages > 0
        /\ worker.messages - 1 \in Nat
    BY <1>1, <1>3 DEF OnMessage, Tours
  <2>3. Tours'
    <3>1. /\ worker' \in [pc : Places, todo : Seq(Slots), left : Nat, messages : Nat]
          /\ worker'.pc = "deliver" /\ worker'.todo = worker.todo
      BY <1>1, <2>2 DEF Tours, Places
    <3>2. call' \in [Threads -> Seq(Slots)]
      BY <1>1, <2>1 DEF Tours
    <3>. QED
      BY <1>1, <3>1, <3>2 DEF Tours
  <2>4. /\ worker'.pc = "deliver"
        /\ \A t \in Threads : t # "worker" => call'[t] = call[t]
    BY <1>1, <2>1, <2>2 DEF Tours
  <2>5. Holders'
    BY <1>1, <1>2, <2>4 DEF Holders, Batch
  <2>. QED
    BY <2>3, <2>5 DEF IInv
<1>4. CASE NextSlot
  <2>1. call' = call
    BY <1>4 DEF NextSlot
  <2>2. /\ worker' \in [pc : Places, todo : Seq(Slots), left : Nat, messages : Nat]
        /\ worker'.pc \in {"collect", "lock"} /\ worker'.todo # <<>>
    <3>1. /\ worker.todo # <<>> /\ Tail(worker.todo) \in Seq(Slots)
          /\ Len(worker.todo) # 1 => Tail(worker.todo) # <<>>
      BY <1>1, Rest DEF Tours
    <3>. QED
      BY <1>1, <1>4, <3>1, AllSlots DEF NextSlot, Tours, Places
  <2>3. Tours'
    BY <1>1, <2>1, <2>2 DEF Tours
  <2>4. Holders'
    BY <1>1, <1>2, <2>1, <2>2 DEF Holders, Batch
  <2>. QED
    BY <2>3, <2>4 DEF IInv
<1>. QED
  BY <1>3, <1>4

(* The worker takes the slot for its batch, and gives it back.                *)
LEMMA LockKeeps == ASSUME IInv, Lock PROVE IInv'
<1>1. /\ Tours /\ Holders /\ worker.pc = "lock" /\ UNCHANGED call
      /\ mutex' = [mutex EXCEPT ![slot] = "worker"] /\ mutex[slot] = "none"
      /\ worker' = [worker EXCEPT !.pc = "look", !.left = RecvBatch]
  BY DEF IInv, Lock
<1>2. slot \in Slots /\ worker.todo # <<>>
  BY <1>1, Rest DEF Tours, slot
<1>3. RecvBatch \in Nat
  BY TrafficAssumption
<1>4. Tours'
  BY <1>1, <1>2, <1>3, WorkerIsAThread DEF Tours, Places
<1>5. worker'.pc = "look" /\ slot' = slot /\ call["worker"] = <<>>
  BY <1>1 DEF Tours, Holders, slot
<1>6. /\ mutex'[slot] = "worker"
      /\ \A s \in Slots : s # slot => mutex'[s] = mutex[s]
  BY <1>1, <1>2 DEF Tours
<1>7. ASSUME NEW s \in Slots, NEW t \in Threads, mutex'[s] = t
      PROVE  \/ t = "worker" /\ s = slot
             \/ call[t] # <<>> /\ s = Head(call[t])
  BY <1>1, <1>6, <1>7 DEF Holders, Batch
<1>8. Holders'
  BY <1>1, <1>5, <1>6, <1>7 DEF Holders, Batch
<1>. QED
  BY <1>4, <1>8 DEF IInv

LEMMA UnlockKeeps == ASSUME IInv, Unlock PROVE IInv'
<1>1. /\ Tours /\ Holders /\ worker.pc = "look" /\ UNCHANGED call
      /\ mutex' = [mutex EXCEPT ![slot] = "none"]
      /\ worker' = [worker EXCEPT !.pc = "deliver", !.left = 0]
  BY DEF IInv, Unlock, BatchDone, Delivers
<1>2. slot \in Slots /\ worker.todo # <<>>
  BY <1>1, Rest DEF Tours, slot
<1>3. Tours'
  BY <1>1, <1>2 DEF Tours, Places
<1>4. worker'.pc = "deliver"
  BY <1>1 DEF Tours
<1>5. /\ mutex'[slot] = "none"
      /\ \A s \in Slots : s # slot => mutex'[s] = mutex[s]
  BY <1>1, <1>2 DEF Tours
<1>6. ASSUME NEW s \in Slots, NEW t \in Threads, mutex'[s] = t
      PROVE  call[t] # <<>> /\ s = Head(call[t])
  <2>1. s # slot /\ mutex[s] = t
    BY <1>5, <1>6, WorkerIsAThread
  <2>. QED
    BY <1>1, <2>1 DEF Holders
<1>7. Holders'
  BY <1>1, <1>4, <1>6 DEF Holders, Batch
<1>. QED
  BY <1>3, <1>7 DEF IInv

-----------------------------------------------------------------------------
(* A call begins, takes the slot it is at, and gives it back.                 *)
LEMMA BeginKeeps ==
  ASSUME IInv, NEW t \in Callers, SendTo(t) \/ Broadcast(t)
  PROVE  IInv'
<1>1. /\ Tours /\ Holders /\ call[t] = <<>> /\ UNCHANGED <<mutex, worker>>
  BY DEF IInv, SendTo, Broadcast
<1>2. PICK q \in Seq(Slots) : call' = [call EXCEPT ![t] = q]
  BY AllSlots, OneSlot DEF SendTo, Broadcast
<1>3. t \in Threads /\ t # "worker"
  BY WorkerIsAThread
<1>4. Tours'
  BY <1>1, <1>2 DEF Tours
<1>5. \A u \in Threads : u # t => call'[u] = call[u]
  BY <1>1, <1>2 DEF Tours
<1>6. \A s \in Slots : mutex[s] # t
  BY <1>1, <1>3 DEF Holders
<1>7. Holders'
  BY <1>1, <1>3, <1>5, <1>6, WorkerIsAThread DEF Holders, slot
<1>. QED
  BY <1>4, <1>7 DEF IInv

LEMMA TakeSlotKeeps ==
  ASSUME IInv, NEW t \in Threads, LockSlot(t)
  PROVE  IInv'
<1>1. /\ Tours /\ Holders /\ call[t] # <<>> /\ UNCHANGED <<worker, call>>
      /\ mutex[Head(call[t])] = "none" /\ mutex' = [mutex EXCEPT ![Head(call[t])] = t]
  BY DEF IInv, LockSlot
<1>2. Head(call[t]) \in Slots
  BY <1>1, Rest DEF Tours
<1>3. Tours'
  BY <1>1, <1>2 DEF Tours
<1>4. \A s \in Slots : mutex'[s] = IF s = Head(call[t]) THEN t ELSE mutex[s]
  BY <1>1, <1>2 DEF Tours
<1>5. slot' = slot /\ (worker.pc \in Batch => slot # Head(call[t]))
  BY <1>1, WorkerIsAThread DEF Holders, slot
<1>6. worker.pc \in Batch => slot \in Slots
  BY <1>1, Rest DEF Tours, slot, Batch
<1>7. Holders'
  BY <1>1, <1>4, <1>5, <1>6 DEF Holders
<1>. QED
  BY <1>3, <1>7 DEF IInv

LEMMA SentKeeps ==
  ASSUME IInv, NEW t \in Threads, Sent(t)
  PROVE  IInv'
<1>1. /\ Tours /\ Holders /\ call[t] # <<>> /\ UNCHANGED worker
      /\ mutex[Head(call[t])] = t /\ mutex' = [mutex EXCEPT ![Head(call[t])] = "none"]
      /\ call' = [call EXCEPT ![t] = Tail(call[t])]
  BY DEF IInv, Sent
<1>2. Head(call[t]) \in Slots /\ Tail(call[t]) \in Seq(Slots)
  BY <1>1, Rest DEF Tours
<1>3. Tours'
  BY <1>1, <1>2 DEF Tours
<1>4. /\ \A s \in Slots : mutex'[s] = IF s = Head(call[t]) THEN "none" ELSE mutex[s]
      /\ \A u \in Threads : u # t => call'[u] = call[u]
  BY <1>1, <1>2 DEF Tours
<1>5. t = "worker" => worker.pc = "deliver"
  BY <1>1 DEF Holders
<1>6. \A s \in Slots : mutex'[s] # t
  <2> SUFFICES ASSUME NEW s \in Slots, mutex'[s] = t PROVE FALSE
    OBVIOUS
  <2>1. s # Head(call[t]) /\ mutex[s] = t
    BY <1>4, WorkerIsAThread
  <2>. QED
    BY <1>1, <1>5, <2>1 DEF Holders, Batch
<1>7. /\ slot' = slot
      /\ worker.pc \in Batch => /\ slot \in Slots /\ mutex[slot] = "worker"
                                /\ t # "worker" /\ slot # Head(call[t])
  BY <1>1, <1>5, Rest DEF Tours, Holders, slot, Batch
<1>8. Holders'
  BY <1>1, <1>4, <1>5, <1>6, <1>7, WorkerIsAThread DEF Holders, Batch
<1>. QED
  BY <1>3, <1>8 DEF IInv

-----------------------------------------------------------------------------
LEMMA StepKeeps == IInv /\ [Next]_vars => IInv'
<1> SUFFICES ASSUME IInv, [Next]_vars PROVE IInv'
  OBVIOUS
<1>1. ASSUME NEW s \in Slots, Discard(s) \/ Count(s) \/ FinishWrite(s) PROVE IInv'
  BY <1>1, Elsewhere DEF Discard, Count, FinishWrite, Discount, Signal
<1>2. ASSUME NEW t \in Threads, CallStep(t) PROVE IInv'
  BY <1>2, TakeSlotKeeps, SentKeeps DEF CallStep
<1>3. CASE WorkerStep
  BY <1>3, CollectKeeps, WaitKeeps, BatchKeeps, DeliverKeeps, LockKeeps, UnlockKeeps
  DEF WorkerStep
<1>4. CASE UNCHANGED vars
  BY <1>4, Elsewhere DEF vars
<1>. QED
  BY <1>1, <1>2, <1>3, <1>4, BeginKeeps DEF Next

(* IInv holds in every reachable state.                                       *)
THEOREM Invariance == Spec => []IInv
  BY InitInv, StepKeeps, PTL DEF Spec

(* Nobody who holds the Mutex of a slot waits for one, whatever the number of *)
(* slots, of calling threads and of messages in a batch: send_to, broadcast,  *)
(* the handler and the worker cannot come to wait for each other.             *)
THEOREM NobodyHoldsAndWaits == Spec => []HoldersNeverWait
<1>1. IInv => HoldersNeverWait
  <2> SUFFICES ASSUME IInv, NEW t \in Threads, NEW r \in Slots, mutex[r] = t,
                      NEW s \in Slots, s \in Wanted(t)
               PROVE  FALSE
    BY DEF HoldersNeverWait, Wanted
  <2>1. Holders
    BY DEF IInv
  <2>2. \/ t = "worker" /\ worker.pc \in Batch
        \/ call[t] # <<>> /\ r = Head(call[t])
    BY <2>1 DEF Holders
  <2>3. CASE call[t] # <<>> /\ s = Head(call[t]) /\ mutex[s] # t
    BY <2>1, <2>2, <2>3 DEF Holders, Batch
  <2>4. CASE t = "worker" /\ worker.pc \in {"collect", "lock"} /\ s = slot
    BY <2>1, <2>2, <2>4 DEF Holders, Batch
  <2>. QED
    BY <2>3, <2>4 DEF Wanted
<1>. QED
  BY <1>1, Invariance, PTL
=============================================================================
