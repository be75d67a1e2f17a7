-------------------------------- MODULE Auto --------------------------------
(* AutoServer and AutoClient: one server worker and the workers of the client *)
(* processes that use its channel, over the section of module Channel.        *)
(* Workers connect, pass their queues, wait for an event, and reconnect after *)
(* a disconnect.  The generic functions for the queues run in both directions;*)
(* here the clients send and the server receives.                             *)
EXTENDS Channel, FiniteSets

CONSTANTS
    Clients,        \* the client processes
    Senders,        \* those of them that send messages, and call stop()
    MaxSends,       \* bound on the messages accepted by AutoClient::send
    TooLarge,       \* those of them that no ring can hold
    MaxSendQueue,   \* AutoOptions.max_send_queue
    RecvBatch,      \* AutoOptions.recv_batch
    Faults          \* what may go wrong besides, once in all: a process ends
                    \* ("crash"), a ring is found broken ("corrupt"), a client
                    \* gives up just before its answer comes ("timeout")

ASSUME AutoAssumption ==
    /\ Senders \subseteq Clients /\ MaxSends \in Nat
    /\ TooLarge \subseteq 1..MaxSends
    /\ MaxSendQueue \in Nat \ {0} /\ RecvBatch \in Nat \ {0}
    /\ Faults \subseteq {"crash", "corrupt", "timeout"}

VARIABLES
    shm,       \* the section, with its events
    srv,       \* the server's worker and what its user asked of it
    cli,       \* the same for each client
    got,       \* per client: the last of its messages the server delivered
    sent,      \* the number of messages accepted by send
    fault      \* the fault that happened: one of Faults; or the reader took a
               \* count that a discard had yet to correct at its word, and found
               \* the ring corrupted, or took what was no message ("torn")

vars == <<shm, srv, cli, got, sent, fault>>

(* A worker without messages.                                                 *)
Blank(pc) ==
    [pc |-> pc, running |-> TRUE, asked |-> "no", cmds |-> <<>>, shutdown |-> FALSE,
     queue |-> <<>>, generation |-> 0, tight |-> FALSE, was_empty |-> FALSE, raced |-> FALSE]

Init ==
    /\ shm = Fresh
    /\ srv = [pc |-> "wait", running |-> TRUE, left |-> 0, hand |-> <<>>]
    /\ cli = [k \in Clients |-> Blank("idle")]
    /\ got = [k \in Clients |-> 0]
    /\ sent = 0 /\ fault = "none"

Up(k)    == cli[k].pc \in {"top", "send", "write", "discard", "signal", "pause"}
Holds(k) == Up(k) \/ cli[k].pc \in {"req", "wait", "delay"}
Alive(k) == cli[k].pc \notin {"idle", "done", "dead"}
ServerUp == srv.pc \in {"pass", "top", "read", "take", "took", "pause"}
(* The section has a name as long as somebody holds it open.                  *)
SectionExists == srv.pc # "done" \/ \E k \in Clients : Holds(k)

Messages == [from : Clients, id : 1..MaxSends, generation : 0..(Generations - 1)]
Rings    == [count : Nat, msgs : Seq(Messages), data : BOOLEAN]

Sections ==
    [server_state : {"IDLE", "READY"}, client_state : {"IDLE", "HELLO", "READY"},
     generation : 0..(Generations - 1), connect_req : BOOLEAN, connect_ack : BOOLEAN,
     disconnect : BOOLEAN, c2s : Rings, s2c : Rings]
ServerWorkers ==
    [pc : {"wait", "ready", "pass", "top", "read", "take", "took", "pause", "end", "done"},
     running : BOOLEAN, left : 0..RecvBatch, hand : Messages \cup {<<>>}]
ClientWorkers ==
    [pc : {"idle", "open", "req", "wait", "top", "send", "write", "discard", "signal", "pause",
           "delay", "done", "dead"},
     running : BOOLEAN, asked : {"no", "stop", "drop"}, cmds : Seq(1..MaxSends),
     shutdown : BOOLEAN, queue : Seq(1..MaxSends), generation : 0..(Generations - 1),
     tight : BOOLEAN, was_empty : BOOLEAN, raced : BOOLEAN]

Types ==
    /\ shm \in Sections /\ srv \in ServerWorkers /\ cli \in [Clients -> ClientWorkers]
    /\ got \in [Clients -> 0..MaxSends] /\ sent \in 0..MaxSends
    /\ fault \in {"none", "corrupt", "torn"} \cup Faults

(* No reader has come upon a ring that is not what its count says, or found   *)
(* it broken: the connection then ends without a word to the peer.            *)
Sound == fault \notin {"corrupt", "torn"}
(* What happens once the reader took what is no message is not followed.      *)
Followed == fault # "torn"

(* Type correctness, and the limits of the queues and of the ring.            *)
TypeOK ==
    /\ Types
    /\ \A k \in Clients : Len(cli[k].queue) <= MaxSendQueue
    /\ Sound => shm.c2s.count <= RingMax /\ Len(shm.c2s.msgs) <= shm.c2s.count

----------------------------------------------------------------------------
(* server_worker.  Its own messages to the clients are not modelled.          *)
ServerMoves(pc) == srv' = [srv EXCEPT !.pc = pc]

(* The drop of AutoServer; its stop() does the same when the worker drains    *)
(* its commands, which it does in every round.                                *)
ServerStops ==
    /\ srv.running
    /\ srv' = [srv EXCEPT !.running = FALSE]
    /\ UNCHANGED <<shm, cli, got, sent, fault>>

(* The connection is over, and running is looked at before the next one.      *)
Waits == IF srv.running THEN "wait" ELSE "end"

(* wait_for_client, which otherwise times out: the request is consumed, and   *)
(* is in vain if the client is gone by now.  A drop does not end the call.    *)
TakeRequest ==
    /\ srv.pc = "wait" /\ shm.connect_req
    /\ LET x == [shm EXCEPT !.connect_req = FALSE] IN
       IF shm.client_state = "HELLO"
       THEN shm' = ServerReady(ResetRings(x)) /\ ServerMoves("ready")
       ELSE shm' = x /\ ServerMoves(Waits)
    /\ UNCHANGED <<cli, got, sent, fault>>

AckRequest ==
    /\ srv.pc = "ready"
    /\ shm' = Acknowledge(ClientReady(shm))
    /\ ServerMoves("pass")
    /\ UNCHANGED <<cli, got, sent, fault>>

(* The rest of the round; running is looked at before the next one.           *)
Pass ==
    /\ srv.pc = "pass" \/ (srv.pc = "top" /\ srv.running)
    /\ srv' = [srv EXCEPT !.pc = "read", !.left = RecvBatch]
    /\ UNCHANGED <<shm, cli, got, sent, fault>>

(* process_receive_queue, message by message: message_count is looked at, the *)
(* message is taken, and then counted down and handed to on_message.  After   *)
(* recv_batch of them the worker goes on without waiting.                     *)
Drains == srv' = [srv EXCEPT !.pc = "pause", !.left = 0]
Read ==
    /\ srv.pc = "read"
    /\ IF QueueEmpty(shm.c2s) THEN Drains ELSE ServerMoves("take")
    /\ UNCHANGED <<shm, cli, got, sent, fault>>

Take ==
    /\ srv.pc = "take" /\ ~Phantom(shm.c2s)
    /\ srv' = [srv EXCEPT !.pc = "took", !.hand = Head(shm.c2s.msgs)]
    /\ shm' = [shm EXCEPT !.c2s = Taken(@)]
    /\ UNCHANGED <<cli, got, sent, fault>>

(* The writer has discarded what was counted.  If that made the reader's own  *)
(* compare_exchange fail, it looks at the count again; or it may take bytes   *)
(* that nobody sent for the message.                                          *)
LookAgain ==
    /\ srv.pc = "take" /\ Phantom(shm.c2s) /\ QueueEmpty(shm.c2s)
    /\ Drains
    /\ UNCHANGED <<shm, cli, got, sent, fault>>
TakeNothing ==
    /\ srv.pc = "take" /\ Phantom(shm.c2s)
    /\ srv' = [srv EXCEPT !.pc = "took", !.hand = <<>>]
    /\ fault' = "torn"
    /\ UNCHANGED <<shm, cli, got, sent>>

OnMessage ==
    /\ srv.pc = "took"
    /\ shm' = [shm EXCEPT !.c2s = Subtracted(@)]
    /\ got' = [got EXCEPT ![srv.hand.from] = srv.hand.id]
    /\ srv' = [srv EXCEPT !.pc = IF srv.left = 1 THEN "top" ELSE "read",
                          !.left = @ - 1, !.hand = <<>>]
    /\ UNCHANGED <<cli, sent, fault>>

(* The ring is found corrupted: on_disconnect, and the peer is not told.      *)
MayCorrupt == fault = "none" /\ "corrupt" \in Faults
ReadCorrupted ==
    /\ srv.pc = "take" /\ (Phantom(shm.c2s) \/ MayCorrupt)
    /\ fault' = "corrupt"
    /\ shm' = MarkDisconnected(shm)
    /\ srv' = [srv EXCEPT !.pc = Waits, !.left = 0]
    /\ UNCHANGED <<cli, got, sent>>

(* A wrong variant of Wake: a wait without a timeout.                         *)
WakeSignalled ==
    /\ srv.pc = "pause" /\ (shm.disconnect \/ shm.c2s.data)
    /\ IF shm.disconnect
       THEN shm' = MarkDisconnected([shm EXCEPT !.disconnect = FALSE]) /\ ServerMoves(Waits)
       ELSE shm' = [shm EXCEPT !.c2s.data = FALSE] /\ ServerMoves("top")
    /\ UNCHANGED <<cli, got, sent, fault>>

(* wait_any: the lowest signalled event - disconnect before data - or timeout.*)
Wake ==
    /\ srv.pc = "pause"
    /\ IF shm.disconnect
       THEN shm' = MarkDisconnected([shm EXCEPT !.disconnect = FALSE]) /\ ServerMoves(Waits)
       ELSE shm' = [shm EXCEPT !.c2s.data = FALSE] /\ ServerMoves("top")
    /\ UNCHANGED <<cli, got, sent, fault>>

(* The head of the loop; a wait for a client has timed out.                   *)
ServerEnds ==
    /\ srv.pc \in {"wait", "top", "end"} /\ ~srv.running
    /\ shm' = DropServer(shm, srv.pc = "top")
    /\ ServerMoves("done")
    /\ UNCHANGED <<cli, got, sent, fault>>

ServerStep ==
    /\ Followed
    /\ \/ TakeRequest \/ AckRequest \/ Pass \/ Read \/ Take \/ LookAgain \/ TakeNothing \/ OnMessage
       \/ Wake \/ ServerEnds

----------------------------------------------------------------------------
(* client_worker of process k.                                                *)
ClientMoves(k, pc) == cli' = [cli EXCEPT ![k].pc = pc]
(* The inner loop is left for wait_delay, over which the endpoint is kept.    *)
Disconnected(k) == cli' = [cli EXCEPT ![k].pc = "delay", ![k].generation = 0, ![k].raced = FALSE]

(* The user's calls: connect, send, stop, drop.  The drop clears running      *)
(* itself; stop() only queues a command, Shutdown.  All commands are drained  *)
(* at once, so that its place among the messages makes no difference.         *)
Start(k) ==
    /\ cli[k].pc = "idle"
    /\ ClientMoves(k, "open")
    /\ UNCHANGED <<shm, srv, got, sent, fault>>

Send(k) ==
    /\ k \in Senders /\ sent < MaxSends
    /\ Alive(k) /\ cli[k].running
    /\ sent' = sent + 1
    /\ cli' = [cli EXCEPT ![k].cmds = Append(@, sent + 1)]
    /\ UNCHANGED <<shm, srv, got, fault>>

Stop(k) ==
    /\ k \in Senders /\ Alive(k) /\ cli[k].asked = "no"
    /\ cli' = [cli EXCEPT ![k].asked = "stop", ![k].shutdown = TRUE]
    /\ UNCHANGED <<shm, srv, got, sent, fault>>

DropHandle(k) ==
    /\ Alive(k) /\ cli[k].asked # "drop"
    /\ cli' = [cli EXCEPT ![k].asked = "drop", ![k].running = FALSE]
    /\ UNCHANGED <<shm, srv, got, sent, fault>>

(* The head of the outer loop, and SharedClient::connect, which fails while   *)
(* there is no section.  Commands are not looked at on this way.              *)
Open(k) ==
    /\ cli[k].pc = "open"
    /\ IF cli[k].running
       THEN SectionExists /\ shm' = Hello(shm) /\ ClientMoves(k, "req")
       ELSE UNCHANGED shm /\ cli' = [cli EXCEPT ![k] = Blank("done")]
    /\ UNCHANGED <<srv, got, sent, fault>>

SetRequest(k) ==
    /\ cli[k].pc = "req"
    /\ shm' = Request(shm)
    /\ ClientMoves(k, "wait")
    /\ UNCHANGED <<srv, got, sent, fault>>

(* The acknowledgement may be one of an earlier attempt: then server_state    *)
(* decides.                                                                   *)
Taking(k, x) ==
    /\ cli[k].pc = "wait" /\ shm.connect_ack
    /\ IF x.server_state = "READY"
       THEN shm' = x /\ cli' = [cli EXCEPT ![k].pc = "top", ![k].generation = x.generation]
       ELSE shm' = GiveUp(x) /\ ClientMoves(k, "open")
    /\ UNCHANGED <<srv, got, sent, fault>>

TakeAckKept(k) == Taking(k, shm)   \* a wrong variant: a manual-reset event
TakeAck(k)     == Taking(k, [shm EXCEPT !.connect_ack = FALSE])

(* connect_timeout passes.  It may pass at any time; it does pass if nobody   *)
(* is going to answer: the server is not in the handshake and has no request. *)
NobodyAnswers == srv.pc \notin {"wait", "ready"} \/ (srv.pc = "wait" /\ ~shm.connect_req)

AckTimeout(k) ==
    /\ cli[k].pc = "wait" /\ ~shm.connect_ack
    /\ shm' = GiveUp(shm)
    /\ ClientMoves(k, "open")
    /\ UNCHANGED <<srv, got, sent>>
TimesOut(k) == NobodyAnswers /\ AckTimeout(k) /\ UNCHANGED fault
TimesOutEarly(k) ==
    /\ ~NobodyAnswers /\ fault = "none" /\ "timeout" \in Faults
    /\ AckTimeout(k) /\ fault' = "timeout"

(* drain_commands: message by message, a full queue loses its oldest one; of  *)
(* the old messages and the new the last are left.                            *)
EnqueueAll(q, ms) == q \o ms   \* a wrong variant
Enqueue(q, ms) ==
    LET all == q \o ms
    IN  IF Len(all) <= MaxSendQueue THEN all
                                    ELSE SubSeq(all, Len(all) - MaxSendQueue + 1, Len(all))
Drained(c, pc) ==
    [c EXCEPT !.pc = pc, !.queue = Enqueue(@, c.cmds), !.cmds = <<>>,
              !.running = @ /\ ~c.shutdown, !.shutdown = FALSE, !.raced = FALSE]

(* A wrong variant of ClientPass: Shutdown is obeyed before the queue is sent.*)
ClientPassAbrupt(k) ==
    /\ cli[k].pc = "top" /\ cli[k].running
    /\ cli' = [cli EXCEPT ![k] = Drained(@, IF @.shutdown THEN "top" ELSE "send")]
    /\ UNCHANGED <<shm, srv, got, sent, fault>>

ClientPass(k) ==
    /\ cli[k].pc = "top" /\ cli[k].running
    /\ cli' = [cli EXCEPT ![k] = Drained(@, "send")]
    /\ UNCHANGED <<shm, srv, got, sent, fault>>

(* process_send_queue.  Each message leaves the queue and is written.  One    *)
(* that cannot be written goes back to the front and ends the pass: it is too *)
(* large, or while it was being written the server took the last message of a *)
(* ring that had no room (raced).                                             *)
Sendable(k) == cli[k].queue # <<>> /\ Head(cli[k].queue) \notin TooLarge
Looks(k) ==
    \E tight \in Loads(shm.c2s) : cli' = [cli EXCEPT ![k].pc = "write", ![k].tight = tight]
Load(k) ==
    /\ cli[k].pc = "send" /\ Sendable(k)
    /\ Looks(k)
    /\ UNCHANGED <<shm, srv, got, sent, fault>>

Message(k) == [from |-> k, id |-> Head(cli[k].queue), generation |-> cli[k].generation]
Writing(k, queue) ==
    /\ cli[k].pc = "write" /\ ~Full(shm.c2s, cli[k].tight)
    /\ shm' = [shm EXCEPT !.c2s = Counted(@, Message(k))]
    /\ cli' = [cli EXCEPT ![k].pc = "signal", ![k].queue = queue,
                          ![k].was_empty = WasEmpty(shm.c2s)]
    /\ UNCHANGED <<srv, got, sent, fault>>

WriteKeeps(k) == Writing(k, cli[k].queue)   \* a wrong variant: left for a retry
Write(k)      == Writing(k, Tail(cli[k].queue))

Discard(k) ==
    /\ cli[k].pc = "write" /\ Discards(shm.c2s, cli[k].tight)
    /\ shm' = [shm EXCEPT !.c2s = Taken(@)]
    /\ ClientMoves(k, "discard")
    /\ UNCHANGED <<srv, got, sent, fault>>
Discount(k) ==
    /\ cli[k].pc = "discard"
    /\ shm' = [shm EXCEPT !.c2s = Subtracted(@)]
    /\ Looks(k)
    /\ UNCHANGED <<srv, got, sent, fault>>

Refuse(k) ==
    /\ cli[k].pc = "write" /\ Refuses(shm.c2s, cli[k].tight)
    /\ cli' = [cli EXCEPT ![k].pc = "pause", ![k].tight = FALSE,
                          ![k].raced = cli[k].tight \/ srv.pc = "took"]
    /\ UNCHANGED <<shm, srv, got, sent, fault>>

Signal(k) ==
    /\ cli[k].pc = "signal"
    /\ shm' = [shm EXCEPT !.c2s = Signalled(@, cli[k].was_empty)]
    /\ cli' = [cli EXCEPT ![k].pc = "send", ![k].tight = FALSE, ![k].was_empty = FALSE]
    /\ UNCHANGED <<srv, got, sent, fault>>

(* The rest of the pass: nothing is received here.                            *)
Paused(k) == cli[k].pc = "pause" \/ (cli[k].pc = "send" /\ ~Sendable(k))
(* wait_any: disconnect - on_disconnect, mark_disconnected, and so a drop of  *)
(* the endpoint that signals nobody - or a timeout.                           *)
Waking(k) ==
    /\ IF shm.disconnect
       THEN shm' = [shm EXCEPT !.disconnect = FALSE] /\ Disconnected(k)
       ELSE UNCHANGED shm /\ ClientMoves(k, "top")
    /\ UNCHANGED <<srv, got, sent, fault>>

ClientWakeSent(k) == cli[k].pc = "send" /\ cli[k].queue = <<>> /\ Waking(k)  \* a wrong variant
ClientWake(k)     == Paused(k) /\ Waking(k)

(* The client's receiving ring is found corrupted: as silent.                 *)
ClientReadCorrupted(k) ==
    /\ Paused(k) /\ MayCorrupt
    /\ fault' = "corrupt"
    /\ Disconnected(k)
    /\ UNCHANGED <<shm, srv, got, sent>>

DelayEnds(k) ==
    /\ cli[k].pc = "delay"
    /\ ClientMoves(k, "open")
    /\ UNCHANGED <<shm, srv, got, sent, fault>>

(* running is seen false in the loop: no callback, and a drop that signals.   *)
Leaving(k, x) ==
    /\ cli[k].pc = "top" /\ ~cli[k].running
    /\ shm' = x
    /\ cli' = [cli EXCEPT ![k] = Blank("done")]
    /\ UNCHANGED <<srv, got, sent, fault>>

LeavesSilently(k) == Leaving(k, GiveUp(shm))   \* a wrong variant
ClientLeaves(k)   == Leaving(k, DropClient(shm))

(* The process ends: nothing is dropped in order, nobody is told.             *)
Crash(k) ==
    /\ Alive(k) /\ fault = "none" /\ "crash" \in Faults
    /\ fault' = "crash"
    /\ cli' = [cli EXCEPT ![k] = Blank("dead")]
    /\ UNCHANGED <<shm, srv, got, sent>>

ClientStep(k) ==
    /\ Followed
    /\ \/ Open(k) \/ SetRequest(k) \/ TakeAck(k) \/ TimesOut(k)
       \/ ClientPass(k) \/ Load(k) \/ Write(k) \/ Discard(k) \/ Discount(k) \/ Refuse(k) \/ Signal(k)
       \/ ClientWake(k) \/ DelayEnds(k) \/ ClientLeaves(k)

Next ==
    \/ ServerStep
    \/ Followed /\ (ServerStops \/ ReadCorrupted)
    \/ \E k \in Clients :
         \/ ClientStep(k)
         \/ Followed /\ (TimesOutEarly(k) \/ ClientReadCorrupted(k) \/ Crash(k))
         \/ Followed /\ (Start(k) \/ Send(k) \/ Stop(k) \/ DropHandle(k))

Spec == Init /\ [][Next]_vars

(* The workers are scheduled, and their waits end; users and faults owe       *)
(* nothing.                                                                   *)
FairSpec == Spec /\ WF_vars(ServerStep) /\ \A k \in Clients : WF_vars(ClientStep(k))

----------------------------------------------------------------------------
(* Properties.                                                                *)

(* A ring has one writer: two clients are never connected at a time, whatever *)
(* acknowledgements, requests and disconnects of earlier attempts are still   *)
(* signalled.  (Not after a fatal error, of which the peer is not told.)      *)
OneClientUp ==
    Sound => Cardinality({k \in Clients : Up(k)}) <= 1

(* Clean start: the server delivers only what was sent on the connection it   *)
(* is in, never what an earlier client left in the ring.                      *)
CleanStart ==
    Sound /\ srv.pc = "took" => srv.hand.generation = shm.generation

(* Messages of one client arrive in the order of their sends, none twice,     *)
(* across full queues, failed writes, reconnections and corruptions.          *)
InOrder ==
    [][srv.pc = "took" /\ srv'.pc # "took" => srv.hand.id > got[srv.hand.from]]_vars

(* stop() lets the messages accepted before it out first: when the worker     *)
(* leaves, the queue holds nothing, or its first message fits no ring, or the *)
(* last write raced with the server for the last message of a full ring.      *)
(* (Not after a corruption or a stale count that was trusted: of two clients  *)
(* that are then connected one may find no room.)                             *)
StopFlushes ==
    [][\A k \in Clients :
         Sound /\ cli[k].asked = "stop" /\ cli[k].pc = "top" /\ cli'[k].pc = "done"
            => cli[k].queue = <<>> \/ Head(cli[k].queue) \in TooLarge \/ cli[k].raced]_vars

(* What is in the ring of a connected server leaves it: delivered, or         *)
(* overwritten, or the connection ends.  A signal for it may be lost - the    *)
(* writer saw a count the reader had not yet lowered - and then the timeout   *)
(* of wait_any finds it.                                                      *)
Delivered ==
    (ServerUp /\ shm.c2s.msgs # <<>>)
        ~> (~ServerUp \/ shm.c2s.msgs = <<>> \/ ~Sound)

(* Automatic reconnect: a client that runs alone, with a server that runs,    *)
(* comes to be connected to it - however its predecessors and its own earlier *)
(* attempts ended, short of a crash or a corruption.                          *)
Alone(k) ==
    /\ fault \in {"none", "timeout"} /\ srv.running /\ cli[k].asked = "no" /\ Alive(k)
    /\ \A j \in Clients \ {k} : cli[j].pc \in {"idle", "done"}
Reconnects ==
    (\E k \in Clients : Alone(k)) ~> (\A k \in Clients : Alone(k) => Up(k) /\ ServerUp)

(* The drop of an AutoClient, which joins its worker, returns.                *)
DropReturns ==
    (\E k \in Clients : cli[k].asked = "drop")
        ~> (\A k \in Clients : cli[k].asked # "drop") \/ fault = "torn"
=============================================================================
