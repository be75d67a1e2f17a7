-------------------------------- MODULE CApi --------------------------------
(* A SharedServer and a SharedClient that their programs drive themselves,    *)
(* through the C functions of ffi.rs: one handle of a server, from            *)
(* shm_server_start to shm_server_stop, and the handles a client process gets *)
(* one after the other.  There is no worker: a call is made or not made, and  *)
(* every wait has the timeout the caller gives it, forever included.  The     *)
(* server may be anonymous (SharedServer::start_anonymous): there are no      *)
(* events then, and a driver that got the section's handle is the client.     *)
(*                                                                            *)
(* A process sends from one thread and receives from another; it connects,    *)
(* waits and closes a handle only while no other call of its uses it.         *)
EXTENDS Channel

CONSTANTS
    Lens,           \* the lengths of the messages, and of the receivers' buffers
    MaxSends,       \* bound on the messages that are sent, by both ends
    MaxTries,       \* bound on the calls of shm_client_connect
    EarlyTimeouts   \* bound on the calls of it that end just before the answer

ASSUME CApiAssumption ==
    /\ Lens \subseteq Nat \ {0}
    /\ {MaxSends, MaxTries, EarlyTimeouts} \subseteq Nat

VARIABLES
    shm,        \* the section, with its events
    anonymous,  \* the server has no events
    ctl,        \* the call of each end that connects it, or "none"
    up,         \* SharedServer.connected, SharedClient.connected
    tx,         \* the sending thread of each end: its place, WriteOutcome
    rx,         \* the receiving thread of each end: its place
    torn,       \* per direction, named after its receiver: read_pos has left
                \* the messages
    cache,      \* RecvCache of each handle
    accepted,   \* how many messages each end's sends have accepted
    given,      \* the number of the message last given to each end's program
    tries, early

vars == <<shm, anonymous, ctl, up, tx, rx, torn, cache, accepted, given, tries, early>>

Ends == {"server", "client"}
Peer(e) == IF e = "server" THEN "client" ELSE "server"
RingTo(e) == IF e = "server" THEN "c2s" ELSE "s2c"
NoMessage == [id |-> 0, len |-> 0]
NoSend == [pc |-> "idle", tight |-> FALSE, was_empty |-> FALSE]

(* shm_server_start or start_anonymous has returned.                          *)
Started == shm = Fresh /\ anonymous \in BOOLEAN
Init ==
    /\ Started
    /\ ctl = [e \in Ends |-> IF e = "server" THEN "none" ELSE "out"]
    /\ up = [e \in Ends |-> FALSE]
    /\ tx = [e \in Ends |-> NoSend]
    /\ rx = [e \in Ends |-> "idle"]
    /\ torn = [e \in Ends |-> FALSE]
    /\ cache = [e \in Ends |-> [buffer |-> NoMessage, pending |-> FALSE]]
    /\ accepted = [e \in Ends |-> 0] /\ given = [e \in Ends |-> 0]
    /\ tries = 0 /\ early = 0

(* Or else a call returns NotConnected.                                       *)
ensure_connected(e) == up[e]
(* A direction that is torn is followed no further: its ends still finish     *)
(* their calls, and make no new ones.                                         *)
Sends(e)    == ensure_connected(e) /\ ~torn[Peer(e)]
Receives(e) == ensure_connected(e) /\ ~torn[e]
Idle(e) == ctl[e] = "none" /\ tx[e].pc = "idle" /\ rx[e] = "idle"
At(e, pc) == ctl' = [ctl EXCEPT ![e] = pc]

(* The handle is freed, and a message that it keeps goes with it.             *)
Closes(e) ==
    /\ up' = [up EXCEPT ![e] = FALSE]
    /\ cache' = [cache EXCEPT ![e].pending = FALSE]
    /\ given' = [given EXCEPT ![e] = cache[e].buffer.id]

----------------------------------------------------------------------------
(* The calls that connect and close.                                          *)
WaitForClient ==
    /\ Idle("server") /\ ~up["server"]      \* or else AlreadyConnected
    /\ At("server", "wait")
    /\ UNCHANGED <<shm, anonymous, up, tx, rx, torn, cache, accepted, given, tries, early>>

Accepts(x) == shm' = ServerReady(ResetRings(x)) /\ At("server", "ready")
TakeRequest ==
    /\ ctl["server"] = "wait" /\ ~anonymous /\ shm.connect_req
    /\ LET x == [shm EXCEPT !.connect_req = FALSE] IN
       IF shm.client_state = "HELLO"
       THEN Accepts(x)
       ELSE shm' = x /\ At("server", "none")    \* HandshakeFailed
    /\ UNCHANGED <<anonymous, up, tx, rx, torn, cache, accepted, given, tries, early>>
(* wait_for_client_noevent.                                                   *)
SeeHello ==
    /\ ctl["server"] = "wait" /\ anonymous /\ shm.client_state = "HELLO"
    /\ Accepts(shm)
    /\ UNCHANGED <<anonymous, up, tx, rx, torn, cache, accepted, given, tries, early>>

AckRequest ==
    /\ ctl["server"] = "ready"
    /\ shm' = IF anonymous THEN ClientReady(shm) ELSE Acknowledge(ClientReady(shm))
    /\ At("server", "none")
    /\ up' = [up EXCEPT !["server"] = TRUE]
    /\ UNCHANGED <<anonymous, tx, rx, torn, cache, accepted, given, tries, early>>

WaitTimesOut ==
    /\ ctl["server"] = "wait"
    /\ At("server", "none")
    /\ UNCHANGED <<shm, anonymous, up, tx, rx, torn, cache, accepted, given, tries, early>>

StopServer ==
    /\ Idle("server")
    /\ shm' = DropServer(shm, up["server"] /\ ~anonymous)
    /\ At("server", "stopped") /\ Closes("server")
    /\ UNCHANGED <<anonymous, tx, rx, torn, accepted, tries, early>>

(* shm_client_connect: a section to open there is as long as the server lives.*)
Connect ==
    /\ ctl["client"] = "out" /\ ctl["server"] # "stopped" /\ tries < MaxTries
    /\ shm' = Hello(shm)
    /\ At("client", IF anonymous THEN "wait" ELSE "req")
    /\ tries' = tries + 1
    /\ UNCHANGED <<anonymous, up, tx, rx, torn, cache, accepted, given, early>>
SetRequest ==
    /\ ctl["client"] = "req"
    /\ shm' = Request(shm)
    /\ At("client", "wait")
    /\ UNCHANGED <<anonymous, up, tx, rx, torn, cache, accepted, given, tries, early>>

Connected ==
    /\ At("client", "none")
    /\ up' = [up EXCEPT !["client"] = TRUE]
    /\ UNCHANGED <<anonymous, tx, rx, torn, cache, accepted, given, tries, early>>
TakeAck ==
    /\ ctl["client"] = "wait" /\ shm.connect_ack
    /\ LET x == [shm EXCEPT !.connect_ack = FALSE] IN
       IF shm.server_state = "READY"
       THEN shm' = x /\ Connected
       ELSE /\ shm' = GiveUp(x) /\ At("client", "out")
            /\ UNCHANGED <<anonymous, up, tx, rx, torn, cache, accepted, given, tries, early>>
(* The driver sees that the server is ready.                                  *)
SeeReady ==
    /\ ctl["client"] = "wait" /\ anonymous
    /\ shm.server_state = "READY" /\ shm.client_state = "READY"
    /\ UNCHANGED shm /\ Connected

NobodyAnswers == ctl["server"] \in {"none", "stopped"}
ConnectTimesOut ==
    /\ ctl["client"] = "wait" /\ ~anonymous /\ ~shm.connect_ack
    /\ NobodyAnswers \/ early < EarlyTimeouts
    /\ early' = IF NobodyAnswers THEN early ELSE early + 1
    /\ shm' = GiveUp(shm)
    /\ At("client", "out")
    /\ UNCHANGED <<anonymous, up, tx, rx, torn, cache, accepted, given, tries>>

Disconnect ==
    /\ Idle("client")
    /\ shm' = IF anonymous THEN GiveUp(shm) ELSE DropClient(shm)
    /\ At("client", "out") /\ Closes("client")
    /\ UNCHANGED <<anonymous, tx, rx, torn, accepted, tries, early>>

----------------------------------------------------------------------------
(* shm_server_send and shm_client_send: the loop of write_message.            *)
Sent(e) == tx' = [tx EXCEPT ![e] = NoSend]
Ring(e, r) == shm' = [shm EXCEPT ![RingTo(Peer(e))] = r]
Out(e) == shm[RingTo(Peer(e))]
Looks(e) == \E tight \in Loads(Out(e)) : tx' = [tx EXCEPT ![e].pc = "test", ![e].tight = tight]

(* The sends under way that may still accept a message, for the bound.        *)
Writing(e) == tx[e].pc \in {"test", "discarded"}
Send(e) ==
    /\ Sends(e) /\ tx[e].pc = "idle"
    /\ accepted[e] + accepted[Peer(e)] + (IF Writing(Peer(e)) THEN 1 ELSE 0) < MaxSends
    /\ Looks(e)
    /\ UNCHANGED <<shm, anonymous, ctl, up, rx, torn, cache, accepted, given, tries, early>>

Refuse(e) ==
    /\ tx[e].pc = "test" /\ Refuses(Out(e), tx[e].tight)
    /\ Sent(e)
    /\ UNCHANGED <<shm, anonymous, ctl, up, rx, torn, cache, accepted, given, tries, early>>

Discard(e) ==
    /\ tx[e].pc = "test" /\ Discards(Out(e), tx[e].tight)
    /\ Ring(e, Taken(Out(e)))
    /\ tx' = [tx EXCEPT ![e].pc = "discarded", ![e].tight = FALSE]
    /\ UNCHANGED <<anonymous, ctl, up, rx, torn, cache, accepted, given, tries, early>>
(* ... and the positions are loaded again.                                    *)
Discount(e) ==
    /\ tx[e].pc = "discarded"
    /\ Ring(e, Subtracted(Out(e)))
    /\ Looks(e)
    /\ UNCHANGED <<anonymous, ctl, up, rx, torn, cache, accepted, given, tries, early>>

Count(e) ==
    /\ tx[e].pc = "test" /\ ~Full(Out(e), tx[e].tight)
    /\ \E len \in Lens : Ring(e, Counted(Out(e), [id |-> accepted[e] + 1, len |-> len]))
    /\ accepted' = [accepted EXCEPT ![e] = @ + 1]
    /\ tx' = [tx EXCEPT ![e].pc = "signal", ![e].was_empty = WasEmpty(Out(e))]
    /\ UNCHANGED <<anonymous, ctl, up, rx, torn, cache, given, tries, early>>

(* Without events the receiver has to look by itself.                         *)
Signals(e) == tx[e].was_empty /\ ~anonymous
(* A wrong variant of Signal: the outcome of the write is not looked at.      *)
SignalNothing(e) ==
    /\ tx[e].pc = "signal"
    /\ Sent(e)
    /\ UNCHANGED <<shm, anonymous, ctl, up, rx, torn, cache, accepted, given, tries, early>>
Signal(e) ==
    /\ tx[e].pc = "signal"
    /\ Ring(e, Signalled(Out(e), Signals(e)))
    /\ Sent(e)
    /\ UNCHANGED <<anonymous, ctl, up, rx, torn, cache, accepted, given, tries, early>>

----------------------------------------------------------------------------
(* shm_server_receive and shm_client_receive.  The lock of the cache is held  *)
(* all along.                                                                 *)
In(e) == shm[RingTo(e)]
Goes(e, pc) == rx' = [rx EXCEPT ![e] = pc]
Receive(e) ==
    /\ Receives(e) /\ rx[e] = "idle"
    /\ cache[e].pending \/ ~QueueEmpty(In(e))
    /\ Goes(e, IF cache[e].pending THEN "give" ELSE "take")
    /\ UNCHANGED <<shm, anonymous, ctl, up, tx, torn, cache, accepted, given, tries, early>>

Returns(e) == Goes(e, "idle")
(* The message leaves the ring for good.                                      *)
Take(e) ==
    /\ rx[e] = "take" /\ ~Phantom(In(e))
    /\ shm' = [shm EXCEPT ![RingTo(e)] = Taken(@)]
    /\ cache' = [cache EXCEPT ![e].buffer = Head(In(e).msgs)]
    /\ Goes(e, "subtract")
    /\ UNCHANGED <<anonymous, ctl, up, tx, torn, accepted, given, tries, early>>
(* The writer has discarded what the reader saw counted.  The call returns    *)
(* Corrupted, or QueueEmpty if it looks again; or bytes that nobody sent are  *)
(* the message.                                                               *)
Corrupted(e) ==
    /\ rx[e] = "take" /\ Phantom(In(e))
    /\ Returns(e)
    /\ UNCHANGED <<shm, anonymous, ctl, up, tx, torn, cache, accepted, given, tries, early>>
TakeNothing(e) ==
    /\ rx[e] = "take" /\ Phantom(In(e))
    /\ torn' = [torn EXCEPT ![e] = TRUE]
    /\ \E len \in Lens : cache' = [cache EXCEPT ![e].buffer = [id |-> 0, len |-> len]]
    /\ Goes(e, "subtract")
    /\ UNCHANGED <<shm, anonymous, ctl, up, tx, accepted, given, tries, early>>
Subtract(e) ==
    /\ rx[e] = "subtract"
    /\ shm' = [shm EXCEPT ![RingTo(e)] = Subtracted(@)]
    /\ Goes(e, "give")
    /\ UNCHANGED <<anonymous, ctl, up, tx, torn, cache, accepted, given, tries, early>>

(* A wrong variant of Gives: pending_len is looked at and not taken.          *)
GivesAgain(e, size) ==
    LET fits == cache[e].buffer.len <= size IN
    /\ cache' = [cache EXCEPT ![e].pending = @ \/ ~fits]
    /\ given' = IF fits THEN [given EXCEPT ![e] = cache[e].buffer.id] ELSE given
(* The message is copied, if it is no longer than the caller's buffer.        *)
Gives(e, size) ==
    LET fits == cache[e].buffer.len <= size IN
    /\ cache' = [cache EXCEPT ![e].pending = ~fits]
    /\ given' = IF fits THEN [given EXCEPT ![e] = cache[e].buffer.id] ELSE given
(* A wrong variant of Give: a message that does not fit is forgotten.         *)
GiveOrForget(e) ==
    /\ rx[e] = "give" /\ Returns(e)
    /\ cache' = [cache EXCEPT ![e].pending = FALSE]
    /\ given' \in {given, [given EXCEPT ![e] = cache[e].buffer.id]}
    /\ UNCHANGED <<shm, anonymous, ctl, up, tx, torn, accepted, tries, early>>
Give(e) ==
    /\ rx[e] = "give" /\ Returns(e)
    /\ \E size \in Lens : Gives(e, size)
    /\ UNCHANGED <<shm, anonymous, ctl, up, tx, torn, accepted, tries, early>>

(* shm_server_poll and shm_client_poll, which look at the ring, not at the    *)
(* cache, and wait when it is empty; without events the call returns.         *)
Awaits(e) == In(e).count = 0 /\ ~anonymous
Poll(e) ==
    /\ Receives(e) /\ rx[e] = "idle" /\ Awaits(e)
    /\ \E pc \in {"poll", "poll forever"} : Goes(e, pc)
    /\ UNCHANGED <<shm, anonymous, ctl, up, tx, torn, cache, accepted, given, tries, early>>
PollWakes(e) ==
    /\ rx[e] \in {"poll", "poll forever"} /\ In(e).data
    /\ shm' = [shm EXCEPT ![RingTo(e)].data = FALSE]
    /\ Returns(e)
    /\ UNCHANGED <<anonymous, ctl, up, tx, torn, cache, accepted, given, tries, early>>
PollTimesOut(e) ==
    /\ rx[e] = "poll" /\ ~In(e).data
    /\ Returns(e)
    /\ UNCHANGED <<shm, anonymous, ctl, up, tx, torn, cache, accepted, given, tries, early>>

----------------------------------------------------------------------------
SendStep(e) == Refuse(e) \/ Discard(e) \/ Discount(e) \/ Count(e) \/ Signal(e)
ReceiveStep(e) ==
    Take(e) \/ Corrupted(e) \/ TakeNothing(e) \/ Subtract(e) \/ Give(e) \/ PollWakes(e) \/ PollTimesOut(e)
Next ==
    \/ WaitForClient \/ TakeRequest \/ SeeHello \/ AckRequest \/ WaitTimesOut \/ StopServer
    \/ Connect \/ SetRequest \/ TakeAck \/ SeeReady \/ ConnectTimesOut \/ Disconnect
    \/ \E e \in Ends : SendStep(e) \/ ReceiveStep(e) \/ Send(e) \/ Receive(e) \/ Poll(e)

Spec == Init /\ [][Next]_vars
(* Calls are made or not; one that was made is scheduled.                     *)
FairSpec == Spec /\ \A e \in Ends : WF_vars(SendStep(e)) /\ WF_vars(ReceiveStep(e))

----------------------------------------------------------------------------
(* Properties.                                                                *)

TypeOK ==
    /\ {shm.server_state, shm.client_state} \subseteq {"IDLE", "HELLO", "READY"}
    /\ ctl["server"] \in {"none", "wait", "ready", "stopped"}
    /\ ctl["client"] \in {"out", "req", "wait", "none"}
    /\ tries \in 0..MaxTries /\ early \in 0..EarlyTimeouts
    /\ \A e \in Ends :
         /\ up[e] => ctl[e] = "none"
         /\ ~up[e] => tx[e].pc = "idle" /\ rx[e] = "idle"
         /\ accepted[e] \in 0..MaxSends
         /\ ~torn[e] =>
              /\ In(e).count \in 0..RingMax
              /\ cache[e].pending => given[e] < cache[e].buffer.id
              /\ given[e] \in 0..accepted[Peer(e)]

(* The message that end e has taken from its ring and not given to its        *)
(* program: in the hands of a call, or kept by RecvCache between two calls.   *)
Received(e) == IF cache[e].buffer.id # given[e] THEN cache[e].buffer ELSE NoMessage

(* The queue of the direction to end e, as long as it is one.                 *)
Intact(e, x, nothing) == IF torn[e] THEN nothing ELSE x
C2S == INSTANCE LossyFifo WITH MaxQueued <- RingMax, Lengths <- Lens,
           queue <- Intact("server", shm.c2s.msgs, <<>>),
           accepted <- Intact("server", accepted["client"], 0),
           received <- Intact("server", Received("server"), NoMessage),
           writing <- Intact("server", tx["client"].pc # "idle", FALSE),
           broken <- torn["server"]
S2C == INSTANCE LossyFifo WITH MaxQueued <- RingMax, Lengths <- Lens,
           queue <- Intact("client", shm.s2c.msgs, <<>>),
           accepted <- Intact("client", accepted["server"], 0),
           received <- Intact("client", Received("client"), NoMessage),
           writing <- Intact("client", tx["server"].pc # "idle", FALSE),
           broken <- torn["client"]

(* From one program to the other, each direction is the lossy queue of        *)
(* LossyFifo, in which a message is returned when it fits the caller's        *)
(* buffer: a call with too small a buffer loses nothing, doubles nothing and  *)
(* lets no later message pass, and nothing empties the queue when a client    *)
(* follows another.  It is so until a reader takes bytes for a message that   *)
(* nobody sent, which the stale count of a discard under way can bring about  *)
(* and nothing else (module Ring has the other fault, a turn of positions).   *)
CallsImplementFifo == C2S!FifoSpec /\ S2C!FifoSpec

(* A poll without a timeout returns when there is a message in the ring: the  *)
(* event that a write sets or leaves alone is not the one it needed.          *)
PollReturns ==
    \A e \in Ends :
        rx[e] = "poll forever" /\ In(e).msgs # <<>> ~> rx[e] # "poll forever"
=============================================================================
