------------------------------ MODULE Channel ------------------------------
(* The shared section of one channel and its auto-reset events, as a record,  *)
(* and what SharedServer and SharedClient do to it.  One operator is a run of *)
(* stores between which the peer observes nothing that matters; the modules   *)
(* Auto, Lobby and CApi decide which thread performs which.                   *)
(*                                                                            *)
(* A ring is its message_count and its messages.  The count is stepped after  *)
(* a message was taken, so the two differ in between: that a reader trusts    *)
(* the count is the fault of module Ring, which has the positions; here it is *)
(* a step that may go wrong (Phantom).  The second fault of that module, a    *)
(* full turn of the positions during one read, is left to it.                 *)
(*                                                                            *)
(* The words handshake_state and connection_gen of the rings are written and  *)
(* never read, and are left out; so are the space events, which wake a thread *)
(* that would wake by itself and change nothing else.                         *)
EXTENDS Naturals, Sequences

CONSTANTS Generations,   \* the generation wraps around at this number (2^32)
          RingMax        \* MAX_MESSAGES

ASSUME ChannelAssumption == Generations \in Nat \ {0, 1} /\ RingMax \in Nat \ {0}

EmptyRing == [count |-> 0, msgs |-> <<>>, data |-> FALSE]

(* SharedServer::start on a new section.                                      *)
Fresh ==
    [server_state |-> "IDLE", client_state |-> "IDLE", generation |-> 1,
     connect_req |-> FALSE, connect_ack |-> FALSE, disconnect |-> FALSE,
     c2s |-> EmptyRing, s2c |-> EmptyRing]

(* SharedClient::connect, up to the wait for connect_ack, and its giving up.  *)
Hello(x)   == [x EXCEPT !.client_state = "HELLO"]
Request(x) == [x EXCEPT !.connect_req = TRUE]
GiveUp(x)  == [x EXCEPT !.client_state = "IDLE"]

(* SharedServer::wait_for_client.  The reset leaves the data events alone.    *)
ResetRing(r) == [r EXCEPT !.count = 0, !.msgs = <<>>]
(* A wrong variant of ResetRings: one of the two rings is forgotten.          *)
ResetRingsHalf(x) == [x EXCEPT !.s2c = ResetRing(@)]

ResetRings(x) == [x EXCEPT !.c2s = ResetRing(@), !.s2c = ResetRing(@)]
ServerReady(x) ==
    [x EXCEPT !.generation = (@ + 1) % Generations, !.server_state = "READY"]
ClientReady(x) == [x EXCEPT !.client_state = "READY"]
Acknowledge(x) == [x EXCEPT !.connect_ack = TRUE]

(* SharedServer::mark_disconnected tells nobody; the drop of a connected      *)
(* endpoint signals the peer.                                                 *)
MarkDisconnected(x) == [x EXCEPT !.server_state = "IDLE", !.client_state = "IDLE"]
DropServer(x, connected) ==
    [MarkDisconnected(x) EXCEPT !.disconnect = @ \/ connected]
DropClient(x) == [x EXCEPT !.client_state = "IDLE", !.disconnect = TRUE]

(* write_message.  It loads the positions first: as long as there are         *)
(* messages, they may leave too few bytes free for another (tight).           *)
Loads(r) == {FALSE, r.msgs # <<>>}
(* It loads the count later.  A full ring loses its oldest message - which is *)
(* taken, and then subtracted from the count - and is looked at again; or the *)
(* write fails, when the reader has taken the last one meanwhile.             *)
Full(r, tight)     == tight \/ r.count >= RingMax
Discards(r, tight) == Full(r, tight) /\ r.count # 0 /\ r.msgs # <<>>
Refuses(r, tight)  == Full(r, tight) /\ ~Discards(r, tight)
(* The message can be read once it is counted, just before write_pos is       *)
(* stored; the data event is set last, if the count was zero before.          *)
WasEmpty(r)   == r.count = 0
Counted(r, m) == [r EXCEPT !.count = @ + 1, !.msgs = Append(@, m)]
Signalled(r, was_empty) == [r EXCEPT !.data = @ \/ was_empty]

(* read_message: QueueEmpty, or the oldest message is taken and then          *)
(* subtracted from the count, which wraps around below zero to a number that  *)
(* no ring reaches.  The count that was looked at may be stale: a reader that *)
(* then finds no message where it looks reports Corrupted, or takes bytes     *)
(* there for a message, and loses the writer for good.                        *)
QueueEmpty(r) == r.count = 0
Phantom(r)    == r.msgs = <<>>
Taken(r)      == [r EXCEPT !.msgs = Tail(@)]
Subtracted(r) == [r EXCEPT !.count = IF @ = 0 THEN 2 * RingMax + 1 ELSE @ - 1]
=============================================================================
