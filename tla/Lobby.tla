-------------------------------- MODULE Lobby --------------------------------
(* Registration: the lobby loop of DispatchServer, which serves one client at *)
(* a time on one SharedServer, and lobby_register in the client processes.    *)
(* The lobby shares its section, rings and events with all clients that have  *)
(* it open: the one it serves, the next, and the one before, which may still  *)
(* be reading its answer.                                                     *)
(*                                                                            *)
(* A message is written or read in one step here.  That is all there is to    *)
(* see while one client is inside (module Ring has the steps); two that read  *)
(* the same ring at once could even read the same answer, and nothing is      *)
(* claimed of them.  The data events are left out: they shorten waits that    *)
(* end by themselves.                                                         *)
EXTENDS Channel, Protocol, FiniteSets

CONSTANTS
    Clients,        \* the client processes, by their PIDs, an ASCII character here
    MaxTries,       \* bound on the requests a process sends; how often it
                    \* comes and gives up before is not bounded
    Faults          \* what may go wrong, once in all: a process ends ("crash"), one
                    \* side gives up just before the other would have gone on
                    \* ("timeout"), the channel cannot be created ("reject"), its
                    \* name cannot be sent ("unsent"), or a message is not of
                    \* this protocol ("garbage")

ASSUME LobbyAssumption ==
    /\ Clients \subseteq 0..127 /\ MaxTries \in Nat
    /\ Faults \subseteq {"crash", "timeout", "reject", "unsent", "garbage"}

VARIABLES
    shm,        \* the section of the lobby, with its events
    lobby,      \* the worker: its place, `running`, the registration in its hands
    info,       \* info[i]: the registration that got client_id i
    reg,        \* lobby_register of each process: its place, the requests it has
                \* sent, its answer
    fault       \* the fault that happened

vars == <<shm, lobby, info, reg, fault>>

next_client_id == Len(info) + 1

Init ==
    /\ shm = Fresh
    /\ lobby = [pc |-> "start", running |-> TRUE]
    /\ info = <<>>
    /\ reg = [k \in Clients |-> [pc |-> "out", tries |-> 0, id |-> 0, met |-> FALSE]]
    /\ fault = "none"

Inside(k)  == reg[k].pc \in {"req", "wait", "send", "answer"}
LobbyHolds == lobby.pc \in {"wait", "ready", "serve", "reply", "mark"}
(* The section has a name as long as somebody holds it open.                  *)
SectionExists == LobbyHolds \/ \E k \in Clients : Inside(k)

(* A client writes once when it is let in, and the rings are reset whenever   *)
(* one is let in: no ring gets full here.                                     *)
Write(r, m) == Counted(r, m)
ReadOff(r) == Subtracted(Taken(r))

Happens(f) == fault = "none" /\ f \in Faults /\ fault' = f

----------------------------------------------------------------------------
(* worker_loop.                                                               *)
Moves(pc) == lobby' = [lobby EXCEPT !.pc = pc]

(* The lobby is created, or created anew: never while the name is in use.     *)
CreateLobby ==
    /\ lobby.pc = "start" /\ lobby.running /\ ~SectionExists
    /\ shm' = Fresh
    /\ Moves("wait")
    /\ UNCHANGED <<info, reg, fault>>

(* wait_for_client, which otherwise times out; the one that is under way when *)
(* stop is called still takes a request.  A request without a HELLO is an     *)
(* error, for which the lobby is dropped.                                     *)
TakeRequest ==
    /\ lobby.pc = "wait" /\ shm.connect_req
    /\ LET x == [shm EXCEPT !.connect_req = FALSE] IN
       IF shm.client_state = "HELLO"
       THEN shm' = ServerReady(ResetRings(x)) /\ Moves("ready")
       ELSE shm' = DropServer(x, FALSE) /\ Moves("start")
    /\ UNCHANGED <<info, reg, fault>>

AckRequest ==
    /\ lobby.pc = "ready"
    /\ shm' = Acknowledge(ClientReady(shm))
    /\ Moves("serve")
    /\ UNCHANGED <<info, reg, fault>>

(* handle_lobby_client: the registration, decoded, gets an id and a channel - *)
(* or the request is no request.                                              *)
ReadRequest ==
    /\ lobby.pc = "serve" /\ lobby.running /\ ~QueueEmpty(shm.c2s)
    /\ shm' = [shm EXCEPT !.c2s = ReadOff(@)]
    /\ LET data == Head(shm.c2s.msgs) IN
       IF request_error(data) = "none"
       THEN info' = Append(info, decode_request(data)) /\ Moves("reply")
       ELSE UNCHANGED info /\ Moves("mark")
    /\ UNCHANGED <<reg, fault>>

Serving(id, status) ==
    encode_response([status |-> status, client_id |-> <<id, 0, 0, 0>>,
                     channel_name |-> IF status = STATUS_OK THEN <<id>> ELSE <<>>])

Reply ==
    /\ lobby.pc = "reply"
    /\ shm' = [shm EXCEPT !.s2c = Write(@, Serving(Len(info), STATUS_OK))]
    /\ Moves("mark")
    /\ UNCHANGED <<info, reg, fault>>

(* AutoServer::start fails.                                                   *)
Reject ==
    /\ lobby.pc = "reply" /\ Happens("reject")
    /\ shm' = [shm EXCEPT !.s2c = Write(@, Serving(0, STATUS_REJECTED))]
    /\ Moves("mark")
    /\ UNCHANGED <<info, reg>>

(* send_to_client fails, and the channel is closed again.                     *)
ReplyFails ==
    /\ lobby.pc = "reply" /\ Happens("unsent")
    /\ Moves("mark")
    /\ UNCHANGED <<shm, info, reg>>

(* lobby_timeout passes: surely if nobody is going to write, and now and then *)
(* otherwise.                                                                 *)
WriterComes ==
    \E k \in Clients : reg[k].pc = "send" \/ (reg[k].pc = "wait" /\ shm.connect_ack)
LeaveClient ==
    /\ lobby.pc = "serve"
    /\ Moves("mark")
    /\ UNCHANGED <<shm, info, reg>>
ServeNever == LeaveClient /\ ~lobby.running /\ UNCHANGED fault   \* a wrong variant
ServeTimeout ==
    /\ LeaveClient
    /\ ~lobby.running \/ (QueueEmpty(shm.c2s) /\ ~WriterComes)
    /\ UNCHANGED fault
ServeTimeoutEarly == LeaveClient /\ QueueEmpty(shm.c2s) /\ WriterComes /\ Happens("timeout")

Mark ==
    /\ lobby.pc = "mark"
    /\ shm' = MarkDisconnected(shm)
    /\ Moves(IF lobby.running THEN "wait" ELSE "start")
    /\ UNCHANGED <<info, reg, fault>>

Stop ==
    /\ lobby.running
    /\ lobby' = [lobby EXCEPT !.running = FALSE]
    /\ UNCHANGED <<shm, info, reg, fault>>

LobbyEnds ==
    /\ lobby.pc \in {"start", "wait"} /\ ~lobby.running
    /\ shm' = IF lobby.pc = "wait" THEN DropServer(shm, FALSE) ELSE shm
    /\ Moves("done")
    /\ UNCHANGED <<info, reg, fault>>

LobbyStep ==
    \/ CreateLobby \/ TakeRequest \/ AckRequest \/ ReadRequest \/ Reply
    \/ ServeTimeout \/ Mark \/ LobbyEnds
----------------------------------------------------------------------------
(* lobby_register of process k.                                               *)
Goes(k, pc) == reg' = [reg EXCEPT ![k].pc = pc]
(* The call returns an error, or the id.                                      *)
Fails(k) == reg' = [reg EXCEPT ![k].pc = "out", ![k].met = FALSE]
Returns(k, id) == reg' = [reg EXCEPT ![k].pc = "out", ![k].id = id]

Connect(k) ==
    /\ reg[k].pc = "out" /\ reg[k].id = 0 /\ reg[k].tries < MaxTries
    /\ SectionExists   \* or else the call fails and is made again
    /\ shm' = Hello(shm)
    /\ LET others == {j \in Clients : Inside(j)} IN
       reg' = [j \in Clients |->
                 IF j = k THEN [reg[k] EXCEPT !.pc = "req", !.met = others # {}]
                          ELSE [reg[j] EXCEPT !.met = @ \/ j \in others]]
    /\ UNCHANGED <<lobby, info, fault>>

SetRequest(k) ==
    /\ reg[k].pc = "req"
    /\ shm' = Request(shm)
    /\ Goes(k, "wait")
    /\ UNCHANGED <<lobby, info, fault>>

TakeAck(k) ==
    /\ reg[k].pc = "wait" /\ shm.connect_ack
    /\ LET x == [shm EXCEPT !.connect_ack = FALSE] IN
       IF shm.server_state = "READY" THEN shm' = x /\ Goes(k, "send")
                                     ELSE shm' = GiveUp(x) /\ Fails(k)
    /\ UNCHANGED <<lobby, info, fault>>

NobodyAnswers == lobby.pc # "ready" /\ (lobby.pc = "wait" => ~shm.connect_req)
AckMissed(k) ==
    /\ reg[k].pc = "wait" /\ ~shm.connect_ack
    /\ shm' = GiveUp(shm)
    /\ Fails(k)
    /\ UNCHANGED <<lobby, info>>
TimesOut(k) == AckMissed(k) /\ NobodyAnswers /\ UNCHANGED fault
TimesOutEarly(k) == AckMissed(k) /\ ~NobodyAnswers /\ Happens("timeout")

Registration(k) ==
    encode_request([pid |-> <<k, k, k, k>>, revision |-> <<0, 0>>, name |-> <<k, 195, 169>>])
Sends(k, data) ==
    /\ reg[k].pc = "send"
    /\ shm' = [shm EXCEPT !.c2s = Write(@, data)]
    /\ reg' = [reg EXCEPT ![k].pc = "answer", ![k].tries = @ + 1]
    /\ UNCHANGED <<lobby, info>>
SendRequest(k) == Sends(k, Registration(k)) /\ UNCHANGED fault
(* A program of an older version of the protocol.                             *)
SendGarbage(k) ==
    Sends(k, [Registration(k) EXCEPT ![5] = DISPATCH_VERSION - 1]) /\ Happens("garbage")

ReadAnswer(k) ==
    /\ reg[k].pc = "answer" /\ ~QueueEmpty(shm.s2c)
    /\ shm' = DropClient([shm EXCEPT !.s2c = ReadOff(@)])
    /\ LET data == Head(shm.s2c.msgs) IN
       IF response_error(data) = "none" /\ decode_response(data).status = STATUS_OK
       THEN Returns(k, decode_response(data).client_id[1])
       ELSE Fails(k)
    /\ UNCHANGED <<lobby, info, fault>>

(* response_timeout passes.                                                   *)
AnswerComes ==
    lobby.pc \in {"ready", "reply"} \/ (lobby.pc = "serve" /\ ~QueueEmpty(shm.c2s))
GivesUp(k) ==
    /\ reg[k].pc = "answer" /\ QueueEmpty(shm.s2c)
    /\ shm' = DropClient(shm)
    /\ Fails(k)
    /\ UNCHANGED <<lobby, info>>
AnswerTimeout(k) == GivesUp(k) /\ ~AnswerComes /\ UNCHANGED fault
AnswerTimeoutEarly(k) == GivesUp(k) /\ AnswerComes /\ Happens("timeout")

Crash(k) ==
    /\ Inside(k) /\ Happens("crash")
    /\ reg' = [reg EXCEPT ![k].pc = "dead", ![k].met = FALSE]
    /\ UNCHANGED <<shm, lobby, info>>

ClientStep(k) ==
    \/ SetRequest(k) \/ TakeAck(k) \/ TimesOut(k)
    \/ SendRequest(k) \/ ReadAnswer(k) \/ AnswerTimeout(k)

Next ==
    \/ LobbyStep \/ Stop \/ Reject \/ ReplyFails \/ ServeTimeoutEarly
    \/ \E k \in Clients :
         \/ ClientStep(k) \/ Connect(k) \/ Crash(k)
         \/ TimesOutEarly(k) \/ AnswerTimeoutEarly(k) \/ SendGarbage(k)

Spec == Init /\ [][Next]_vars

(* The lobby's thread and the threads inside lobby_register are scheduled.    *)
FairSpec == Spec /\ WF_vars(LobbyStep) /\ \A k \in Clients : WF_vars(ClientStep(k))

----------------------------------------------------------------------------
(* Properties.                                                                *)

(* The id that lobby_register returns is the one given to its own             *)
(* registration, unless another client was in the lobby at the same time.     *)
(* The requests and answers of a client that gave up or died reach nobody     *)
(* (of two that gave up early, one after the other, they may).                *)
OwnAnswer ==
    \A k \in Clients :
        reg[k].id # 0 /\ ~reg[k].met => info[reg[k].id].pid = <<k, k, k, k>>

(* The lobby comes back: after a client that was served, one that gave up or  *)
(* died, and after an error for which it is dropped and must be created anew  *)
(* under a name that clients may still hold - unless, while it is dropped,    *)
(* clients come and come, and each opens the section that another still has.  *)
LobbyBack ==
    \/ lobby.running ~> (lobby.pc = "wait" \/ ~lobby.running)
    \/ <>[](lobby.pc = "start") /\ []<>(\E k \in Clients : Inside(k))

(* A client that comes to a waiting lobby in which nothing is left signalled, *)
(* whose HELLO still stands (the end of the service before would erase it),   *)
(* and which is not joined by another, is registered, whatever fault happened *)
(* before - unless one happens now, or the server is stopped.                 *)
Calm(k) == lobby.running /\ \A j \in Clients \ {k} : ~Inside(j)
Comes(k) ==
    /\ Calm(k) /\ reg[k].pc = "req" /\ lobby.pc = "wait"
    /\ shm.client_state = "HELLO" /\ ~shm.connect_req /\ ~shm.connect_ack
Faulty == fault # "none"
Registers ==
    \A k \in Clients : \A before \in BOOLEAN :
        Comes(k) /\ Faulty = before ~> reg[k].id # 0 \/ ~Calm(k) \/ Faulty # before
=============================================================================
