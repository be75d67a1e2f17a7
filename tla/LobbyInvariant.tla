--------------------------- MODULE LobbyInvariant ----------------------------
(* The inductive invariant behind OwnAnswer: what a client that was alone in  *)
(* the lobby all the time can have been left by those before it.              *)
(*                                                                            *)
(* A client is let in by connect_ack, and the rings are reset in the step     *)
(* before the one that sets it.  So two things must go wrong for it to read   *)
(* the answer to somebody else: an acknowledgement that nobody waited for     *)
(* any more lets it in at the wrong time, and a request or an answer that     *)
(* nobody waited for any more is still in the rings then.  Each takes a       *)
(* client that leaves when it should not, and there is one fault.             *)
EXTENDS Lobby

Places == {"start", "wait", "ready", "serve", "reply", "mark", "done"}
Stages == {"out", "req", "wait", "send", "answer", "dead"}

Pid(k) == <<k, k, k, k>>
Garbage(k) == [Registration(k) EXCEPT ![5] = DISPATCH_VERSION - 1]
RequestsOf(k) == {Registration(k), Garbage(k)}
Requests == UNION {RequestsOf(k) : k \in Clients}
Infos == {decode_request(Registration(k)) : k \in Clients}
Answers == {Serving(id, STATUS_OK) : id \in Nat} \union {Serving(0, STATUS_REJECTED)}

Rings(M) == [count : Nat, msgs : Seq(M), data : BOOLEAN]
Sections ==
    [server_state : {"IDLE", "READY"}, client_state : {"IDLE", "HELLO", "READY"},
     generation : Nat, connect_req : BOOLEAN, connect_ack : BOOLEAN, disconnect : BOOLEAN,
     c2s : Rings(Requests), s2c : Rings(Answers)]

Types ==
    /\ shm \in Sections
    /\ lobby \in [pc : Places, running : BOOLEAN]
    /\ info \in Seq(Infos)
    /\ reg \in [Clients -> [pc : Stages, tries : Nat, id : Nat, met : BOOLEAN]]

(* Messages are written and read in one step: the counts are exact.  There is *)
(* one answer to a service, and none from before it.                          *)
Counts ==
    /\ shm.c2s.count = Len(shm.c2s.msgs)
    /\ shm.s2c.count = Len(shm.s2c.msgs) /\ Len(shm.s2c.msgs) <= 1
    /\ lobby.pc \in {"ready", "serve", "reply"} => shm.s2c.msgs = <<>>
    /\ lobby.pc = "ready" => shm.server_state = "READY"

(* No request or answer of a client that left is about to be served.          *)
Clean ==
    /\ shm.s2c.msgs = <<>> /\ lobby.pc # "reply"
    /\ lobby.pc \in {"ready", "serve"} => shm.c2s.msgs = <<>>
Answered == Clean \/ \E j \in Clients : reg[j].pc = "answer"

(* An acknowledgement that is set, or that a HELLO will bring, has a client   *)
(* that waits for it, each its own.                                           *)
Waiting(k) == reg[k].pc \in {"req", "wait"}
Due == lobby.pc = "ready" \/ shm.client_state = "HELLO"
Acknowledged ==
    /\ shm.connect_ack \/ Due => \E i \in Clients : Waiting(i)
    /\ shm.connect_ack /\ Due => \E i, j \in Clients : i # j /\ Waiting(i) /\ Waiting(j)

(* One fault spoils one of the two.                                           *)
Health ==
    /\ fault \notin {"crash", "timeout"} => Answered /\ Acknowledged
    /\ Answered \/ Acknowledged

AnswerFor(k, m) ==
    \/ m = Serving(0, STATUS_REJECTED)
    \/ \E id \in 1..Len(info) : m = Serving(id, STATUS_OK) /\ info[id].pid = Pid(k)

(* A client alone in the lobby is let in to empty rings, and what is in them  *)
(* then is its own.                                                           *)
LetIn(k) ==
    \/ /\ Waiting(k)
       /\ lobby.pc = "ready" \/ (shm.connect_ack /\ shm.server_state = "READY")
    \/ reg[k].pc = "send"
Own(k) ==
    /\ \A i \in 1..Len(shm.s2c.msgs) : AnswerFor(k, shm.s2c.msgs[i])
    /\ lobby.pc \in {"ready", "serve"} =>
         \A i \in 1..Len(shm.c2s.msgs) : shm.c2s.msgs[i] \in RequestsOf(k)
    /\ lobby.pc = "reply" => Len(info) # 0 /\ info[Len(info)].pid = Pid(k)
Alone(k) == \A j \in Clients \ {k} : ~Inside(j)
Solitary(k) ==
    Inside(k) /\ ~reg[k].met =>
        /\ Alone(k)
        /\ LetIn(k) => Clean
        /\ reg[k].pc = "answer" => Own(k)

Registered(k) ==
    reg[k].id # 0 =>
        /\ reg[k].pc = "out"
        /\ ~reg[k].met => reg[k].id <= Len(info) /\ info[reg[k].id].pid = Pid(k)

Guests == \A k \in Clients : Solitary(k) /\ Registered(k)

IInv == Types /\ Counts /\ Health /\ Guests
=============================================================================
