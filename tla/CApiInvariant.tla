---------------------------- MODULE CApiInvariant ----------------------------
(* The inductive invariant behind TypeOK and the refinement in module CApi:   *)
(* TLC checks it in the run CApi, CApiProofs proves it for every instance.    *)
EXTENDS CApi

Messages == [id : Nat, len : Lens]
Rings    == [count : Nat, msgs : Seq(Messages), data : BOOLEAN]
Sections ==
    [server_state : {"IDLE", "READY"}, client_state : {"IDLE", "HELLO", "READY"},
     generation : 0..(Generations - 1), connect_req : BOOLEAN, connect_ack : BOOLEAN,
     disconnect : BOOLEAN, c2s : Rings, s2c : Rings]
Senders  == [pc : {"idle", "test", "discarded", "signal"}, tight : BOOLEAN, was_empty : BOOLEAN]
Caches   == [buffer : Messages \cup {NoMessage}, pending : BOOLEAN]

Types ==
    /\ shm \in Sections /\ anonymous \in BOOLEAN
    /\ ctl \in [Ends -> {"none", "wait", "ready", "stopped", "out", "req"}]
    /\ ctl["server"] \in {"none", "wait", "ready", "stopped"}
    /\ ctl["client"] \in {"out", "req", "wait", "none"}
    /\ up \in [Ends -> BOOLEAN] /\ tx \in [Ends -> Senders]
    /\ rx \in [Ends -> {"idle", "take", "subtract", "give", "poll", "poll forever"}]
    /\ torn \in [Ends -> BOOLEAN] /\ cache \in [Ends -> Caches]
    /\ accepted \in [Ends -> Nat] /\ given \in [Ends -> Nat]
    /\ tries \in 0..MaxTries /\ early \in 0..EarlyTimeouts

(* A handle that is not connected has no call under way but the one that      *)
(* connects it.                                                               *)
Calls == \A e \in Ends : /\ up[e] => ctl[e] = "none"
                         /\ ~up[e] => tx[e].pc = "idle" /\ rx[e] = "idle"

(* A server resets the rings once in its life, before anybody was let in:     *)
(* nothing was ever written then.                                             *)
Unanswered ==
    ~up["server"] /\ ctl["server"] # "stopped" =>
      /\ ~up["client"] /\ ~shm.connect_ack /\ shm.client_state # "READY"
      /\ \A e \in Ends : In(e).count = 0 /\ In(e).msgs = <<>>

One(b) == IF b THEN 1 ELSE 0
Budget ==
    accepted["server"] + accepted["client"]
      + One(Writing("server")) + One(Writing("client")) <= MaxSends

(* A direction is named after the end that receives.  The message in the      *)
(* buffer of its RecvCache is the one last given to the program, or, while a  *)
(* call has it in hand or it is kept for the next call, a later one.          *)
HasMessage(e) == rx[e] \in {"subtract", "give"} \/ cache[e].pending
Hand(e) ==
    /\ given[e] <= cache[e].buffer.id /\ cache[e].buffer.id <= accepted[Peer(e)]
    /\ given[e] < cache[e].buffer.id <=> HasMessage(e)
    /\ rx[e] \in {"take", "subtract"} => ~cache[e].pending

(* The messages of the ring follow it, in the order of their numbers.         *)
Line(e) ==
    /\ \A i \in DOMAIN In(e).msgs :
         cache[e].buffer.id < In(e).msgs[i].id /\ In(e).msgs[i].id <= accepted[Peer(e)]
    /\ \A i, j \in DOMAIN In(e).msgs : i < j => In(e).msgs[i].id < In(e).msgs[j].id

(* message_count counts the messages of the ring and those that the reader or *)
(* the writer has taken and not subtracted yet.                               *)
Counts(e) ==
    /\ In(e).count <= RingMax
    /\ In(e).count >= Len(In(e).msgs) + One(rx[e] = "subtract")
                                      + One(tx[Peer(e)].pc = "discarded")

Direction(e) == ~torn[e] => Hand(e) /\ Line(e) /\ Counts(e)

(* Between any two steps of the two programs' four threads: nobody was ever   *)
(* connected before the server's one answer, and in each direction the        *)
(* program, the RecvCache and the ring hold messages in the order in which    *)
(* they were sent, each in one place (ffi.rs:345-364, 783-832) - until a      *)
(* reader took a message there was not.                                       *)
IInv == Types /\ Calls /\ Unanswered /\ Budget /\ \A e \in Ends : Direction(e)
=============================================================================
