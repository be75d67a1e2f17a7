---------------------------- MODULE AutoInvariant ----------------------------
(* The inductive invariant behind the safety properties of module Auto: TLC   *)
(* checks it on the instance of MCAuto_inv, AutoProofs proves it.             *)
EXTENDS Auto

(* What a state of the server or of a client owes to the shape of its worker. *)
Working ==
    /\ srv.pc \in {"read", "take", "took"} => srv.left >= 1
    /\ srv.pc = "took" => srv.hand \in Messages \/ fault = "torn"
    /\ \A k \in Clients : cli[k].pc \in {"write", "discard"} => cli[k].queue # <<>>

(* The connection is one token, which the server has while it answers, then   *)
(* connect_ack, a client that is Up, and disconnect, on the way back to it.   *)
(* Nobody takes a disconnect from a server that is done.                      *)
SomeoneUp     == \E k \in Clients : Up(k)
Disconnecting == shm.disconnect /\ srv.pc # "done"

OneToken ==
    Sound =>
      /\ \A j, k \in Clients : Up(j) /\ Up(k) => j = k
      /\ srv.pc \in {"wait", "ready", "end"} =>
           ~SomeoneUp /\ ~shm.connect_ack /\ ~shm.disconnect
      /\ shm.connect_ack => ~SomeoneUp /\ ~Disconnecting
      /\ Disconnecting => ~SomeoneUp

(* Whoever is Up read the generation that the section has, and so have the    *)
(* messages on their way.                                                     *)
OneGeneration ==
    Sound =>
      /\ \A k \in Clients : Up(k) => cli[k].generation = shm.generation
      /\ \A i \in DOMAIN shm.c2s.msgs : shm.c2s.msgs[i].generation = shm.generation
      /\ srv.pc = "took" => srv.hand.generation = shm.generation

(* message_count counts the messages of the ring, and those that the reader   *)
(* and the writer have taken and not subtracted yet.                          *)
One(b) == IF b THEN 1 ELSE 0
Discarding == \E k \in Clients : cli[k].pc = "discard"
Counts ==
    Sound =>
      shm.c2s.count >= Len(shm.c2s.msgs) + One(srv.pc = "took") + One(Discarding)

(* The messages of a client are in the order of their numbers, from the one   *)
(* that was delivered last over the server's hand and the ring to the queue   *)
(* and the commands.                                                          *)
Increasing(q) == \A i, j \in DOMAIN q : i < j => q[i] < q[j]
Above(n, q)   == \A i \in DOMAIN q : n < q[i]
Waiting(k)    == cli[k].queue \o cli[k].cmds

InRing ==
    \A i, j \in DOMAIN shm.c2s.msgs :
        i < j /\ shm.c2s.msgs[i].from = shm.c2s.msgs[j].from
            => shm.c2s.msgs[i].id < shm.c2s.msgs[j].id
InHand ==
    srv.pc = "took" /\ fault # "torn" =>
      /\ got[srv.hand.from] < srv.hand.id /\ srv.hand.id <= sent
      /\ Above(srv.hand.id, Waiting(srv.hand.from))
      /\ \A i \in DOMAIN shm.c2s.msgs :
           shm.c2s.msgs[i].from = srv.hand.from => srv.hand.id < shm.c2s.msgs[i].id
OfClient(k) ==
    /\ Increasing(Waiting(k)) /\ Above(got[k], Waiting(k)) /\ got[k] <= sent
    /\ \A i \in DOMAIN Waiting(k) : Waiting(k)[i] <= sent
    /\ \A i \in DOMAIN shm.c2s.msgs :
         shm.c2s.msgs[i].from = k =>
           /\ got[k] < shm.c2s.msgs[i].id /\ shm.c2s.msgs[i].id <= sent
           /\ Above(shm.c2s.msgs[i].id, Waiting(k))
Ordered == InRing /\ InHand /\ \A k \in Clients : OfClient(k)

IInv == TypeOK /\ Working /\ OneToken /\ OneGeneration /\ Counts /\ Ordered

----------------------------------------------------------------------------
(* What StopFlushes needs besides.  As long as somebody is connected, or is    *)
(* about to be, message_count counts nothing that no one will read: the count  *)
(* a crashed writer leaves behind is reset before the next client comes.       *)
Expected == SomeoneUp \/ shm.connect_ack \/ srv.pc = "ready"
NoLeftover ==
    Sound /\ Expected =>
      shm.c2s.count <= Len(shm.c2s.msgs) + One(srv.pc = "took") + One(Discarding)

(* Only Shutdown and the drop clear running.  After a Shutdown the worker goes *)
(* through process_send_queue before it looks at running again.                *)
Flushed(k) == cli[k].queue = <<>> \/ Head(cli[k].queue) \in TooLarge \/ cli[k].raced
Obedient(k) ==
    /\ cli[k].asked = "no" => cli[k].running /\ ~cli[k].shutdown
    /\ cli[k].asked = "stop" /\ ~cli[k].running =>
         /\ Up(k) \/ cli[k].pc \in {"delay", "open"}
         /\ cli[k].pc \in {"top", "pause"} => Flushed(k)
Flushing == NoLeftover /\ (Sound => \A k \in Clients : Obedient(k))
=============================================================================
