--------------------------- MODULE MultiInvariant ---------------------------
(* The inductive invariant behind the accounting of callbacks in MultiSlots:  *)
(* where the two threads of the server may be, when they owe a callback, and  *)
(* what the worker knows of the slot it is connecting; and Calm, which holds   *)
(* as long as nothing goes wrong and under which one client holds each slot.  *)
EXTENDS MultiSlots

\* on_client_disconnect is owed on the way from the store of `connected` to the
\* call, and nowhere else.
WorkerOwing == {"orphan_server", "orphan_client", "on_orphan_disconnect",
                "mark_client", "release", "on_client_disconnect"}
UserOwing   == {"mark_server", "mark_client", "release", "on_client_disconnect"}

Owing ==
  /\ at["worker"] \notin {"idle", "mark_server"} /\ at["user"] \in UserOwing \union {"idle"}
  /\ was["worker"] => at["worker"] \in WorkerOwing
  /\ was["user"] => at["user"] \in UserOwing

\* The slot in a handshake is not connected: only the worker connects slots.
Shaking ==
  at["worker"] \in {"server_ready", "client_ready", "ack"} => ~connected[on["worker"]]

IInv == TypeOK /\ Owing /\ Shaking /\ CallbackAccounting

-----------------------------------------------------------------------------
(* Without troubles a claim is never released, which is why Exclusive holds:  *)
(* the worker never comes to a place from which it would release one.         *)
Handshaking(s) ==
  at["worker"] \in {"connect", "server_ready", "client_ready", "ack"} /\ on["worker"] = s

Quiet ==
  /\ at["worker"] \in {"reclaim", "owner", "orphans", "collect", "wait", "connect",
                       "server_ready", "client_ready", "ack", "on_client_connect"}
  /\ at["user"] = "idle"
  /\ \A c \in Clients : process[c] = "alive" /\ running[c]
  /\ \A s \in Slots :
       /\ ~disconnect[s] /\ (watch[s] => connected[s])
       /\ orphaned[s] # NotOrphaned => at["worker"] = "owner" /\ on["worker"] = s

\* A free slot is as nobody has touched it; a claim has a client that pursues it.
SlotCalm(s) ==
  /\ claim[s] = CLAIM_FREE =>
       /\ claim_seen_at[s] = Never /\ ~Handshaking(s)
       /\ ~connected[s] /\ ~connect_req[s] /\ ~connect_ack[s]
  /\ claim[s] # CLAIM_FREE => \E c \in Clients : pc[c] # "idle" /\ slot[c] = s

\* A client on its way to its slot: how far the server may have come with it.  The
\* reserve timer has run no longer than the client's attempt.
ClientCalm(c) ==
  LET s == slot[c] IN
  pc[c] # "idle" =>
    /\ pc[c] \in {"pid", "hello", "req", "wait", "check", "up"}
    /\ claim[s] = Token(c) /\ tries[c] >= 1
    /\ ~connected[s] => claim_seen_at[s] <= held[c] /\ ~connect_ack[s]
    /\ connected[s] => server_state[s] = "READY" /\ ~connect_req[s] /\ ~Handshaking(s)
    /\ pc[c] \in {"pid", "hello", "req"} =>
         ~connected[s] /\ ~connect_req[s] /\ ~Handshaking(s)
    /\ pc[c] = "wait" /\ ~connected[s] =>
         /\ connect_req[s] => ~Handshaking(s)
         /\ connect_req[s] \/ (Handshaking(s) /\ at["worker"] = "connect") =>
              client_state[s] = "HELLO"
         /\ Handshaking(s) /\ at["worker"] \in {"client_ready", "ack"} =>
              server_state[s] = "READY"
    /\ pc[c] \in {"check", "up"} => connected[s]
    /\ pc[c] = "req" => client_state[s] = "HELLO"

Calm == Quiet /\ (\A s \in Slots : SlotCalm(s)) /\ \A c \in Clients : ClientCalm(c)
=============================================================================
