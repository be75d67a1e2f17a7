------------------------------ MODULE Dispatch ------------------------------
(* DispatchServer: the threads of one server and the callbacks they make.     *)
(* The lobby worker registers clients, and drains the map when the server     *)
(* stops.  Every client has the worker thread of its AutoServer and a thread  *)
(* that waits for it to join its channel.  User threads call                  *)
(* disconnect_client and stop; a short thread drops an AutoServer that its    *)
(* own worker could not drop.                                                 *)
(*                                                                            *)
(* The RwLock of the map: every critical section is one step, but for the     *)
(* drain, which keeps the write lock while it calls the handler and joins     *)
(* worker threads (Held).  The channel is abstract here: a peer is at its     *)
(* channel, away from it, or dead; module Channel has the handshake.          *)
(*                                                                            *)
(* The handler's on_message, and its on_client_disconnect where the drain     *)
(* makes it, may call the server back; its other callbacks are taken to       *)
(* return without a call, and no callback calls stop().                       *)
EXTENDS Naturals

CONSTANTS
    MaxClients,   \* bound on the client ids that are given out
    MaxJoins,     \* bound on the times peers join their channels, all together
    MaxMessages,  \* bound on the messages the channels deliver, all together
    Calls         \* what the handler may call: a subset of {"send_to", "disconnect_client"}

ASSUME DispatchAssumption ==
    /\ MaxClients \in Nat /\ MaxJoins \in Nat /\ MaxMessages \in Nat
    /\ Calls \subseteq {"send_to", "disconnect_client"}

VARIABLES
    running,      \* DispatchServer.running
    lobby,        \* the lobby worker: where it is in worker_loop
    serving,      \* ... and the client it serves or joins
    next,         \* next_client_id
    clients,      \* the keys of the client map
    stopper,      \* the thread that calls stop()
    of,           \* per client: its threads, its peer, the callbacks made for it
    joins, messages  \* what the bounds count

server == <<running, lobby, serving, next, stopper>>
counts == <<joins, messages>>
vars   == <<server, clients, of, counts>>

Ids == 1..MaxClients

PerClient ==
    [ worker  : {"none", "wait", "up", "message", "send_to", "disconnect_client",
                 "disconnecting", "leaving", "told", "done"},  \* its AutoServer's
      target  : 0..MaxClients,                    \* whom "disconnecting" ends
      ending  : BOOLEAN,                          \* which was told to end
      signal  : BOOLEAN,                          \* connect_signal
      pending : {"none", "wait", "insert", "announce", "giveup", "done"},
      dropper : {"none", "spawned", "join", "done"},  \* spawned by on_disconnect
      kicker  : {"none", "mark", "join", "done"},     \* in disconnect_client
      peer    : {"away", "here", "dead"},         \* the client's end of the channel
      connects : Nat, disconnects : Nat ]         \* callbacks made

TypeOK ==
    /\ running \in BOOLEAN
    /\ lobby \in {"accept", "reply", "discard", "drain", "calls", "join", "done"}
    /\ serving \in 0..MaxClients
    /\ next \in 1..(MaxClients + 1)
    /\ clients \subseteq Ids
    /\ stopper \in {"none", "lobby", "pending", "returned"}
    /\ of \in [Ids -> PerClient]
    /\ joins \in Nat /\ messages \in Nat

Init ==
    /\ running = TRUE /\ lobby = "accept" /\ serving = 0 /\ next = 1
    /\ clients = {} /\ stopper = "none"
    /\ of = [c \in Ids |->
               [worker |-> "none", target |-> 0, ending |-> FALSE, signal |-> FALSE, pending |-> "none",
                dropper |-> "none", kicker |-> "none", peer |-> "away",
                connects |-> 0, disconnects |-> 0]]
    /\ joins = 0 /\ messages = 0

(* The write lock is held across steps: by the drain alone.                   *)
Held == lobby \in {"drain", "calls", "join"}

----------------------------------------------------------------------------
(* The lobby worker.                                                          *)

(* A registration was read: the id is taken and the channel's AutoServer runs.*)
(* Requests that time out or do not decode change nothing here.               *)
Register ==
    /\ lobby = "accept" /\ running /\ next <= MaxClients
    /\ serving' = next /\ next' = next + 1 /\ lobby' = "reply"
    /\ of' = [of EXCEPT ![next].worker = "wait"]
    /\ UNCHANGED <<running, clients, stopper, counts>>

(* AutoServer::start failed: the id is used up, the client is told REJECTED.  *)
Reject ==
    /\ lobby = "accept" /\ running /\ next <= MaxClients
    /\ next' = next + 1
    /\ UNCHANGED <<running, lobby, serving, clients, stopper, of, counts>>

(* The response is written and the pending thread spawned.                    *)
Reply ==
    /\ lobby = "reply"
    /\ of' = [of EXCEPT ![serving].pending = "wait"]
    /\ lobby' = "accept"
    /\ UNCHANGED <<running, serving, next, clients, stopper, counts>>

(* The response could not be written: stop(), then the drop joins the worker. *)
ReplyFails ==
    /\ lobby = "reply"
    /\ of' = [of EXCEPT ![serving].ending = TRUE]
    /\ lobby' = "discard"
    /\ UNCHANGED <<running, serving, next, clients, stopper, counts>>

(* The lobby worker goes on once the worker it joins has ended.               *)
Joined ==
    /\ lobby \in {"discard", "join"} /\ of[serving].worker = "done"
    /\ lobby' = IF lobby = "join" THEN "drain" ELSE "accept"
    /\ UNCHANGED <<running, serving, next, clients, stopper, of, counts>>

(* running is seen false: the loops end and the write lock is taken.          *)
Drain ==
    /\ lobby = "accept" /\ ~running
    /\ lobby' = "drain"
    /\ UNCHANGED <<running, serving, next, clients, stopper, of, counts>>

(* A wrong variant of DrainNext: the drained AutoServer is joined, not ended. *)
DrainNextUnended(c) ==
    /\ lobby = "drain" /\ c \in clients
    /\ clients' = clients \ {c}
    /\ of' = [of EXCEPT ![c].disconnects = @ + 1]
    /\ serving' = c /\ lobby' = "join"
    /\ UNCHANGED <<running, next, stopper, counts>>

(* One drained entry: marked, stopped and announced, then dropped - the drop  *)
(* joins its worker.  All of it with the write lock held: a handler that calls*)
(* the server back from this callback waits for its own thread, for ever.     *)
DrainNext(c) ==
    /\ lobby = "drain" /\ c \in clients
    /\ clients' = clients \ {c}
    /\ of' = [of EXCEPT ![c].ending = TRUE, ![c].disconnects = @ + 1]
    /\ serving' = c /\ (lobby' = "join" \/ (Calls # {} /\ lobby' = "calls"))
    /\ UNCHANGED <<running, next, stopper, counts>>

DrainDone ==
    /\ lobby = "drain" /\ clients = {}
    /\ lobby' = "done"
    /\ UNCHANGED <<running, serving, next, clients, stopper, of, counts>>

LobbyStep ==
    \/ Register \/ Reject \/ Reply \/ ReplyFails \/ Joined \/ Drain \/ DrainDone
    \/ \E c \in Ids : DrainNext(c)

----------------------------------------------------------------------------
(* The worker of c's AutoServer: wait_for_client returns and on_connect raises*)
(* the signal; the client knows its channel once the response was written.    *)
Join(c) ==
    /\ of[c].worker = "wait" /\ of[c].peer = "away" /\ of[c].pending # "none"
    /\ joins < MaxJoins /\ joins' = joins + 1
    /\ of' = [of EXCEPT ![c].worker = "up", ![c].signal = TRUE, ![c].peer = "here"]
    /\ UNCHANGED <<server, clients, messages>>

(* The client drops its end, which sets the disconnect event.                 *)
Leave(c) ==
    /\ of[c].peer = "here"
    /\ of' = [of EXCEPT ![c].peer = "away"]
    /\ UNCHANGED <<server, clients, counts>>

(* The client's process ends, and sets no event.                              *)
Die(c) ==
    /\ of[c].peer = "here"
    /\ of' = [of EXCEPT ![c].peer = "dead"]
    /\ UNCHANGED <<server, clients, counts>>

(* on_message: the handler returns, or first calls the server back.           *)
OnMessage(c) ==
    /\ of[c].worker = "up" /\ messages < MaxMessages
    /\ \E does \in {"message"} \cup Calls : of' = [of EXCEPT ![c].worker = does]
    /\ messages' = messages + 1
    /\ UNCHANGED <<server, clients, joins>>

HandlerReturns(c) ==
    /\ of[c].worker = "message"
    /\ of' = [of EXCEPT ![c].worker = "up"]
    /\ UNCHANGED <<server, clients, counts>>

(* send_to and broadcast: the read lock, around a send that does not block.   *)
HandlerSends(c) ==
    /\ of[c].worker = "send_to" /\ ~Held
    /\ of' = [of EXCEPT ![c].worker = "message"]
    /\ UNCHANGED <<server, clients, counts>>

(* disconnect_client of client d, its own or another, on the worker of c: from*)
(* here on it goes as on a user's thread (KickTells).  Nobody is joined if d  *)
(* is not in the map.                                                         *)
HandlerDisconnects(c, d) ==
    /\ of[c].worker = "disconnect_client" /\ ~Held
    /\ clients' = clients \ {d}
    /\ of' = IF d \in clients
             THEN [of EXCEPT ![d].kicker = "mark", ![c].worker = "disconnecting", ![c].target = d]
             ELSE [of EXCEPT ![c].worker = "message"]
    /\ UNCHANGED <<server, counts>>

(* disconnect_client returns once the worker of d was joined; the worker of d *)
(* itself does not join (join_unless_self).                                   *)
HandlerDisconnected(c) ==
    /\ of[c].worker = "disconnecting"
    /\ \/ of[of[c].target].kicker = "done"
       \/ of[c].target = c /\ of[c].kicker = "join"
    /\ of' = [of EXCEPT ![c].worker = "message", ![c].target = 0]
    /\ UNCHANGED <<server, clients, counts>>

(* wait_any reports the disconnect event: on_disconnect is called.            *)
SeeDisconnect(c) ==
    /\ of[c].worker = "up" /\ of[c].peer = "away"
    /\ of' = [of EXCEPT ![c].worker = "leaving"]
    /\ UNCHANGED <<server, clients, counts>>

(* Wrong variants of ProxyDisconnect: it makes the callback whether or not it *)
(* removed the entry; it leaves alone an entry not announced yet.             *)
ProxyDisconnectAlways(c) ==
    /\ of[c].worker = "leaving" /\ ~Held
    /\ clients' = clients \ {c}
    /\ of' = [of EXCEPT ![c].worker = "told", ![c].dropper = "spawned"]
    /\ UNCHANGED <<server, counts>>
ProxyDisconnectAnnounced(c) ==
    /\ of[c].worker = "leaving" /\ ~Held
    /\ IF c \in clients /\ of[c].connects = 1
       THEN /\ clients' = clients \ {c}
            /\ of' = [of EXCEPT ![c].worker = "told", ![c].dropper = "spawned"]
       ELSE /\ clients' = clients
            /\ of' = [of EXCEPT ![c].worker = "wait"]
    /\ UNCHANGED <<server, counts>>

(* on_disconnect: whoever removes the entry makes the callback.  The flag     *)
(* `disconnected` of an entry is still false while it is in the map: both     *)
(* places that set it removed the entry first, or hold the write lock.        *)
ProxyDisconnect(c) ==
    /\ of[c].worker = "leaving" /\ ~Held
    /\ clients' = clients \ {c}
    /\ of' = IF c \in clients
             THEN [of EXCEPT ![c].worker = "told", ![c].dropper = "spawned"]
             ELSE [of EXCEPT ![c].worker = "wait"]
    /\ UNCHANGED <<server, counts>>

(* ... on_client_disconnect, the lock released; then mark_disconnected.       *)
ProxyTells(c) ==
    /\ of[c].worker = "told"
    /\ of' = [of EXCEPT ![c].worker = "wait", ![c].disconnects = @ + 1]
    /\ UNCHANGED <<server, clients, counts>>

WorkerEnds(c) ==
    /\ of[c].worker \in {"wait", "up"} /\ of[c].ending
    /\ of' = [of EXCEPT ![c].worker = "done"]
    /\ UNCHANGED <<server, clients, counts>>

WorkerStep(c) ==
    \/ HandlerReturns(c) \/ HandlerSends(c) \/ HandlerDisconnected(c)
    \/ \E d \in Ids : HandlerDisconnects(c, d)
    \/ SeeDisconnect(c) \/ ProxyDisconnect(c) \/ ProxyTells(c) \/ WorkerEnds(c)

----------------------------------------------------------------------------
(* The thread that handle_lobby_client spawns for client c.                   *)

(* A wrong variant of GiveUp: it does not return after stop().                *)
GiveUpAndInsert(c) ==
    /\ of[c].pending = "wait"
    /\ of' = [of EXCEPT ![c].pending = "insert", ![c].ending = TRUE]
    /\ UNCHANGED <<server, clients, counts>>

(* The time is up, or running is seen false: stop(), then the drop joins.     *)
GiveUp(c) ==
    /\ of[c].pending = "wait"
    /\ of' = [of EXCEPT ![c].pending = "giveup", ![c].ending = TRUE]
    /\ UNCHANGED <<server, clients, counts>>

GaveUp(c) ==
    /\ of[c].pending = "giveup" /\ of[c].worker = "done"
    /\ of' = [of EXCEPT ![c].pending = "done"]
    /\ UNCHANGED <<server, clients, counts>>

(* The signal is seen, and running is still true.                             *)
SeeSignal(c) ==
    /\ of[c].pending = "wait" /\ of[c].signal /\ running
    /\ of' = [of EXCEPT ![c].pending = "insert"]
    /\ UNCHANGED <<server, clients, counts>>

Insert(c) ==
    /\ of[c].pending = "insert" /\ ~Held
    /\ clients' = clients \cup {c}
    /\ of' = [of EXCEPT ![c].pending = "announce"]
    /\ UNCHANGED <<server, counts>>

(* on_client_connect, after the lock is released.                             *)
Announce(c) ==
    /\ of[c].pending = "announce"
    /\ of' = [of EXCEPT ![c].pending = "done", ![c].connects = @ + 1]
    /\ UNCHANGED <<server, clients, counts>>

PendingStep(c) == GiveUp(c) \/ GaveUp(c) \/ SeeSignal(c) \/ Insert(c) \/ Announce(c)

----------------------------------------------------------------------------
(* The thread that drops the AutoServer for on_disconnect.                    *)
Drop(c) ==
    /\ of[c].dropper = "spawned"
    /\ of' = [of EXCEPT ![c].dropper = "join", ![c].ending = TRUE]
    /\ UNCHANGED <<server, clients, counts>>

Dropped(c) ==
    /\ of[c].dropper = "join" /\ of[c].worker = "done"
    /\ of' = [of EXCEPT ![c].dropper = "done"]
    /\ UNCHANGED <<server, clients, counts>>

(* A wrong variant of Kick: the entry is looked up, not removed.              *)
KickKeeps(c) ==
    /\ ~Held /\ c \in clients
    /\ of' = [of EXCEPT ![c].kicker = "mark"]
    /\ UNCHANGED <<server, clients, counts>>

(* disconnect_client on a user's thread: remove; mark, stop, call; join.      *)
Kick(c) ==
    /\ ~Held /\ c \in clients
    /\ clients' = clients \ {c}
    /\ of' = [of EXCEPT ![c].kicker = "mark"]
    /\ UNCHANGED <<server, counts>>

KickTellsOnly(c) ==    \* a wrong variant: the AutoServer is not ended
    /\ of[c].kicker = "mark"
    /\ of' = [of EXCEPT ![c].kicker = "join", ![c].disconnects = @ + 1]
    /\ UNCHANGED <<server, clients, counts>>

KickTells(c) ==
    /\ of[c].kicker = "mark"
    /\ of' = [of EXCEPT ![c].kicker = "join", ![c].ending = TRUE, ![c].disconnects = @ + 1]
    /\ UNCHANGED <<server, clients, counts>>

Kicked(c) ==
    /\ of[c].kicker = "join" /\ of[c].worker = "done"
    /\ of' = [of EXCEPT ![c].kicker = "done"]
    /\ UNCHANGED <<server, clients, counts>>

HelperStep(c) == Drop(c) \/ Dropped(c) \/ KickTells(c) \/ Kicked(c)

----------------------------------------------------------------------------
(* stop(): clear running, join the lobby worker, join the pending threads.    *)
Stop ==
    /\ stopper = "none"
    /\ running' = FALSE /\ stopper' = "lobby"
    /\ UNCHANGED <<lobby, serving, next, clients, of, counts>>

LobbyJoined ==
    /\ stopper = "lobby" /\ lobby = "done"
    /\ stopper' = "pending"
    /\ UNCHANGED <<running, lobby, serving, next, clients, of, counts>>

PendingJoined ==
    /\ stopper = "pending" /\ \A c \in Ids : of[c].pending \in {"none", "done"}
    /\ stopper' = "returned"
    /\ UNCHANGED <<running, lobby, serving, next, clients, of, counts>>

StopStep == LobbyJoined \/ PendingJoined

Next ==
    \/ LobbyStep \/ Stop \/ StopStep
    \/ \E c \in Ids : Join(c) \/ Leave(c) \/ Die(c) \/ OnMessage(c) \/ Kick(c)
    \/ \E c \in Ids : WorkerStep(c) \/ PendingStep(c) \/ HelperStep(c)

Spec == Init /\ [][Next]_vars

(* Every thread the server runs is scheduled; the clients, and the users who  *)
(* call disconnect_client and stop, owe nothing.                              *)
FairSpec ==
    /\ Spec
    /\ WF_vars(LobbyStep) /\ WF_vars(StopStep)
    /\ \A c \in Ids : WF_vars(WorkerStep(c)) /\ WF_vars(PendingStep(c)) /\ WF_vars(HelperStep(c))

----------------------------------------------------------------------------
(* Properties.                                                                *)

(* Client c was entered in the map, by its pending thread.                    *)
Entered(c) == of[c].pending = "announce" \/ of[c].connects > 0

(* Four threads may end a client's entry: disconnect_client, on_disconnect, a *)
(* handler's disconnect_client and the drain.  An entered client is in the    *)
(* map, or exactly one thread owes it on_client_disconnect, or the callback   *)
(* was made once; a client that was never entered is never announced gone.    *)
OwesDisconnect(c) == {t \in {"worker", "kicker"} :
                         \/ t = "worker" /\ of[c].worker = "told"
                         \/ t = "kicker" /\ of[c].kicker = "mark"}
DisconnectOnce ==
    \A c \in Ids :
      /\ of[c].connects <= 1 /\ of[c].disconnects <= 1
      /\ Entered(c) <=>
           \/ c \in clients /\ OwesDisconnect(c) = {} /\ of[c].disconnects = 0
           \/ c \notin clients /\ OwesDisconnect(c) # {} /\ of[c].disconnects = 0
           \/ c \notin clients /\ OwesDisconnect(c) = {} /\ of[c].disconnects = 1
      /\ OwesDisconnect(c) # {"worker", "kicker"}

(* A client found in the map has an AutoServer nobody has ended: send_to does *)
(* not report success for a message that no worker will take.                 *)
EntryIsLive ==
    \A c \in clients : ~of[c].ending /\ of[c].worker \notin {"none", "done"}

(* Threads that wait for each other for ever.  A worker joins another one, in *)
(* disconnect_client, or waits for the lock of a drain that joins a worker or *)
(* that called the server back from its callback.                             *)
DrainWaits(S) == lobby = "calls" \/ (lobby = "join" /\ serving \in S)
Blocked(c, S) ==
    \/ of[c].worker = "disconnecting" /\ of[c].target # c /\ of[c].target \in S
    \/ of[c].worker \in {"leaving", "send_to", "disconnect_client"} /\ Held /\ DrainWaits(S)
Stuck(c) == \E S \in SUBSET Ids : c \in S /\ \A v \in S : Blocked(v, S)

DrainStuck == lobby = "calls" \/ (lobby = "join" /\ Stuck(serving))

(* stop() returns, unless handlers brought it about that threads wait for each*)
(* other (or a departure: on_disconnect takes the lock too), and one that     *)
(* stop() needs is among them: no other wait is a cycle.                      *)
StopStuck ==
    \/ DrainStuck
    \/ \E c \in Ids : of[c].pending = "giveup" /\ Stuck(c)
StopReturnsUnlessStuck == (stopper = "lobby") ~> (stopper = "returned" \/ StopStuck)

(* No thread is leaked: the worker of a client that left the map, or never    *)
(* came, ends - unless it waits in such a cycle itself, or the thread that    *)
(* would enter its client in the map waits for the lock of a stuck drain.     *)
WorkersEnd ==
    \A c \in Ids :
        (of[c].worker # "none" /\ of[c].pending # "none" /\ c \notin clients)
            ~> \/ of[c].worker = "done" \/ c \in clients \/ Stuck(c)
               \/ of[c].pending = "insert" /\ DrainStuck

(* A client that drops its end while it is in the map, so that its worker has *)
(* still to report it, is removed from the map - if it does not join again    *)
(* first.  (One that dies stays, until disconnect_client or stop().)          *)
LeaverRemoved ==
    \A c \in Ids :
        (c \in clients /\ of[c].peer = "away" /\ of[c].worker = "up")
            ~> (c \notin clients \/ of[c].peer # "away" \/ Stuck(c))

(* What the documentation of stop() says: it waits for the threads and        *)
(* returns (the test stop_does_not_deadlock_after_client_disconnects).        *)
StopReturns == (stopper = "lobby") ~> (stopper = "returned")

(* ... and once it has returned no callback is made.                          *)
QuietAfterStop ==
    [][stopper = "returned" =>
         /\ messages' = messages
         /\ \A c \in Ids : /\ of'[c].connects = of[c].connects
                           /\ of'[c].disconnects = of[c].disconnects]_vars
=============================================================================
