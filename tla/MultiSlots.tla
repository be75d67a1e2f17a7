----------------------------- MODULE MultiSlots -----------------------------
(***************************************************************************)
(* The slots of a MultiServer and the clients that compete for them        *)
(* (src/src/multi/mod.rs): the atomic claim of a slot, the handshake on    *)
(* its shared section, departures, crashes, forced disconnects, and the    *)
(* reclaiming of abandoned claims.  There are three kinds of processes:    *)
(* the server's worker thread, a thread that calls disconnect_client, and  *)
(* the client_worker thread of each client, each client a process of its   *)
(* own.  Every access to a shared word or event is a step of its own.  The *)
(* messages are left out (module Ring models them): data events and        *)
(* receive_from_slot change nothing here.                                  *)
(*                                                                         *)
(* SharedServer.connected changes together with ClientSlot.connected and   *)
(* is not kept apart.  The connection generation is written and read by    *)
(* nothing that depends on it, and is left out.                            *)
(***************************************************************************)
EXTENDS Integers, FiniteSets

CONSTANTS
  Clients,
  NumSlots,              \* MultiOptions.max_clients
  Troubles,              \* which of AllTroubles the environment may cause
  SLOT_TIMEOUT,          \* what clamp_slot_timeout makes of slot_timeout, in ticks,
                         \* the client's own delays included
  RESERVE_TIMEOUT,       \* in ticks
  LIVENESS_CHECK_INTERVAL,
  MaxClaims,             \* bound of the model: claims per client
  MaxKicks               \* bound of the model: calls of disconnect_client

\* "leave": a client is stopped; "crash": its process ends; "vanish": the object
\* of an ended process is deleted, so that its PID can no longer be opened;
\* "timeout": a client waits in vain for the handshake; "kick": the server's
\* owner calls disconnect_client.
AllTroubles == {"leave", "crash", "vanish", "timeout", "kick"}

ASSUME MultiAssumption ==
  /\ IsFiniteSet(Clients)
  /\ NumSlots \in Nat /\ NumSlots > 0
  /\ Troubles \subseteq AllTroubles
  /\ SLOT_TIMEOUT \in Nat /\ RESERVE_TIMEOUT \in Nat /\ SLOT_TIMEOUT < RESERVE_TIMEOUT
  /\ LIVENESS_CHECK_INTERVAL \in Nat /\ LIVENESS_CHECK_INTERVAL <= RESERVE_TIMEOUT
  /\ MaxClaims \in Nat /\ MaxKicks \in Nat

VARIABLES
  \* ControlBlock and events of each slot's section
  claim, owner_pid, server_state, client_state, connect_req, connect_ack, disconnect,
  \* ClientSlot, and the thread that holds its Mutex
  connected, claim_seen_at, mutex,
  \* the two threads of the server: where they are, on which slot, and whether
  \* the slot they disconnect was connected
  at, on, was,
  \* worker_loop: the orphaned slots with the claims they had; the slots it waits
  \* on as connected ones
  orphaned, watch,
  \* disconnect_client: calls made
  kicks,
  \* each client: where it is, its slot, its last token's number, the time since
  \* its claim, `running`, and its process
  pc, slot, tries, held, running, process,
  \* History: callbacks made, on_client_connect less on_client_disconnect
  balance

shared  == <<claim, owner_pid, server_state, client_state,
             connect_req, connect_ack, disconnect>>
slots   == <<connected, claim_seen_at, mutex>>
server  == <<at, on, was, orphaned, watch, kicks, balance>>
clients == <<pc, slot, tries, held, running, process>>
vars    == <<shared, slots, server, clients>>

-----------------------------------------------------------------------------
Slots   == 0 .. NumSlots-1
Threads == {"worker", "user"}

CLAIM_FREE == <<"free", 0>>
NoPid      == "none"

\* next_claim_token gives every claim a token of its own; the model takes the
\* pair of the client and the number of its claim.
Token(c) == <<c, tries[c]>>
Tokens   == Clients \X (1..MaxClaims)

NotOrphaned == <<"not", 0>>

Never == -1

\* Instant::elapsed: the model's clock stops counting at the longest timeout.
Aged(t) == IF t = Never \/ t = RESERVE_TIMEOUT THEN t ELSE t + 1

Alive(c) == process[c] = "alive"

\* From a client's claim to the end of its handshake, or of its attempt.
Connecting == {"pid", "hello", "req", "wait", "check", "abort"}

Lock(t, s)   == mutex[s] = "none" /\ mutex' = [mutex EXCEPT ![s] = t]
Locked(t, s) == mutex[s] = "none" /\ mutex' = mutex
Unlock(s)    == mutex' = [mutex EXCEPT ![s] = "none"]

Goto(t, place)       == at' = [at EXCEPT ![t] = place]
GotoSlot(t, s, place) == Goto(t, place) /\ on' = [on EXCEPT ![t] = s]

\* Next slot of one of the worker's loops over the slots, or the place after it.
NextSlot(s, place, after) ==
  IF s + 1 < NumSlots THEN GotoSlot("worker", s + 1, place)
                      ELSE GotoSlot("worker", 0, after)

Init ==
  /\ claim = [s \in Slots |-> CLAIM_FREE]
  /\ owner_pid = [s \in Slots |-> NoPid]
  /\ server_state = [s \in Slots |-> "IDLE"]
  /\ client_state = [s \in Slots |-> "IDLE"]
  /\ connect_req = [s \in Slots |-> FALSE]
  /\ connect_ack = [s \in Slots |-> FALSE]
  /\ disconnect = [s \in Slots |-> FALSE]
  /\ connected = [s \in Slots |-> FALSE]
  /\ claim_seen_at = [s \in Slots |-> Never]
  /\ mutex = [s \in Slots |-> "none"]
  /\ at = [t \in Threads |-> IF t = "worker" THEN "reclaim" ELSE "idle"]
  /\ on = [t \in Threads |-> 0]
  /\ was = [t \in Threads |-> FALSE]
  /\ orphaned = [s \in Slots |-> NotOrphaned]
  /\ watch = [s \in Slots |-> FALSE]
  /\ kicks = 0
  /\ pc = [c \in Clients |-> "idle"]
  /\ slot = [c \in Clients |-> 0]
  /\ tries = [c \in Clients |-> 0]
  /\ held = [c \in Clients |-> 0]
  /\ running = [c \in Clients |-> TRUE]
  /\ process = [c \in Clients |-> "alive"]
  /\ balance = [s \in Slots |-> 0]

-----------------------------------------------------------------------------
(* worker_loop: reclaim_stale_claims, one slot after the other *)

\* win::is_process_alive: a PID that cannot be opened counts as alive.
is_process_alive(pid) == pid = NoPid \/ process[pid] # "exited"

LivenessDue(s) ==
  claim_seen_at[s] = Never \/ claim_seen_at[s] >= LIVENESS_CHECK_INTERVAL

\* Wrong variant: nothing is done for a connected slot whose claim is gone.
ReclaimConnectedClaimed(s) ==
  /\ at["worker"] = "reclaim" /\ on["worker"] = s /\ connected[s]
  /\ Locked("worker", s) /\ NextSlot(s, "reclaim", "orphans")
  /\ UNCHANGED <<shared, connected, claim_seen_at, was, orphaned, watch, kicks,
                 balance, clients>>

\* A connected slot: orphaned if its claim is gone; else, now and then, the
\* owner is checked.  orphaned[s] also keeps the claim loaded for that check.
ReclaimConnected(s) ==
  /\ at["worker"] = "reclaim" /\ on["worker"] = s /\ connected[s]
  /\ \/ /\ claim[s] = CLAIM_FREE
        /\ orphaned' = [orphaned EXCEPT ![s] = CLAIM_FREE]
        /\ Locked("worker", s) /\ NextSlot(s, "reclaim", "orphans")
        /\ UNCHANGED claim_seen_at
     \/ /\ claim[s] # CLAIM_FREE /\ ~LivenessDue(s)
        /\ Locked("worker", s) /\ NextSlot(s, "reclaim", "orphans")
        /\ UNCHANGED <<orphaned, claim_seen_at>>
     \/ /\ claim[s] # CLAIM_FREE /\ LivenessDue(s)
        /\ orphaned' = [orphaned EXCEPT ![s] = claim[s]]
        /\ claim_seen_at' = [claim_seen_at EXCEPT ![s] = 0]
        /\ Lock("worker", s) /\ GotoSlot("worker", s, "owner")
  /\ UNCHANGED <<shared, connected, was, watch, kicks, balance, clients>>

\* Wrong variant: the check of the owner is left out.
CheckOwnerSkipped(s) ==
  /\ at["worker"] = "owner" /\ on["worker"] = s
  /\ orphaned' = [orphaned EXCEPT ![s] = NotOrphaned]
  /\ Unlock(s) /\ NextSlot(s, "reclaim", "orphans")
  /\ UNCHANGED <<shared, connected, claim_seen_at, was, watch, kicks, balance, clients>>

CheckOwner(s) ==
  /\ at["worker"] = "owner" /\ on["worker"] = s
  /\ orphaned' = [orphaned EXCEPT ![s] =
                    IF is_process_alive(owner_pid[s]) THEN NotOrphaned ELSE @]
  /\ Unlock(s) /\ NextSlot(s, "reclaim", "orphans")
  /\ UNCHANGED <<shared, connected, claim_seen_at, was, watch, kicks, balance, clients>>

\* A slot that is not connected: its claim is timed from when it is first seen.
ReclaimIdle(s) ==
  /\ at["worker"] = "reclaim" /\ on["worker"] = s /\ ~connected[s]
  /\ \/ /\ claim[s] = CLAIM_FREE
        /\ claim_seen_at' = [claim_seen_at EXCEPT ![s] = Never]
        /\ Locked("worker", s) /\ NextSlot(s, "reclaim", "orphans")
     \/ /\ claim[s] # CLAIM_FREE /\ claim_seen_at[s] < RESERVE_TIMEOUT
        /\ claim_seen_at' = [claim_seen_at EXCEPT ![s] = IF @ = Never THEN 0 ELSE @]
        /\ Locked("worker", s) /\ NextSlot(s, "reclaim", "orphans")
     \/ /\ claim[s] # CLAIM_FREE /\ claim_seen_at[s] >= RESERVE_TIMEOUT
        /\ Lock("worker", s) /\ GotoSlot("worker", s, "expired")
        /\ UNCHANGED claim_seen_at
  /\ UNCHANGED <<shared, connected, was, orphaned, watch, kicks, balance, clients>>

\* The store that releases an expired claim.
ReclaimExpired(s) ==
  /\ at["worker"] = "expired" /\ on["worker"] = s
  /\ claim' = [claim EXCEPT ![s] = CLAIM_FREE]
  /\ claim_seen_at' = [claim_seen_at EXCEPT ![s] = Never]
  /\ Unlock(s) /\ NextSlot(s, "reclaim", "orphans")
  /\ UNCHANGED <<owner_pid, server_state, client_state, connect_req, connect_ack,
                 disconnect, connected, was, orphaned, watch, kicks, balance, clients>>

-----------------------------------------------------------------------------
(* worker_loop: handle_orphaned_slot_disconnect, for each orphaned slot *)

NextOrphan(s) ==
  /\ at["worker"] = "orphans" /\ orphaned[s] # NotOrphaned
  /\ \A r \in Slots : r < s => orphaned[r] = NotOrphaned

\* Disconnected meanwhile, or the compare_exchange of the claim fails.
OrphanSkipped(s) ==
  /\ NextOrphan(s) /\ (~connected[s] \/ claim[s] # orphaned[s])
  /\ orphaned' = [orphaned EXCEPT ![s] = NotOrphaned]
  /\ Locked("worker", s)
  /\ UNCHANGED <<shared, connected, claim_seen_at, at, on, was, watch, kicks,
                 balance, clients>>

\* The compare_exchange frees the claim.
OrphanTaken(s) ==
  /\ NextOrphan(s) /\ connected[s] /\ claim[s] = orphaned[s]
  /\ orphaned' = [orphaned EXCEPT ![s] = NotOrphaned]
  /\ claim' = [claim EXCEPT ![s] = CLAIM_FREE]
  /\ connected' = [connected EXCEPT ![s] = FALSE]
  /\ claim_seen_at' = [claim_seen_at EXCEPT ![s] = Never]
  /\ was' = [was EXCEPT !["worker"] = TRUE]
  /\ Lock("worker", s) /\ GotoSlot("worker", s, "orphan_server")
  /\ UNCHANGED <<owner_pid, server_state, client_state, connect_req, connect_ack,
                 disconnect, watch, kicks, balance, clients>>

OrphansDone ==
  /\ at["worker"] = "orphans" /\ \A s \in Slots : orphaned[s] = NotOrphaned
  /\ GotoSlot("worker", 0, "collect")
  /\ UNCHANGED <<shared, slots, was, orphaned, watch, kicks, balance, clients>>

-----------------------------------------------------------------------------
(* worker_loop: the handles to wait on, and wait_any *)

Collect(s) ==
  /\ at["worker"] = "collect" /\ on["worker"] = s
  /\ watch' = [watch EXCEPT ![s] = connected[s]]
  /\ Locked("worker", s) /\ NextSlot(s, "collect", "wait")
  /\ UNCHANGED <<shared, connected, claim_seen_at, was, orphaned, kicks, balance, clients>>

Signalled(s) == IF watch[s] THEN disconnect[s] ELSE connect_req[s]

\* wait_any returns the first event that is signalled, and resets it.
WaitEvent(s) ==
  /\ at["worker"] = "wait" /\ Signalled(s)
  /\ \A r \in Slots : r < s => ~Signalled(r)
  /\ IF watch[s]
       THEN /\ disconnect' = [disconnect EXCEPT ![s] = FALSE]
            /\ GotoSlot("worker", s, "disconnect") /\ UNCHANGED connect_req
       ELSE /\ connect_req' = [connect_req EXCEPT ![s] = FALSE]
            /\ GotoSlot("worker", s, "connect") /\ UNCHANGED disconnect
  /\ UNCHANGED <<claim, owner_pid, server_state, client_state, connect_ack,
                 slots, was, orphaned, watch, kicks, balance, clients>>

WaitTimeout ==
  /\ at["worker"] = "wait" /\ \A s \in Slots : ~Signalled(s)
  /\ GotoSlot("worker", 0, "reclaim")
  /\ UNCHANGED <<shared, slots, was, orphaned, watch, kicks, balance, clients>>

-----------------------------------------------------------------------------
(* handle_slot_connect and do_slot_handshake *)

\* The load of client_state decides.
HandleConnect(s) ==
  /\ at["worker"] = "connect" /\ on["worker"] = s
  /\ \/ /\ connected[s]
        /\ Locked("worker", s) /\ GotoSlot("worker", 0, "reclaim")
     \/ /\ ~connected[s] /\ client_state[s] = "HELLO"
        /\ Lock("worker", s) /\ GotoSlot("worker", s, "server_ready")
     \/ /\ ~connected[s] /\ client_state[s] # "HELLO"
        /\ Lock("worker", s) /\ GotoSlot("worker", s, "failed")
  /\ UNCHANGED <<shared, connected, claim_seen_at, was, orphaned, watch, kicks,
                 balance, clients>>

\* A failed handshake releases the slot's claim.
HandshakeFailed(s) ==
  /\ at["worker"] = "failed" /\ on["worker"] = s
  /\ claim' = [claim EXCEPT ![s] = CLAIM_FREE]
  /\ claim_seen_at' = [claim_seen_at EXCEPT ![s] = Never]
  /\ Unlock(s) /\ GotoSlot("worker", 0, "reclaim")
  /\ UNCHANGED <<owner_pid, server_state, client_state, connect_req, connect_ack,
                 disconnect, connected, was, orphaned, watch, kicks, balance, clients>>

ServerReady(s) ==
  /\ at["worker"] = "server_ready" /\ on["worker"] = s
  /\ server_state' = [server_state EXCEPT ![s] = "READY"]
  /\ Goto("worker", "client_ready")
  /\ UNCHANGED <<claim, owner_pid, client_state, connect_req, connect_ack, disconnect,
                 slots, on, was, orphaned, watch, kicks, balance, clients>>

ClientReady(s) ==
  /\ at["worker"] = "client_ready" /\ on["worker"] = s
  /\ client_state' = [client_state EXCEPT ![s] = "READY"]
  /\ Goto("worker", "ack")
  /\ UNCHANGED <<claim, owner_pid, server_state, connect_req, connect_ack, disconnect,
                 slots, on, was, orphaned, watch, kicks, balance, clients>>

\* Wrong variant: the event is not set.
AcknowledgeSilently(s) ==
  /\ at["worker"] = "ack" /\ on["worker"] = s
  /\ connected' = [connected EXCEPT ![s] = TRUE]
  /\ claim_seen_at' = [claim_seen_at EXCEPT ![s] = Never]
  /\ Unlock(s) /\ Goto("worker", "on_client_connect")
  /\ UNCHANGED <<claim, owner_pid, server_state, client_state, connect_req, connect_ack,
                 disconnect, on, was, orphaned, watch, kicks, balance, clients>>

Acknowledge(s) ==
  /\ at["worker"] = "ack" /\ on["worker"] = s
  /\ connect_ack' = [connect_ack EXCEPT ![s] = TRUE]
  /\ connected' = [connected EXCEPT ![s] = TRUE]
  /\ claim_seen_at' = [claim_seen_at EXCEPT ![s] = Never]
  /\ Unlock(s) /\ Goto("worker", "on_client_connect")
  /\ UNCHANGED <<claim, owner_pid, server_state, client_state, connect_req, disconnect,
                 on, was, orphaned, watch, kicks, balance, clients>>

-----------------------------------------------------------------------------
(* handle_slot_disconnect by the worker, disconnect_client by another thread *)

\* Wrong variant: the callback is owed whether or not the slot was connected.
HandleDisconnectAlways(s) ==
  /\ at["worker"] = "disconnect" /\ on["worker"] = s
  /\ was' = [was EXCEPT !["worker"] = TRUE]
  /\ connected' = [connected EXCEPT ![s] = FALSE]
  /\ claim_seen_at' = [claim_seen_at EXCEPT ![s] = Never]
  /\ server_state' = [server_state EXCEPT ![s] = "IDLE"]
  /\ Lock("worker", s) /\ Goto("worker", "mark_client")
  /\ UNCHANGED <<claim, owner_pid, client_state, connect_req, connect_ack, disconnect,
                 on, orphaned, watch, kicks, balance, clients>>

\* Up to the first store of mark_disconnected.
HandleDisconnect(s) ==
  /\ at["worker"] = "disconnect" /\ on["worker"] = s
  /\ was' = [was EXCEPT !["worker"] = connected[s]]
  /\ connected' = [connected EXCEPT ![s] = FALSE]
  /\ claim_seen_at' = [claim_seen_at EXCEPT ![s] = Never]
  /\ server_state' = [server_state EXCEPT ![s] = "IDLE"]
  /\ Lock("worker", s) /\ Goto("worker", "mark_client")
  /\ UNCHANGED <<claim, owner_pid, client_state, connect_req, connect_ack, disconnect,
                 on, orphaned, watch, kicks, balance, clients>>

\* Wrong variant: `connected` is not looked at.
DisconnectClientAlways(s) ==
  /\ at["user"] = "idle" /\ "kick" \in Troubles /\ kicks < MaxKicks
  /\ kicks' = kicks + 1
  /\ was' = [was EXCEPT !["user"] = TRUE]
  /\ connected' = [connected EXCEPT ![s] = FALSE]
  /\ claim_seen_at' = [claim_seen_at EXCEPT ![s] = Never]
  /\ disconnect' = [disconnect EXCEPT ![s] = TRUE]
  /\ Lock("user", s) /\ GotoSlot("user", s, "mark_server")
  /\ UNCHANGED <<claim, owner_pid, server_state, client_state, connect_req, connect_ack,
                 orphaned, watch, balance, clients>>

\* Up to the signal to the client.  A call for a slot that is not connected does
\* nothing: no action for it.
DisconnectClient(s) ==
  /\ at["user"] = "idle" /\ "kick" \in Troubles /\ kicks < MaxKicks
  /\ connected[s]
  /\ kicks' = kicks + 1
  /\ was' = [was EXCEPT !["user"] = TRUE]
  /\ connected' = [connected EXCEPT ![s] = FALSE]
  /\ claim_seen_at' = [claim_seen_at EXCEPT ![s] = Never]
  /\ disconnect' = [disconnect EXCEPT ![s] = TRUE]
  /\ Lock("user", s) /\ GotoSlot("user", s, "mark_server")
  /\ UNCHANGED <<claim, owner_pid, server_state, client_state, connect_req, connect_ack,
                 orphaned, watch, balance, clients>>

\* mark_disconnected
MarkServer(t, s, from, to) ==
  /\ at[t] = from /\ on[t] = s
  /\ server_state' = [server_state EXCEPT ![s] = "IDLE"]
  /\ Goto(t, to)
  /\ UNCHANGED <<claim, owner_pid, client_state, connect_req, connect_ack, disconnect,
                 slots, on, was, orphaned, watch, kicks, balance, clients>>

MarkClient(t, s) ==
  /\ at[t] = "mark_client" /\ on[t] = s
  /\ client_state' = [client_state EXCEPT ![s] = "IDLE"]
  /\ Goto(t, "release")
  /\ UNCHANGED <<claim, owner_pid, server_state, connect_req, connect_ack, disconnect,
                 slots, on, was, orphaned, watch, kicks, balance, clients>>

\* The orphaned slot's claim was freed before, by the compare_exchange.
MarkOrphanClient(s) ==
  /\ at["worker"] = "orphan_client" /\ on["worker"] = s
  /\ client_state' = [client_state EXCEPT ![s] = "IDLE"]
  /\ Unlock(s) /\ Goto("worker", "on_orphan_disconnect")
  /\ UNCHANGED <<claim, owner_pid, server_state, connect_req, connect_ack, disconnect,
                 connected, claim_seen_at, on, was, orphaned, watch, kicks, balance, clients>>

\* release_slot_claim, whoever holds the claim by now.
ReleaseSlotClaim(t, s) ==
  /\ at[t] = "release" /\ on[t] = s
  /\ claim' = [claim EXCEPT ![s] = CLAIM_FREE]
  /\ Unlock(s) /\ Goto(t, "on_client_disconnect")
  /\ UNCHANGED <<owner_pid, server_state, client_state, connect_req, connect_ack,
                 disconnect, connected, claim_seen_at, on, was, orphaned, watch, kicks,
                 balance, clients>>

-----------------------------------------------------------------------------
(* The callbacks, made without the Mutex *)

OnClientConnect(s) ==
  /\ at["worker"] = "on_client_connect" /\ on["worker"] = s
  /\ balance' = [balance EXCEPT ![s] = @ + 1]
  /\ GotoSlot("worker", 0, "reclaim")
  /\ UNCHANGED <<shared, slots, was, orphaned, watch, kicks, clients>>

OnClientDisconnect(t, s) ==
  /\ at[t] \in {"on_client_disconnect", "on_orphan_disconnect"} /\ on[t] = s
  /\ balance' = [balance EXCEPT ![s] = IF was[t] THEN @ - 1 ELSE @]
  /\ was' = [was EXCEPT ![t] = FALSE]
  /\ GotoSlot(t, 0, CASE t = "user" -> "idle"
                      [] at[t] = "on_orphan_disconnect" -> "orphans"
                      [] OTHER -> "reclaim")
  /\ UNCHANGED <<shared, slots, orphaned, watch, kicks, clients>>

-----------------------------------------------------------------------------
(* client_worker: claim_free_slot, try_claim_slot *)

Step(c, from, to) == Alive(c) /\ pc[c] = from /\ pc' = [pc EXCEPT ![c] = to]

\* `running` is looked at before the first slot only.
Scanning(c) == (running[c] \/ slot[c] # 0) /\ tries[c] < MaxClaims

\* Wrong variant: the claim is stored without looking at the one it replaces.
TryClaimSlotBlindly(c) ==
  /\ Step(c, "idle", "pid") /\ Scanning(c)
  /\ tries' = [tries EXCEPT ![c] = @ + 1]
  /\ claim' = [claim EXCEPT ![slot[c]] = <<c, tries[c] + 1>>]
  /\ UNCHANGED <<owner_pid, server_state, client_state, connect_req, connect_ack,
                 disconnect, slots, server, slot, held, running, process>>

\* The compare_exchange of the claim.
TryClaimSlot(c) ==
  /\ Step(c, "idle", "pid") /\ Scanning(c)
  /\ claim[slot[c]] = CLAIM_FREE
  /\ tries' = [tries EXCEPT ![c] = @ + 1]
  /\ claim' = [claim EXCEPT ![slot[c]] = <<c, tries[c] + 1>>]
  /\ UNCHANGED <<owner_pid, server_state, client_state, connect_req, connect_ack,
                 disconnect, slots, server, slot, held, running, process>>

\* It failed: on to the next slot, or, after NoFreeSlot and a delay, to the first.
TryNextSlot(c) ==
  /\ Step(c, "idle", "idle") /\ Scanning(c)
  /\ claim[slot[c]] # CLAIM_FREE
  /\ slot' = [slot EXCEPT ![c] = (@ + 1) % NumSlots]
  /\ UNCHANGED <<shared, slots, server, tries, held, running, process>>

\* The PID of the owner follows its claim.
PublishPid(c) ==
  /\ Step(c, "pid", "hello")
  /\ owner_pid' = [owner_pid EXCEPT ![slot[c]] = c]
  /\ UNCHANGED <<claim, server_state, client_state, connect_req, connect_ack,
                 disconnect, slots, server, slot, tries, held, running, process>>

-----------------------------------------------------------------------------
(* client_worker: SharedClient::connect *)

Hello(c) ==
  /\ Step(c, "hello", "req")
  /\ client_state' = [client_state EXCEPT ![slot[c]] = "HELLO"]
  /\ UNCHANGED <<claim, owner_pid, server_state, connect_req, connect_ack,
                 disconnect, slots, server, slot, tries, held, running, process>>

Request(c) ==
  /\ Step(c, "req", "wait")
  /\ connect_req' = [connect_req EXCEPT ![slot[c]] = TRUE]
  /\ UNCHANGED <<claim, owner_pid, server_state, client_state, connect_ack,
                 disconnect, slots, server, slot, tries, held, running, process>>

\* The wait for connect_ack ends with the event, which it resets ...
Acknowledged(c) ==
  /\ Step(c, "wait", "check") /\ connect_ack[slot[c]]
  /\ connect_ack' = [connect_ack EXCEPT ![slot[c]] = FALSE]
  /\ UNCHANGED <<claim, owner_pid, server_state, client_state, connect_req,
                 disconnect, slots, server, slot, tries, held, running, process>>

\* ... or after slot_timeout without it.
ConnectTimeout(c) ==
  /\ "timeout" \in Troubles
  /\ Step(c, "wait", "abort") /\ ~connect_ack[slot[c]] /\ held[c] = SLOT_TIMEOUT
  /\ UNCHANGED <<shared, slots, server, slot, tries, held, running, process>>

\* The load of server_state decides.
CheckServer(c) ==
  /\ LET ready == server_state[slot[c]] = "READY" IN
       /\ Step(c, "check", IF ready THEN "up" ELSE "abort")
       /\ held' = [held EXCEPT ![c] = IF ready THEN 0 ELSE @]
  /\ UNCHANGED <<shared, slots, server, slot, tries, running, process>>

Abort(c) ==
  /\ Step(c, "abort", "release")
  /\ client_state' = [client_state EXCEPT ![slot[c]] = "IDLE"]
  /\ held' = [held EXCEPT ![c] = 0]
  /\ UNCHANGED <<claim, owner_pid, server_state, connect_req, connect_ack,
                 disconnect, slots, server, slot, tries, running, process>>

-----------------------------------------------------------------------------
(* client_worker: connected, until it is disconnected or stopped *)

Disconnected(c) ==
  /\ Step(c, "up", "drop") /\ disconnect[slot[c]]
  /\ disconnect' = [disconnect EXCEPT ![slot[c]] = FALSE]
  /\ UNCHANGED <<claim, owner_pid, server_state, client_state, connect_req,
                 connect_ack, slots, server, slot, tries, held, running, process>>

\* The MultiClient is dropped.
Stop(c) ==
  /\ "leave" \in Troubles /\ Alive(c) /\ running[c]
  /\ running' = [running EXCEPT ![c] = FALSE]
  /\ UNCHANGED <<shared, slots, server, pc, slot, tries, held, process>>

Stopped(c) ==
  /\ Step(c, "up", "drop") /\ ~running[c]
  /\ UNCHANGED <<shared, slots, server, slot, tries, held, running, process>>

\* Drop for SharedClient, then release_claim.
DropClient(c) ==
  /\ Step(c, "drop", "dropped")
  /\ client_state' = [client_state EXCEPT ![slot[c]] = "IDLE"]
  /\ UNCHANGED <<claim, owner_pid, server_state, connect_req, connect_ack,
                 disconnect, slots, server, slot, tries, held, running, process>>

DropSignals(c) ==
  /\ Step(c, "dropped", "release")
  /\ disconnect' = [disconnect EXCEPT ![slot[c]] = TRUE]
  /\ UNCHANGED <<claim, owner_pid, server_state, client_state, connect_req,
                 connect_ack, slots, server, slot, tries, held, running, process>>

\* The compare_exchange releases the claim only if it is still this client's.
ReleaseClaim(c) ==
  /\ Step(c, "release", "idle")
  /\ claim' = [claim EXCEPT ![slot[c]] = IF @ = Token(c) THEN CLAIM_FREE ELSE @]
  /\ slot' = [slot EXCEPT ![c] = 0]
  /\ UNCHANGED <<owner_pid, server_state, client_state, connect_req, connect_ack,
                 disconnect, slots, server, tries, held, running, process>>

-----------------------------------------------------------------------------
(* Processes end, and time passes *)

Crash(c) ==
  /\ "crash" \in Troubles /\ Alive(c)
  /\ process' = [process EXCEPT ![c] = "exited"]
  /\ held' = [held EXCEPT ![c] = 0]
  /\ UNCHANGED <<shared, slots, server, pc, slot, tries, running>>

\* The last handle to the ended process is closed.
Vanish(c) ==
  /\ "vanish" \in Troubles /\ process[c] = "exited"
  /\ process' = [process EXCEPT ![c] = "gone"]
  /\ UNCHANGED <<shared, slots, server, pc, slot, tries, held, running>>

Attempts(c) == Alive(c) /\ pc[c] \in Connecting

\* A client that connects does not outlast its timeout.
Tick ==
  /\ \A c \in Clients : Attempts(c) => held[c] < SLOT_TIMEOUT
  /\ claim_seen_at' = [s \in Slots |-> Aged(claim_seen_at[s])]
  /\ held' = [c \in Clients |-> IF Attempts(c) THEN held[c] + 1 ELSE held[c]]
  /\ claim_seen_at' # claim_seen_at \/ held' # held
  /\ UNCHANGED <<shared, connected, mutex, server, pc, slot, tries, running, process>>

-----------------------------------------------------------------------------
WorkerStep ==
  \/ \E s \in Slots :
       \/ ReclaimConnected(s) \/ CheckOwner(s) \/ ReclaimIdle(s) \/ ReclaimExpired(s)
       \/ OrphanSkipped(s) \/ OrphanTaken(s) \/ Collect(s) \/ WaitEvent(s)
       \/ HandleConnect(s) \/ HandshakeFailed(s) \/ ServerReady(s) \/ ClientReady(s)
       \/ Acknowledge(s) \/ HandleDisconnect(s) \/ MarkClient("worker", s)
       \/ MarkServer("worker", s, "orphan_server", "orphan_client")
       \/ MarkOrphanClient(s) \/ ReleaseSlotClaim("worker", s)
       \/ OnClientConnect(s) \/ OnClientDisconnect("worker", s)
  \/ OrphansDone \/ WaitTimeout

UserStep ==
  \E s \in Slots :
    \/ MarkServer("user", s, "mark_server", "mark_client") \/ MarkClient("user", s)
    \/ ReleaseSlotClaim("user", s) \/ OnClientDisconnect("user", s)

ClientStep(c) ==
  \/ TryClaimSlot(c) \/ TryNextSlot(c) \/ PublishPid(c) \/ Hello(c) \/ Request(c)
  \/ Acknowledged(c) \/ ConnectTimeout(c) \/ CheckServer(c) \/ Abort(c)
  \/ Disconnected(c) \/ Stopped(c) \/ DropClient(c) \/ DropSignals(c) \/ ReleaseClaim(c)

Next ==
  \/ WorkerStep
  \/ UserStep
  \/ \E s \in Slots : DisconnectClient(s)
  \/ \E c \in Clients : ClientStep(c) \/ Stop(c) \/ Crash(c) \/ Vanish(c)
  \/ Tick

Spec == Init /\ [][Next]_vars

\* The threads run and the clock advances.  Nobody has to stop a client, end a
\* process or call disconnect_client.
FairSpec ==
  /\ Spec
  /\ WF_vars(WorkerStep) /\ WF_vars(UserStep) /\ WF_vars(Tick)
  /\ \A c \in Clients : WF_vars(ClientStep(c))

-----------------------------------------------------------------------------
(* Properties *)

States      == {"IDLE", "HELLO", "READY"}
ServerPlaces ==
  {"reclaim", "owner", "expired", "orphans", "orphan_server", "orphan_client",
   "on_orphan_disconnect", "collect", "wait", "connect", "failed", "server_ready",
   "client_ready", "ack", "on_client_connect", "disconnect", "idle", "mark_server",
   "mark_client", "release", "on_client_disconnect"}

Claims == Tokens \union {CLAIM_FREE}

SharedTypes ==
  /\ claim \in [Slots -> Claims] /\ owner_pid \in [Slots -> Clients \union {NoPid}]
  /\ server_state \in [Slots -> {"IDLE", "READY"}] /\ client_state \in [Slots -> States]
  /\ connect_req \in [Slots -> BOOLEAN] /\ connect_ack \in [Slots -> BOOLEAN]
  /\ disconnect \in [Slots -> BOOLEAN]
SlotTypes ==
  /\ connected \in [Slots -> BOOLEAN]
  /\ claim_seen_at \in [Slots -> {Never} \union (0..RESERVE_TIMEOUT)]
  /\ mutex \in [Slots -> Threads \union {"none"}]
ServerTypes ==
  /\ at \in [Threads -> ServerPlaces] /\ on \in [Threads -> Slots]
  /\ was \in [Threads -> BOOLEAN]
  /\ orphaned \in [Slots -> Claims \union {NotOrphaned}]
  /\ watch \in [Slots -> BOOLEAN] /\ kicks \in 0..MaxKicks
  /\ balance \in [Slots -> Int]
ClientTypes ==
  /\ pc \in [Clients -> Connecting \union {"idle", "up", "drop", "dropped", "release"}]
  /\ slot \in [Clients -> Slots] /\ tries \in [Clients -> 0..MaxClaims]
  /\ held \in [Clients -> 0..SLOT_TIMEOUT]
  /\ running \in [Clients -> BOOLEAN]
  /\ process \in [Clients -> {"alive", "exited", "gone"}]

\* Type correctness: the shared words and events, and the state of each thread.
TypeOK == SharedTypes /\ SlotTypes /\ ServerTypes /\ ClientTypes

One(b) == IF b THEN 1 ELSE 0

\* on_client_connect and on_client_disconnect are called after the Mutex is
\* released, by two threads and on three paths (handle_slot_disconnect,
\* handle_orphaned_slot_disconnect, disconnect_client).  In whatever order they
\* come, the callbacks made and those still owed add up to the slot's state: none
\* is lost and none is made twice.
CallbackAccounting ==
  \A s \in Slots :
    LET owes(t)    == One(was[t] /\ on[t] = s)
        connecting == One(at["worker"] = "on_client_connect" /\ on["worker"] = s)
    IN  balance[s] + connecting - owes("worker") - owes("user") = One(connected[s])

\* claim_free_slot: "concurrent clients take DIFFERENT slots".  A connected client
\* holds the claim of its slot, so that no two of them share a section and its
\* rings.
Exclusive ==
  \A c \in Clients : Alive(c) /\ pc[c] = "up" => claim[slot[c]] = Token(c)

\* handle_orphaned_slot_disconnect frees a claim only if its process is confirmed
\* to have ended, or if nobody has it any more.
LivingNotOrphaned ==
  [][\A s \in Slots, c \in Clients :
       OrphanTaken(s) /\ claim[s] = Token(c) => ~Alive(c)]_vars

\* clamp_slot_timeout: a client that still connects within its timeout does not
\* lose its claim to the reserve timer.
ReserveSparesTheLiving ==
  [][\A s \in Slots, c \in Clients :
       ReclaimExpired(s) /\ Attempts(c) /\ slot[c] = s => claim[s] # Token(c)]_vars

\* "The client is signalled": a client whose slot disconnect_client has taken from
\* it does not go on as if it were connected.
KickedLearns ==
  \A c \in Clients :
    pc[c] = "up" /\ claim[slot[c]] # Token(c) ~> pc[c] # "up" \/ ~Alive(c)

\* reclaim_stale_claims: "without this check such a slot would be lost FOREVER".
\* A claim never stays with a process that has ended.
DeadReleased ==
  \A s \in Slots, c \in Clients :
    claim[s] = Token(c) /\ ~Alive(c) ~> claim[s] # Token(c)

\* When all clients' processes have ended, wherever in the protocol that was, every
\* slot is free again and the server takes none for connected.
SlotsReturn ==
  \A s \in Slots :
    (\A c \in Clients : ~Alive(c)) ~> claim[s] = CLAIM_FREE /\ ~connected[s]

\* An abandoned handshake: the server finishes it when its client has given up and
\* released the claim.  No event ever comes for such a slot, and yet the server
\* takes it back.
AbandonedReturns ==
  \A s \in Slots :
    connected[s] /\ claim[s] = CLAIM_FREE ~> ~connected[s] \/ claim[s] # CLAIM_FREE

\* Every client is connected in the end.
AllServed == \A c \in Clients : <>(pc[c] = "up")
=============================================================================
