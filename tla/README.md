# xshm in TLA+

`xshm` moves messages between processes through sections of shared memory: lock-free rings, a handshake, worker
threads, and two servers for many clients. This directory holds TLA+ models of it, TLC runs that check them on small
instances, and TLAPS proofs of safety properties for every value of the constants.
`PROJECT.json` lists the runs, the source lines behind every definition, the hazards and the theorems.

## 1. The system

| Component | State | Operations | Interacts with |
|---|---|---|---|
| **Ring** `ring.rs`, `constants.rs` | `RingHeader`: `write_pos`, `read_pos`, `message_count`, `drop_count` (u32, wrapping); the data area | `write_message` (with `discard_oldest`), `read_message` | writer and reader threads of two processes share it without a lock |
| **Layout** `layout.rs`, `shared.rs` | `ControlBlock` (magic, `generation`, `server_state`, `client_state`, `reserved[]`), two `RingHeader`s, two data areas | `reset` | every other component reads and writes its words |
| **Endpoints** `server.rs`, `client.rs` | `connected`; the section; seven auto-reset events | `wait_for_client` (events or polling), `connect`, `send_*`, `receive_*`, `poll_*`, `mark_disconnected`, `Drop` | ring, control block and events of the peer |
| **OS objects** `events.rs`, `win.rs` | events, section, process objects | `set`, `wait`, `wait_any` (lowest index first), `is_process_alive` | one `disconnect` event serves both directions |
| **Auto** `auto/mod.rs` | one worker thread per side, a command channel, a send queue that outlives connections, statistics | `send`, `stop`, callbacks | endpoints; application callbacks |
| **Multi** `multi/mod.rs` | server: `ClientSlot {server, connected, claim_seen_at}` under a Mutex each; shared: claim token and owner PID in `reserved[]`; client: `slot_id`, `running`, send queue | claim, handshake, data, disconnect, reclaim, `disconnect_client`, `stop` | N sections `base_0..N-1`; client processes race for their claims |
| **Dispatch** `dispatch/mod.rs`, `protocol.rs` | lobby endpoint, map of clients (RwLock), pending threads | register, connect to a channel of one's own, `disconnect_client`, `stop` | an AutoServer for each client |
| **C bindings** `ffi.rs`, `multi/ffi.rs`, `dispatch/ffi.rs` | handles; `RecvCache`, a message the caller's buffer had no room for | the manual endpoints call by call; conversions for the rest | all of the above |

What is hard in it: two processes share a ring with no lock, and either of them may be preempted between any two
accesses; claims, PIDs and handshake states are separate words; events are auto-reset, shared, and outlive the
connection they were set for; a client's process may end anywhere; timeouts race with late answers; callbacks are made
after locks are released. What makes each component correct:

* Ring: a queue that loses only whole messages, only from the front, only in a write, and counts them; what is read
  is intact and in order; no call retries for ever.
* Endpoints: a message is never left in the ring with its reader asleep for good; a handshake connects both sides or
  neither.
* Multi: one client to a slot; every slot comes back whatever becomes of its client; each connection is announced and
  ended once; a living client keeps its slot.
* Auto: one client at a time, in order and never twice across reconnections; what `stop` flushes; both sides meet again.
* Lobby: each client gets the answer to its own registration, and the lobby serves the next one.
* Dispatch: each entered client is reported gone once; an entry has a live worker; threads end; `stop` returns.
* C bindings: with the cache, each direction is still the lossy queue of the ring, as long as the ring is one; a poll
  without timeout returns.

## 2. The modules

| Module | Role |
|---|---|
| `Ring` | the ring, one action per shared access, with its properties |
| `LossyFifo` | the abstract queue that a ring, and a pair of C handles, implements |
| `RingInvariant`, `RingProofs`, `RingSafety` | the inductive invariant of the ring and its mapping to `LossyFifo`; the proofs, with the arithmetic modulo a width that they rest on |
| `MultiSlots` | slots of a MultiServer and the clients that compete for them |
| `Traffic` | messages, locks and waits of a MultiServer whose slots are connected, with its inductive invariant |
| `Channel` | section, events and endpoint operations of one channel, as operators on a record |
| `Auto` | AutoServer and AutoClient workers over `Channel` |
| `Protocol` | the two messages of the lobby as sequences of bytes |
| `Lobby` | the lobby loop and `lobby_register` over `Channel` and `Protocol` |
| `LobbyInvariant`, `LobbyProofs` | its inductive invariant; the proofs about `Protocol` and `Lobby` |
| `Dispatch` | threads, map, callbacks and `stop` of a DispatchServer |
| `DispatchInvariant`, `DispatchProofs` | its inductive invariant and the proofs |
| `CApi` | the manual server and client handles of the C interface over `Channel`; implements `LossyFifo` |
| `MultiInvariant`, `AutoInvariant`, `CApiInvariant` | the inductive invariants of these three modules |
| `MultiProofs`, `AutoProofs`, `CApiProofs`, `TrafficProofs` | the proofs about these and `Traffic` |
| `MC*` | the module of that name for TLC |

Two levels of detail meet in the ring. `Ring` has every access to memory. `Channel` abstracts a ring to its messages and its
`message_count`. Reader and discarding writer both take a message first and subtract it from the count in a later step, so
that the count is stale in between. What a stale count does is kept:

* the writer may refuse a message that fits (`Refuses`: the ring looked full, by its bytes or by its count, and the server has
  taken its last message meanwhile; `ring.rs:199-204`);
* the reader may look for a message that was counted and is gone (`Phantom`). It then looks again, reports `Corrupted`, or takes
  bytes that nobody sent (`TakeNothing`, the fault that `Ring_torn` exhibits);
* `was_empty`, the test for a signal, may be wrong.

What `Channel` merges is the increment of the count and the store of `write_pos` right after it: `read_message` does not load
`write_pos`, and a message can be read as soon as it is counted. The other fault of `Ring`, a full turn of the positions during one read,
is left to it.

Definitions marked as a "wrong variant" belong to no behaviour of a specification. Each is an action or operator with a
plausible mistake, and putting it in the place of the right one makes a property fail; `PROJECT.json` pairs them under
"mutants".

### Ring

The variables `write_pos` ... `storage` are the words of the header and the data area. `w_pc` and `r_pc` say where
`write_message` and `read_message` are; `w_*`, `d_*` and `r_*` are their locals. The actions follow the code from load
to load: `WLoad, WDiscard | WRefuse | WCopy, WCopied, WInc, WStore` for the writer, `DLoad, DCas | DRetry, DSub` for
`discard_oldest` inside it, and `RCount, RLoad, RLen, RCopy..., RCas | RRetry, RSub` for the reader.

* *Cells.* A length is counted in cells of `MESSAGE_HEADER_SIZE` bytes. A cell says which message it belongs to and
  which part of it it is. Cells being written, or never written, are `Junk`, and a length read off anything but a header
  cell is any length (`read_u16`), so a torn read is possible in the model wherever it is in memory.
* *Widths.* Positions and counters are kept modulo `PosMod` and `CountMod`, small enough in the runs to wrap.
* *Memory order.* Steps interleave sequentially. The code runs on x86 only, where a store may be delayed past a later
  load of the same thread but not past a locked instruction: every plain store of the writer (copy, `write_pos`) is
  followed by one before the loads that matter, and the reader stores by locked instructions only.
* *History.* `bnd`, `head`, `taken`, `r_head`, `r_disc`, `last` and `fault` are read by no guard. `fault` becomes "phantom" when
  the reader loads `read_pos` where no message starts, and "aba" when `read_pos` has come back, after a whole turn
  of its width, to the value the reader holds: from then on the compare_exchange validates nothing.
* *The queue.* The mapping to `LossyFifo` reads the messages off the memory: from `read_pos` on, each is made of the cells
  found where it was stored, and is no message if these are not its own. It is accepted when it is counted, `received` when the
  compare_exchange takes it, and nothing is promised (`broken`) after a fault.

### MultiSlots

Each word and event of a slot's section is a variable (`claim`, `owner_pid`, `server_state`, `client_state`,
`connect_req`, `connect_ack`, `disconnect`), and so are the `ClientSlot` fields and the Mutex's holder. There are three
kinds of processes, each with a place (`at`, `pc`):

* the **worker**: `reclaim` (`ReclaimConnected`, `CheckOwner`, `ReclaimIdle`, `ReclaimExpired`, slot by slot), then
  `orphans` (`OrphanTaken`, `OrphanSkipped`), `collect`, `wait` (`WaitEvent`, `WaitTimeout`), and the handlers
  `HandleConnect ... Acknowledge` and `HandleDisconnect ... ReleaseSlotClaim`, each followed by its callback;
* a **user** thread that calls `disconnect_client` (`DisconnectClient ... OnClientDisconnect`);
* the **clients**: `TryClaimSlot`, `PublishPid`, `Hello`, `Request`, `Acknowledged` or `ConnectTimeout`, `CheckServer`,
  then `Disconnected` or `Stopped`, `DropClient`, `DropSignals`, `ReleaseClaim`.

`Tick` advances `claim_seen_at` and the age `held` of each attempt to connect. Its guard is the timing assumption: a
client's attempt, from the claim to the end of the handshake or to its last store before the release, takes no longer
than `SLOT_TIMEOUT`, which is less than `RESERVE_TIMEOUT` (`clamp_slot_timeout` and its two seconds of margin). Nothing
bounds the time the server takes. `Troubles` selects what the environment may do: clients leave, crash, vanish (the
ended process can no longer be opened), time out, or are disconnected by the server's owner.

Left out: messages and data events (they change none of this state), the connection generation (written, and read by
nothing here), restarts and `stop` of the server, reuse of a PID by another process.

### Traffic

The other half of the MultiServer: its slots are connected, clients write for ever, the worker goes from `Collect`
(a look under each Mutex) to `WaitAny` or the timeout (`PollAllSlots`), reads a batch of a slot under its Mutex, unlocks
(`Unlock`) and calls the handler, which may call `send_to` or `broadcast` as other threads do. Nothing but the ring
is bounded. The question is who waits for whom, so that messages are not told apart. A client that discards does so in two steps
(`Discard`, `Discount`), and the worker's read in three (`Look`, `Take`, `Subtract`): a discard in between makes the read
look again, under the lock of the slot.

### Channel, Auto

`Channel` is the section of one channel with its events: `Hello`, `Request`, `ResetRings`, `ServerReady`,
`Acknowledge`, `DropClient` and so on are what `SharedServer` and `SharedClient` store. `Auto` gives each a place in a
worker. `srv` is the server's worker (`TakeRequest`, `AckRequest`, `Pass`, `Read`, `OnMessage`, `Wake`, `ServerEnds`) and
`cli[k]` that of each client process, with its command channel and queue (`Open`, `SetRequest`, `TakeAck` or a timeout,
`ClientPass`, `Load`, `Write`, `Discard`, `Discount`, `Refuse`, `Signal`, `ClientWake`, `ClientLeaves`); users call `Send`,
`Stop` and drop the handle at any time. `srv` reads in the steps `Read`, `Take` (or `LookAgain`, `TakeNothing`,
`ReadCorrupted`) and `OnMessage`. Messages run from clients to the server: `process_send_queue` and `process_receive_queue` are
generic, the other direction is the same code. A message carries its sender, its number and the connection it was sent on, which
no guard reads. `fault` holds the one fault of a behaviour; a reader that took bytes nobody sent makes it "torn", and
that behaviour is not followed further (`Followed`): `read_pos` is then no longer at a message, and `Ring` explores what that
means.

### Protocol, Lobby

`Protocol` is the encoder and decoder of registrations on bytes, with the checks in the order of the code. A name is a well-formed
UTF-8 string (`Text`); the encoder cuts it at a byte, and `from_utf8_lossy` replaces a character that was cut in the
middle by U+FFFD. `Lobby` runs them (in its runs each client's name ends in a character that the limit cuts): the
loop of `worker_loop` with `handle_lobby_client` (`CreateLobby`, `TakeRequest`, `AckRequest`, `ReadRequest`, `Reply`, `Mark`)
and `lobby_register` in each process (`Connect` ... `ReadAnswer`, with the timeouts). Clients share the one section of the
lobby, its rings and its events. A section exists as long as anybody holds it open, which decides whether a lobby that was
dropped can be created again. `Stop` only clears `running`: a wait that is under way still takes a request, and the service
of a client that was let in ends at the next look at the flag.

### Dispatch

Per client (`of[c]`): the worker of its AutoServer, the thread that waits for it to join, the thread that drops the
AutoServer when its own worker may not, and the thread inside a `disconnect_client` that removed it: a user's (`Kick`), or the
worker of a handler, of this client or of another (`HandlerDisconnects`, with the joined client as its `target`). Every
critical section of the map's RwLock is one step, except the drain of `stop()`, which holds it while it calls the handler and joins
workers (`Held`). A client drops its end (`Leave`), which sets the disconnect event, or its process ends (`Die`), which sets
none. Callbacks are counted (`connects`, `disconnects`).

The handler may call `send_to` (or `broadcast`, the same lock) and `disconnect_client` from `on_message`, and any of them from
the `on_client_disconnect` of the drain, where the call never returns. Its other callbacks are taken to return without a call
back, and none to call `stop()`, which joins the thread that made it.

### CApi

One server handle, named or anonymous, and the handles of a client process, driven call by call: `wait_for_client` in
both forms, `connect`, `disconnect`, `stop`, send, receive and poll. Each end sends from one thread and receives from
another. `cache` is `RecvCache`. The refinement mapping gives `LossyFifo` the messages of the ring as its queue and a message
taken but not yet given to the program as the one `received`. A direction in which a reader took bytes that nobody sent is `torn`,
which the mapping shows as the `broken` queue, from which nothing is promised: a handle implements the queue exactly as long as the
ring under it does. Calls under way on a torn direction end; new ones are not followed.

## 3. The runs

| Run | Shows | Instance | States |
|---|---|---|---|
| `Ring_safe` | accounting of the count, integrity and order of reads, counted drops, live messages untouched, no false `Corrupted`; `Ring` implements `LossyFifo` | 6 cells, at most 2 messages of 1-3 cells, 5 writes; positions wrap at 12, counters at 4 | 1.5 million |
| `Ring_live` | `write_message` returns; every accepted message leaves the ring; also after a fault, when every variable keeps its width, and which happens only in an attempt that a discard overlaps | 4 cells, 2 messages of 2 cells, 6 writes; positions wrap at 8 and turn right round | 193 thousand |
| `Ring_torn` (violation) | README.md:37 and ring.rs:267 promise torn-read safety under overflow; a stale count defeats it | 4 messages | |
| `Multi_slots` | every connection is announced and ended once | 2 clients, 1 slot, leave, crash, vanish, one kick, one claim each | 1.2 million |
| `Multi_calm` | one client to a slot; every client is served | 2 clients, 2 slots, no trouble | 13 thousand |
| `Multi_return` | slots return after all clients died anywhere; abandoned handshakes are undone | 2 clients, 1 slot, leave, crash, time out, one claim each | 318 thousand |
| `Multi_dead` | no claim stays with a dead process | 2 clients, 1 slot, leave, crash, two claims each | 175 thousand |
| `Dispatch` | `IInv` (section 4); one `on_client_disconnect` for each entered client; entries have live workers; threads end; leavers are removed; `stop` returns, unless handlers or a departure made threads wait for each other | 2 clients, 2 joins, 2 messages whose handlers may call `send_to` or disconnect either client | 446 thousand |
| `Auto` | one writer at a time; nothing of an earlier connection is delivered; order across reconnections; what `stop` flushes; a message in the ring is read; clients reconnect; drops return | 2 clients, 3 sends, one of them unwritable, a queue of 1, batches of 1, one fault | 551 thousand |
| `Lobby` | whose answer a client gets; the lobby comes back; a client that comes to it alone is registered | 2 clients, 2 requests each, any number of calls, one fault | 489 thousand |
| `CApi` | `IInv` (section 4); both directions implement `LossyFifo`, until a read trusts a stale count; a poll without timeout returns | named or anonymous, 3 sends of 2 lengths, 2 connections, one early timeout | 729 thousand |
| `Traffic` | whoever holds a slot asks for no other; a message in a ring is read and sends return, unless another slot's events, other threads' locks or the retries of one read never cease | 2 slots, batches of 1, one calling thread besides the handler, unbounded writes | 174 thousand |

**Bounds.** A ring of 6 cells and 2 messages is filled by its bytes (two messages of 4 cells do not fit) as well as by its
count (two messages of 2 cells leave room for a third); 5 writes fill it, overflow it several times, turn it over and
take the positions past their width, and messages straddle the end of the buffer. `MaxWrites` is the only bound on
behaviour, and only a stopped writer results from it, which is why these runs do not check for deadlock. The constraint
`BeforeFault` of `Ring_safe` ends a behaviour at its first faulty state, that state included: its properties are
conditional on `fault`, and `Ring_live` explores what comes after. Six writes of two cells turn the positions of
`Ring_live` round, so that both faults occur there. In `MultiSlots` two clients suffice for every race
found in the code (a client with its predecessor, or with its rival); timeouts of 1 and 2 ticks are the shortest that
keep `SLOT_TIMEOUT` below `RESERVE_TIMEOUT`; `MaxClaims` bounds claims per client and `MaxKicks` calls of
`disconnect_client`. The worker never stops, and deadlock is checked. `Multi_slots`, safety only, takes the clients as
symmetric; the runs with liveness do not.

In `Auto` two client processes give a client with its predecessor and with its rival; 3 sends overflow the queue and the
ring; reconnections are not bounded, and `Generations` wraps at 2. In `Lobby` `MaxTries` bounds the requests a process sends, not
how often it comes and gives up before; its second call meets what the first left behind. `RingMax` is 2 in the modules over
`Channel`: with 1, a write finds the ring full or empty, `was_empty` is always true and no signal is ever lost. `Faults` happen once
in a behaviour, and are chosen by TLC; for `OwnAnswer` of `Lobby` that is a condition (section 5). A stale count is not one of
them: it arises from the interleaving alone. In `Dispatch` two clients whose handlers disconnect each other are the
shortest cycle of joins, and with two messages both handlers are called.
These systems may stop (all clients done, bounds reached), so that deadlock is not checked; the liveness properties say
which waits must end.

**Fairness.** `Ring`: weak fairness of the writer's steps (a call that has begun runs on) and of the reader's (the worker
loops poll at least every `poll_timeout`); none for calls of `write_message`. `MultiSlots`: weak fairness of the worker, of a
begun `disconnect_client`, of each client's thread, and of the clock; none for `Stop`, `Crash`, `Vanish` and
`DisconnectClient`, which may never happen. The other modules likewise: each thread that runs is scheduled, a call once
begun is carried on, and users, clients and faults owe nothing. A wait with a timeout ends, fairly, only where no answer is
under way; that it may end earlier too is a fault ("timeout") where the answer would have come. An infinite poll of `CApi`
has no timeout. `Traffic` assumes nothing of the Mutexes, which may go to another thread each time they are free, and
`Crowded` excepts a thread that this keeps out for ever; weak fairness of the clients is for a write they have begun.

**Conditions in the properties.** Each exception is a behaviour that the code has, and the property says that there is no other:

* *Ring, CApi, Auto.* The properties of `Ring` and the refinements hold until a read trusts a stale count (`fault`, `broken`).
  `OneClientUp`, `CleanStart` and `StopFlushes` end there and at a corrupted ring, of which the code does not tell the peer
  (section 5): of two clients that are then connected, one may find the ring full of the other's messages.
* `StopFlushes` excepts a message that no ring holds (`TooLarge`), and one whose write was refused because the server took the last
  message of a full ring meanwhile (`raced`): the worker puts it back, ends its pass, and after `Shutdown` leaves with it.
* `OwnAnswer` excepts clients that were in the lobby together. `Registers` speaks of a client that is alone there and comes to a
  lobby with nothing left signalled; any fault may have happened before, none happens meanwhile.
* `LobbyBack` excepts a dropped lobby whose section some client has open again and again for ever, in attempts that overlap:
  the server can then not create it anew.
* `StopReturnsUnlessStuck`, `WorkersEnd` and `LeaverRemoved` except threads that wait for each other for ever, which `Stuck` and
  `DrainStuck` spell out: workers whose handlers disconnect each other's clients and so join each other; the drain that joins
  a worker which waits for the lock the drain holds, or joins into such a cycle; a callback of the drain that calls the server back.
  They show that no other wait among the threads of a DispatchServer is endless, as long as no callback calls `stop()` and those
  listed in section 2 return.
* `LeaverRemoved` is about a client that drops its end. One whose process ends sets no event, and stays in the map until
  `disconnect_client` or `stop`.
* `Served` and `CallsReturn` except a slot beside one whose events never cease, a Mutex that always goes to others (`Crowded`), and
  one `read_message` under the Mutex that never ends because its client discards a message before each compare_exchange
  (`Overrun`).
* `Exclusive`, `LivingNotOrphaned` and `DeadReleased` hold or fail with the environment: `Multi_calm` and `Multi_dead` show
  where they hold, section 5 the least trouble that breaks them.

## 4. What is proved

**The ring**, in `RingProofs` and `RingSafety`, for every value of the constants that satisfies the assumptions of `Ring`: the
capacity divides the width of positions and is smaller than it, lengths fit the capacity, `MAX_MESSAGES` fits its
counter. `MaxWrites` is arbitrary. Nothing else is assumed.

| Theorem | States |
|---|---|
| `TypeCorrect` | `Spec => []TypeOK` |
| `Invariance` | `Spec => []IInv` |
| `CountIsExact` | `Spec => []CountAccounting` |
| `ReadsAreIntact` | `Spec => []DeliveredIntactInOrder` |
| `NothingLooksCorrupted` | `Spec => []NoFalseCorruption` |
| `DropsAccounted` | `Spec => []DropsAreCounted` |
| `LiveCellsKept` | `Spec => []LiveMessagesIntact` |
| `FaultsNeedOverlap` | `Spec => []FaultNeedsDiscard` |
| `RingIsFifo` | `Spec => ImplementsFifo`, a refinement: the ring implements `LossyFifo` |

None of the properties is inductive: they speak of a compare_exchange that succeeds, and say nothing of what the two sides
loaded before it. `IInv` adds that. `Boundaries` and `Positions` place every message on an unwrapped line of positions,
with the header's words as residues and everything in play within one `Capacity`. `Contents` says which cells hold
what. `WriterLocals` says that the writer's copy of `read_pos` is the residue of some earlier head, hence that it
underestimates the room and never overestimates it. `ReaderLocals` says that an attempt which no removal overtook
(`r_head = head`) holds the oldest message's position, length and bytes; an attempt that was overtaken holds nothing of
value, and its compare_exchange fails, or the step that follows is the fault "aba". `Counts` carries the debts of both
sides. `NoOverlap` compares the discards done with those that were complete when the attempt tested the count (`r_disc`):
while the two are equal the count was that of the messages, and the attempt is not overtaken. `FaultsNeedOverlap` rests on it. Two residues are compared through the lemmas at the head of `RingProofs`: positions less than the width apart are equal if their
residues are, and cells less than the capacity apart do not collide. `MCRing_inv.cfg` has TLC check `IInv`.

`RingIsFifo` first shows, from `IInv`, that the mapping finds at each place of the memory the message that was stored there
(`Contents`, and for the reader's buffer `ReaderLocals`), so that the queue is the messages from `head + 1` to the last counted
one. Then each action is a step of the queue or none: `WInc` an `Accept`, the compare_exchange of `discard_oldest` a `Drop`, that of
`read_message` a `Receive` of the front, `RSub` a `Return`, a first faulty step a `Break`, and the copies, loads and
retries stutter because they leave the cells of the queue's messages as they are.

**The DispatchServer**, in `DispatchProofs`, for every number of ids, joins and messages that satisfies
`DispatchAssumption`.

| Theorem | States |
|---|---|
| `Invariance` | `Spec => []IInv` |
| `TypeCorrect` | `Spec => []TypeOK` |
| `DisconnectsOnce` | `Spec => []DisconnectOnce` |
| `EntriesAreLive` | `Spec => []EntryIsLive` |
| `GoneForGood` | a client reported gone stays out of the map and is not reported again |

`IInv` (in `DispatchInvariant`; the run `Dispatch` has TLC check it) is a conjunction over the ids. `Callbacks`
says that until its entry a client has no thread with anything to report, and that from its entry on exactly one of
`InMap`, `Removed` and `Reported` holds: removing the entry under the lock is what hands the report to one thread, whichever of
the worker, `disconnect_client`, `stop` and the cleanup was first. `Life` says that an id not yet given out has no
threads, that an AutoServer is not ended while its client waits to join or is in the map, and that its worker does not
end before. A step changes one client, or the same thing of all of them in the drain of `stop`; the lemmas on frames
carry the rest over, and each action is then proved for the client it changes.

**The slots of a MultiServer**, in `MultiProofs`, for every set of clients, number of slots, set of troubles, timeouts and bounds
that satisfies `MultiAssumption`.

| Theorem | States |
|---|---|
| `Invariance` | `Spec => []IInv` |
| `TypeCorrect` | `Spec => []TypeOK` |
| `CallbacksAddUp` | `Spec => []CallbackAccounting` |
| `CalmIsExclusive` | `Troubles = {} => (Spec => []Exclusive)` |

`CallbackAccounting` counts callbacks against `connected`, which two threads change. `IInv` (in `MultiInvariant`;
`MCMulti_inv.cfg`) adds what makes it inductive: a thread owes an `on_client_disconnect` exactly from its store of
`connected` to its call (`Owing`), and the slot whose handshake the worker carries on is not connected, whatever a
`disconnect_client` does meanwhile (`Shaking`).

The last theorem is about an environment in which no client leaves, crashes, times out or is kicked: with any one of these
troubles `Exclusive` fails (section 5), so that this is the most that holds of it. Their invariant `Calm`
(`MCMulti_calm_inv.cfg`) relates the two sides of a handshake that is under way. A free slot is as nobody has touched it; a
claim has a client that pursues it. The reserve timer of a claim runs no longer than the client's own attempt (`claim_seen_at
<= held`), which ends at `SLOT_TIMEOUT < RESERVE_TIMEOUT`. The server finds `HELLO` under each request and is `READY` before
it acknowledges, so that no handshake fails. Hence no thread ever comes to a place from which it would release a claim.

**Auto**, in `AutoProofs`, for every set of clients, every number of messages, limit, fault and width that satisfies
`AutoAssumption` and `ChannelAssumption`.

| Theorem | States |
|---|---|
| `Invariance` | `Spec => []IInv` |
| `TypeCorrect` | `Spec => []TypeOK` |
| `OneWriter` | `Spec => []OneClientUp` |
| `NothingStale` | `Spec => []CleanStart` |
| `InOrderDelivery` | `Spec => InOrder`, an action property |
| `StopIsObeyed` | `Spec => StopFlushes`, an action property |

`IInv` (in `AutoInvariant`; `MCAuto_inv.cfg`) is the argument why the auto-reset events of the handshake, which outlive the
attempt they were set for, never let two clients in. The connection is one token (`OneToken`): the server has it while it
answers, `connect_ack` carries it to whichever client takes that, the client has it while it is `Up`, and `disconnect`
carries it back; a request of an attempt that was given up is not a token. `OneGeneration` says that whoever is `Up`, and
every message in the ring or in the server's hand, belongs to the generation of the section, because the token cannot be
with a client when the server resets the rings. `Counts` bounds the messages of the ring by its count, less those that the
reader and a discarding writer have taken and not subtracted. `Ordered` puts each client's messages in one line, from the last one delivered over the server's hand, the ring and
the queue to the commands not yet read; every step moves a message along the line or takes it out. It holds after a
"corrupt" fault too, for which `OneToken` and `OneGeneration` promise nothing. A reader that trusts a stale count ends all of them:
that it can is in the model, and no assumption excludes it.

`StopIsObeyed` has an invariant of its own, `Flushing`, checked in the same configuration. A message of fitting length stays in the
queue only where `write_message` refuses it, and that takes a ring that looks full and has no message to discard: it looked full by
its bytes and the server has taken the rest since, or its count is of messages that were taken and not yet subtracted.
`NoLeftover`, the converse of `Counts`, leaves for the latter only the one in the server's hand while a client is connected. Both are
races with the server for the last message (`raced`), the exception the property names. `NoLeftover` would fail of a writer
that crashes while it discards, but nobody is let in after it before a reset. `Obedient` follows `running` from the command to
the head of the loop.

**The C handles**, in `CApiProofs`, for every set of lengths, number of sends, connections and early timeouts that satisfies
`CApiAssumption` and `ChannelAssumption`.

| Theorem | States |
|---|---|
| `Invariance` | `Spec => []IInv` |
| `TypeCorrect` | `Spec => []TypeOK` |
| `CallsAreFifo` | `Spec => CallsImplementFifo`, a refinement: each direction implements `LossyFifo`, whose `Break` is the read that trusts a stale count |

Each step of the two programs' four threads is a step or a stutter of the queue in each direction (`Moves`). A stutter needs
to know that a reset, which the server makes when a client is let in, finds empty rings: `Unanswered` says that until the server's
one answer nobody was ever connected, so that nothing was ever written. A `Receive` needs the receive cache to hold nothing that
was not given: `Hand` ties the cache's message to what the call in progress is doing. An `Accept` needs room: `Counts`
bounds the messages of the ring by `message_count`, less those taken and not subtracted on either side.
`Line` (numbers grow from the cache through the ring) makes a taken message differ from every earlier one. A `Break` is the step
`TakeNothing`, which needs a discard between the reader's look at the count and its compare_exchange; the three parts are
claimed of a direction until then. The run `CApi` has TLC check `IInv`.

**The codec and the lobby**, in `LobbyProofs`. The codec for every registration, every answer and every limit of the names up to
255 (`ProtocolAssumption`), with ids of any size; the lobby for every set of clients, number of calls, channel limit and set of
faults that satisfies `LobbyAssumption` and `ChannelAssumption`.

| Theorem | States |
|---|---|
| `RequestDecoded`, `ResponseDecoded` | the decoder accepts what the encoder wrote; it gives back the fields and, as a well-formed string, what `from_utf8_lossy` makes of the name cut to its limit - the original, if the name is within the limit |
| `Invariance` | `Spec => []IInv` |
| `AnswersAreOwn` | `Spec => []OwnAnswer` |

The codec rests on `EncodedParts`, which says where the five parts of a message are found, and on `TextStaysText`: a prefix of a
well-formed string is one, or one with a last character that was cut, which is what `from_utf8_lossy` replaces. `OwnAnswer` says nothing of the
rings and of the events, through which a client meets those before it. A client is let in by `connect_ack`, and the rings are
reset right before the event is set: to get the answer to somebody else it must be let in at the wrong time, by an
acknowledgement that nobody waited for any more, and find a request or an answer in the rings that nobody waited for
any more either. `Acknowledged` says that each acknowledgement set or due has a client of its own that waits for it,
`Answered` that a request being served, or an answer in the ring, has a client that awaits it. Each of the two is lost only when a client
leaves early; there is one fault, so that one of the two holds throughout (`Health`). From that follows `Solitary`: a client alone in
the lobby all the time is let in to empty rings, and what is in them afterwards is its own. `Registered` carries this over to the
id it returns. `MCLobby_inv.cfg` has TLC check the invariant but for `Types`, where the ids of answers are any number.

**Traffic**, in `TrafficProofs`, for every number of slots, set of calling threads, batch and ring that satisfies
`TrafficAssumption` and `ChannelAssumption`.

| Theorem | States |
|---|---|
| `Invariance` | `Spec => []IInv` |
| `NobodyHoldsAndWaits` | `Spec => []HoldersNeverWait` |

The Mutexes are not recursive, and a handler may call `send_to` and `broadcast` for any slot, its own included. `Holders` gives
for each thread the one place of its work at which it holds a slot: the worker during a batch, any thread at the slot
its call has come to, the worker then being in the handler with its batch over. `Tours` says that a thread that goes on has a slot to
go to. Hence no thread waits while another waits for it, in a cycle of any length. That each wait ends too (`CallsReturn`) is
liveness, and stays with TLC. `MCTraffic_inv.cfg` has TLC check `IInv`.

Only model-checked:

* *Liveness in every module*: the prover has neither ENABLED, on which fairness rests, nor induction over behaviours. These are
  `WriteReturns`, `EventuallyRemoved`, `AllServed`, `SlotsReturn`, `AbandonedReturns`, `DeadReleased` (a leads-to),
  `StopReturnsUnlessStuck`, `WorkersEnd`, `LeaverRemoved`, `Delivered`, `Reconnects`, `DropReturns`, `LobbyBack`, `Registers`,
  `PollReturns`, `Served` and `CallsReturn`.

## 5. Where code and documentation differ

The violation run `Ring_torn` is part of the runs (quoted in `PROJECT.json`, "findings"). The others have a
configuration of their own, under which TLC finds the named property violated:

| Configuration | Property | What the repository says, and what the code does |
|---|---|---|
| `MCRing_torn.cfg` | `TornReadSafe` | README.md:37, ring.rs:267. `discard_oldest` moves `read_pos` before it decrements `message_count`; a reader that drains the ring in between reads beyond `write_pos`, and its compare_exchange succeeds. Decrementing first, or loading `write_pos` as `discard_oldest` does, would close it. |
| `MCRing_refused.cfg` | `RefusedOnlyIfTooLarge` | ring.rs:201. `write_message` takes a stale `read_pos` together with a fresh count of zero for "too large". |
| `MCMulti_leave.cfg` | `Exclusive` | multi/mod.rs:615-619 calls the unconditional release safe. A client that leaves releases its claim itself; the next client's claim is then freed by the worker. |
| `MCMulti_owner.cfg` | `LivingNotOrphaned` | multi/mod.rs:1067-1070. Claim and PID are two stores: a new claim is judged by the old PID, and a living client loses its slot. |
| `MCMulti_kicked.cfg` | `KickedLearns` | multi/mod.rs:296 says the client is signalled. The only `disconnect` event is consumed by its setter's own worker. |
| `MCMulti_vanish.cfg` | `DeadReleased` | multi/mod.rs:388-395. A PID that cannot be opened is taken for a living process, and its slot is lost. |
| `MCMulti_inherit.cfg` | `ReserveSparesTheLiving` | multi/mod.rs:409-411. The comment says that the clamp keeps the server from taking the slot of a client that is connecting; but `claim_seen_at` is not tied to the claim it was set for: after a client that timed out and released its claim, the next claim inherits its age, and the reserve timer frees it under a client that is still connecting. A crash before the acknowledgement does the same with two claims for each client. |
| `MCDispatch_stop.cfg` | `StopReturns` | The test dispatch/mod.rs:1102 `stop_does_not_deadlock_after_client_disconnects`, which waits 300 ms between departure and `stop`. Without the wait, the drain joins a worker that waits, in `on_disconnect`, for the lock that the drain holds. |
| `MCDispatch_quiet.cfg` | `QuietAfterStop` | dispatch/mod.rs:278: no callback after `stop`. A pending connection that passed its check of `running` enters its client after the drain, and its channel goes on. |

(`MCRing_*` go with `MCRing`, `MCMulti_*` with `MCMultiSlots`, `MCDispatch_*` with `MCDispatch`.)

Met while modelling, without a configuration of their own:

* A handshake that fails on a stale `connect_req` (multi/mod.rs:553-558) frees a living client's claim, as a departure does.
* `mark_disconnected` tells nobody. After a fatal error on one side of an `Auto` channel the other stays connected, writes
  into a ring that is not read and, on the server, a second client may be let in beside the first.
* A client process that crashes leaves an AutoServer connected for ever: no event comes, and nobody looks at the process.
  A later client gives up at its timeout. In a DispatchServer its entry stays in the map.
* Handlers of two clients that disconnect each other's client join each other for ever (dispatch/mod.rs:228-234), and `stop` joins
  whoever waits for them; a callback of the drain that calls the server back never returns (dispatch/mod.rs:382-387).
* A write that fits may be refused (`MCRing_refused.cfg`). An AutoClient retries it in its next pass - except after `stop`, when there
  is none, and the queue is left behind.
* After a stale count a manual handle's `receive` may give its program bytes that nobody sent (`Ring_torn`).
* A lobby that was dropped on an error cannot be created anew while clients hold its section: attempts that overlap without a
  gap keep it away.
* The Mutex of a MultiServer's slot is held while `read_message` retries, which a client that writes into a full ring can prolong
  without bound.
* `AutoClient::stop` queues a command that is read only while connected: a client that cannot connect does not stop.
* A message that no ring takes (empty, or too long) is accepted by `send` and then blocks the AutoClient's queue.
* wait_any reports `disconnect` before data: messages in the ring at a departure are not read, and the next handshake resets
  them away.
* The table in README.md:116 says "background worker per slot" of Multi-client. One worker serves all slots, by lowest index
  (`Served`).
* A second client that enters the lobby while the first reads its answer gets the acknowledgement or the answer of the first.
  `lobby_register` does not compare the name or PID. So, after two premature timeouts, does one that is alone: a
  `connect_ack` that nobody took lets a later client write and read beside a service that began for an earlier one.
* A client that leaves its channel between `on_connect` and its insertion in the map is entered and announced after it has
  left, and stays in the map until `disconnect_client` or `stop`.
* `shm_server_poll` looks at the ring and not at `RecvCache`: it may time out beside a message that is kept.
* A manual server never learns that its client left: `wait_for_client` answers `AlreadyConnected` until the handle is closed.

## 6. Plan

What was planned is done: the ring, the slots and the traffic of a MultiServer, the endpoints, Auto, lobby and protocol,
Dispatch, and the manual C handles are modelled and checked. Every safety property that a passing run checks, both refinements of
`LossyFifo` included, is a theorem. What would come next is new code to model: the send
queue of a MultiClient, `MultiServer::stop`, and restarts of a server (section 7).

## 7. Not modelled

* `MultiServer::stop` clears a flag and joins the one worker, which takes no lock of its caller; the send queue of a
  MultiClient is that of an AutoClient, but starts empty with every connection.
* The messages of an AutoServer to its client (same generic functions), statistics, space events (they end a wait that ends
  by itself).
* `multi/ffi.rs` and `dispatch/ffi.rs`, and the parts of `ffi.rs` for `Auto`: conversions of pointers and of callbacks around
  operations that are modelled. `win.rs` and `events.rs` but for what is listed above, `ntapi`: calls of the operating
  system. Object names, error texts, layout offsets.
* `wait_delay`: a delay between two steps, cut short by `running`.
* Reuse of a PID, restarts of a server process under living clients of the multi-slot protocol, memory order beyond what
  `Ring` says.
