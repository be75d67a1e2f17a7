-------------------------------- MODULE Ring --------------------------------
(***************************************************************************)
(* The ring buffer of src/src/ring.rs: one producer thread running         *)
(* write_message (and, inside it, discard_oldest) and one consumer thread  *)
(* running read_message over the RingHeader and the data area of a shared  *)
(* section.  Every access to a shared word is a step of its own, except    *)
(* that a load of write_pos or of the data area by the producer, its only  *)
(* writer, is joined to the neighbouring access.                           *)
(*                                                                         *)
(* The unit of length is a cell of MESSAGE_HEADER_SIZE bytes: a message of *)
(* n payload cells occupies one header cell and n payload cells.  The      *)
(* interleaving is sequentially consistent.  On the x86 machines the code  *)
(* is restricted to, that loses nothing: each plain store of the producer  *)
(* (the copy, write_pos) is followed by a locked instruction before any of *)
(* its loads that could pass it, and the consumer stores only by locked    *)
(* instructions.                                                           *)
(*                                                                         *)
(* The counters `sequence`, `connection_gen` and `handshake_state` of the  *)
(* RingHeader are written by the code and read by none of it; they are     *)
(* left out.                                                               *)
(***************************************************************************)
EXTENDS Integers, Sequences

CONSTANTS
  Capacity,          \* RING_CAPACITY, in cells
  PosMod,            \* positions are u32: they are kept modulo PosMod
  CountMod,          \* message_count and drop_count are u32
  MAX_MESSAGES,
  MIN_MESSAGE_SIZE,  \* in cells of payload
  MAX_MESSAGE_SIZE,  \* in cells of payload
  MaxWrites          \* bound of the model: messages accepted by the ring

\* RING_CAPACITY is a power of two smaller than 2^32, so masking a position is
\* taking it modulo the capacity and stays so when the position wraps.
ASSUME CapacityAssumption ==
  /\ Capacity \in Nat /\ PosMod \in Nat
  /\ Capacity < PosMod
  /\ PosMod % Capacity = 0

ASSUME SizeAssumption ==
  /\ MIN_MESSAGE_SIZE \in Nat /\ MAX_MESSAGE_SIZE \in Nat
  /\ 0 < MIN_MESSAGE_SIZE /\ MIN_MESSAGE_SIZE <= MAX_MESSAGE_SIZE
  /\ MAX_MESSAGE_SIZE < Capacity

ASSUME CountAssumption ==
  /\ MAX_MESSAGES \in Nat /\ CountMod \in Nat
  /\ 0 < MAX_MESSAGES /\ MAX_MESSAGES < CountMod
  /\ MaxWrites \in Nat

VARIABLES
  \* RingHeader and the data area
  write_pos, read_pos, message_count, drop_count, storage,
  \* write_message: program counter, payload length, the read_pos it loaded,
  \* the count it incremented, what it returns
  w_pc, w_len, w_read, w_prev, w_result,
  \* discard_oldest: the read_pos and the length it loaded
  d_read, d_len,
  \* read_message: program counter, the read_pos and length it loaded, `out`
  r_pc, r_read, r_len, r_out,
  \* History variables, read by no action's guard:
  bnd,      \* bnd[i]: where message i ends, as an unwrapped position
  head,     \* messages removed from the ring by a CAS of read_pos
  taken,    \* those removed by read_message
  r_head,   \* head when read_message loaded read_pos
  r_disc,   \* discards completed when it tested message_count
  last,     \* number of the message last returned by read_message
  fault     \* why the reader's validation became meaningless, or "none"

shared  == <<write_pos, read_pos, message_count, drop_count, storage>>
writer  == <<w_pc, w_len, w_read, w_prev, w_result, d_read, d_len>>
reader  == <<r_pc, r_read, r_len, r_out>>
history == <<bnd, head, taken, r_head, r_disc, last, fault>>
vars    == <<shared, writer, reader, history>>

-----------------------------------------------------------------------------
(* Positions, cells and lengths *)

Lengths == MIN_MESSAGE_SIZE .. MAX_MESSAGE_SIZE

\* Any length outside Lengths, which the range checks refuse.
BadLength == 0

mask_index(pos) == pos % Capacity

wrapping_sub(a, b) == (a - b) % PosMod

wrapping_add(a, b) == (a + b) % PosMod

\* MESSAGE_HEADER_SIZE + length
Total(len) == 1 + len

\* Wrong variant: one cell too many is counted as free.
available_bytesOffByOne(write, read) == Capacity + 1 - wrapping_sub(write, read)

available_bytes(write, read) == Capacity - wrapping_sub(write, read)

\* What message i of the given length puts into its k-th cell.
Cell(i, k, len) == [id |-> i, part |-> k, len |-> IF k = 0 THEN len ELSE 0]

\* Bytes nobody may rely on: what an earlier connection left behind (reset
\* does not clear the data area) or a cell the producer is copying into.
Junk == [id |-> 0, part |-> 0, len |-> 0]

\* The lengths read_u16 may return at a position: that of a header cell, and
\* anything when the bytes there are payload, stale or half written.
read_u16(pos) ==
  LET c == storage[mask_index(pos)] IN
  IF c.id > 0 /\ c.part = 0 THEN {c.len} ELSE Lengths \union {BadLength}

\* The cell c is the Offset(c)-th cell after write_pos.
Offset(c) == (c - write_pos) % Capacity

tail == Len(bnd) - 1

\* bnd is a sequence: End(i) is where message i ends and message i+1 starts.
End(i) == bnd[i + 1]

\* The producer has counted a message whose write_pos it has yet to store.
InFlight == IF w_pc = "w_store" THEN 1 ELSE 0

-----------------------------------------------------------------------------
Init ==
  /\ write_pos = 0 /\ read_pos = 0 /\ message_count = 0 /\ drop_count = 0
  /\ storage = [c \in 0..Capacity-1 |-> Junk]
  /\ w_pc = "idle" /\ w_len = 0 /\ w_read = 0 /\ w_prev = 0 /\ w_result = "none"
  /\ d_read = 0 /\ d_len = 0
  /\ r_pc = "idle" /\ r_read = 0 /\ r_len = 0 /\ r_out = << >>
  /\ bnd = <<0>> /\ head = 0 /\ taken = 0 /\ r_head = 0 /\ r_disc = 0
  /\ last = 0 /\ fault = "none"

-----------------------------------------------------------------------------
(* write_message *)

\* The call, its size checks and their early returns.
WriteCall(len) ==
  /\ w_pc = "idle"
  /\ tail < MaxWrites
  /\ w_len' = len
  /\ \/ /\ len < MIN_MESSAGE_SIZE
        /\ w_pc' = "done" /\ w_result' = "MessageTooSmall"
     \/ /\ len > MAX_MESSAGE_SIZE
        /\ w_pc' = "done" /\ w_result' = "MessageTooLarge"
     \/ /\ len \in Lengths
        /\ w_pc' = "w_load" /\ w_result' = "none"
  /\ UNCHANGED <<shared, w_read, w_prev, d_read, d_len, reader, history>>

\* The head of the loop: load write_pos, then read_pos.
WLoad ==
  /\ w_pc = "w_load"
  /\ w_read' = read_pos
  /\ w_pc' = "w_count"
  /\ UNCHANGED <<shared, w_len, w_prev, w_result, d_read, d_len, reader, history>>

\* The test the load of message_count completes.
Full ==
  \/ available_bytes(write_pos, w_read) < Total(w_len)
  \/ message_count >= MAX_MESSAGES

\* Full, and no message to discard.
WRefuse ==
  /\ w_pc = "w_count" /\ Full /\ message_count = 0
  /\ w_pc' = "done" /\ w_result' = "MessageTooLarge"
  /\ UNCHANGED <<shared, w_len, w_read, w_prev, d_read, d_len, reader, history>>

WDiscard ==
  /\ w_pc = "w_count" /\ Full /\ message_count # 0
  /\ w_read' = 0 /\ w_pc' = "d_load"
  /\ UNCHANGED <<shared, w_len, w_prev, w_result, d_read, d_len,
                 reader, history>>

\* Room: header and payload are being copied in.  Until the copy ends, a
\* reader of these cells may see any mixture of old and new bytes.
WCopy ==
  /\ w_pc = "w_count" /\ ~Full
  /\ storage' = [c \in 0..Capacity-1 |->
                   IF Offset(c) < Total(w_len) THEN Junk ELSE storage[c]]
  /\ w_read' = 0 /\ w_pc' = "w_copy"
  /\ UNCHANGED <<write_pos, read_pos, message_count, drop_count,
                 w_len, w_prev, w_result, d_read, d_len, reader, history>>

WCopied ==
  /\ w_pc = "w_copy"
  /\ storage' = [c \in 0..Capacity-1 |->
                   IF Offset(c) < Total(w_len)
                     THEN Cell(tail + 1, Offset(c), w_len) ELSE storage[c]]
  /\ w_pc' = "w_inc"
  /\ UNCHANGED <<write_pos, read_pos, message_count, drop_count,
                 w_len, w_read, w_prev, w_result, d_read, d_len, reader, history>>

\* message_count.fetch_add, before write_pos is stored.
WInc ==
  /\ w_pc = "w_inc"
  /\ w_prev' = message_count
  /\ message_count' = (message_count + 1) % CountMod
  /\ w_pc' = "w_store"
  /\ UNCHANGED <<write_pos, read_pos, drop_count, storage,
                 w_len, w_read, w_result, d_read, d_len, reader, history>>

WStore ==
  /\ w_pc = "w_store"
  /\ write_pos' = wrapping_add(write_pos, Total(w_len))
  /\ bnd' = Append(bnd, End(tail) + Total(w_len))
  /\ w_pc' = "done"
  /\ w_result' = IF w_prev = 0 THEN "OkWasEmpty" ELSE "Ok"
  /\ UNCHANGED <<read_pos, message_count, drop_count, storage,
                 w_len, w_read, w_prev, d_read, d_len, reader,
                 head, taken, r_head, r_disc, last, fault>>

\* The call returns; its locals are gone.
WReturn ==
  /\ w_pc = "done"
  /\ w_pc' = "idle" /\ w_result' = "none"
  /\ w_len' = 0 /\ w_read' = 0 /\ w_prev' = 0 /\ d_read' = 0 /\ d_len' = 0
  /\ UNCHANGED <<shared, reader, history>>

-----------------------------------------------------------------------------
(* discard_oldest, called by write_message when the ring is full *)

\* The load of read_pos; the producer itself writes write_pos and the cells.
DLoad ==
  /\ w_pc = "d_load"
  /\ d_read' = read_pos
  /\ \/ /\ read_pos = write_pos
        /\ w_pc' = "done" /\ w_result' = "QueueEmpty" /\ d_len' = d_len
     \/ /\ read_pos # write_pos
        /\ \E len \in read_u16(read_pos) :
             \/ /\ len \notin Lengths
                /\ w_pc' = "done" /\ w_result' = "Corrupted" /\ d_len' = d_len
             \/ /\ len \in Lengths
                /\ w_pc' = "d_cas" /\ w_result' = w_result /\ d_len' = len
  /\ UNCHANGED <<shared, w_len, w_read, w_prev, reader, history>>

\* Wrong variant: the header's size is forgotten.
DCasNoHeader ==
  /\ w_pc = "d_cas" /\ read_pos = d_read
  /\ read_pos' = wrapping_add(d_read, d_len)
  /\ head' = IF fault = "none" THEN head + 1 ELSE head
  /\ w_pc' = "d_sub"
  /\ UNCHANGED <<write_pos, message_count, drop_count, storage,
                 w_len, w_read, w_prev, w_result, d_read, d_len, reader,
                 bnd, taken, r_head, r_disc, last, fault>>

\* The compare_exchange of read_pos took the oldest message out ...
DCas ==
  /\ w_pc = "d_cas" /\ read_pos = d_read
  /\ read_pos' = wrapping_add(d_read, Total(d_len))
  /\ head' = IF fault = "none" THEN head + 1 ELSE head
  /\ w_pc' = "d_sub"
  /\ UNCHANGED <<write_pos, message_count, drop_count, storage,
                 w_len, w_read, w_prev, w_result, d_read, d_len, reader,
                 bnd, taken, r_head, r_disc, last, fault>>

\* Wrong variant: the retry does not load read_pos again.
DRetryStale ==
  /\ w_pc = "d_cas" /\ read_pos # d_read
  /\ w_pc' = "d_cas"
  /\ UNCHANGED <<shared, w_len, w_read, w_prev, w_result, d_read, d_len,
                 reader, history>>

\* ... or failed, the reader having moved read_pos.
DRetry ==
  /\ w_pc = "d_cas" /\ read_pos # d_read
  /\ w_pc' = "d_load"
  /\ UNCHANGED <<shared, w_len, w_read, w_prev, w_result, d_read, d_len,
                 reader, history>>

\* Wrong variant: drop_count is forgotten.
DSubNoDropCount ==
  /\ w_pc = "d_sub"
  /\ message_count' = (message_count - 1) % CountMod
  /\ drop_count' = drop_count
  /\ w_pc' = "w_load" /\ d_read' = 0 /\ d_len' = 0
  /\ UNCHANGED <<write_pos, read_pos, storage,
                 w_len, w_read, w_prev, w_result, reader, history>>

\* Wrong variant: message_count is forgotten.
DSubNoCount ==
  /\ w_pc = "d_sub"
  /\ message_count' = message_count
  /\ drop_count' = (drop_count + 1) % CountMod
  /\ w_pc' = "w_load" /\ d_read' = 0 /\ d_len' = 0
  /\ UNCHANGED <<write_pos, read_pos, storage,
                 w_len, w_read, w_prev, w_result, reader, history>>

\* message_count.fetch_sub, then back to the head of write_message's loop.
DSub ==
  /\ w_pc = "d_sub"
  /\ message_count' = (message_count - 1) % CountMod
  /\ drop_count' = (drop_count + 1) % CountMod
  /\ w_pc' = "w_load" /\ d_read' = 0 /\ d_len' = 0
  /\ UNCHANGED <<write_pos, read_pos, storage,
                 w_len, w_read, w_prev, w_result, reader, history>>

-----------------------------------------------------------------------------
(* read_message *)

\* The locals of one attempt are gone.
RLeave ==
  /\ r_pc' = "idle" /\ r_read' = 0 /\ r_len' = 0 /\ r_out' = << >>
  /\ r_head' = 0 /\ r_disc' = 0

\* Wrong variant: no attempt is ever found outdated.
RUnmovedAlways == TRUE

\* The comparison that tells whether read_pos moved during the attempt.
RUnmoved == read_pos = r_read

One(b) == IF b THEN 1 ELSE 0

\* Discards whose fetch_sub is done.  (History; it stands still after a fault.)
Completed ==
  IF fault = "none" THEN (head - taken) - One(w_pc = "d_sub") ELSE r_disc

\* Wrong variant: an empty ring is read.
RCountUnchecked ==
  /\ r_pc = "idle"
  /\ r_pc' = "r_load" /\ r_disc' = Completed
  /\ UNCHANGED <<shared, writer, r_read, r_len, r_out,
                 bnd, head, taken, r_head, last, fault>>

\* A count of zero returns QueueEmpty and changes nothing: no action for it.
RCount ==
  /\ r_pc = "idle" /\ message_count # 0
  /\ r_pc' = "r_load" /\ r_disc' = Completed
  /\ UNCHANGED <<shared, writer, r_read, r_len, r_out,
                 bnd, head, taken, r_head, last, fault>>

\* The load of read_pos.  Loading it when no message starts there is the
\* phantom read: the count that let the reader pass was out of date.
RLoad ==
  /\ r_pc = "r_load"
  /\ r_read' = read_pos /\ r_head' = head
  /\ fault' = IF fault = "none" /\ head = tail + InFlight THEN "phantom" ELSE fault
  /\ r_pc' = "r_len"
  /\ UNCHANGED <<shared, writer, r_len, r_out, bnd, head, taken, r_disc, last>>

\* The load of the length, and its range check.
RLen ==
  /\ r_pc = "r_len"
  /\ \E len \in read_u16(r_read) :
       \/ /\ len \notin Lengths /\ r_pc' = "r_check" /\ r_len' = r_len
       \/ /\ len \in Lengths    /\ r_pc' = "r_copy"  /\ r_len' = len
  /\ UNCHANGED <<shared, writer, r_read, r_out, history>>

\* read_pos has come back to a value it had while the reader slept: being equal
\* to r_read it does not say that nothing was removed meanwhile.
Aba == fault = "none" /\ read_pos = r_read /\ r_head # head

\* An impossible length: read_pos moved meanwhile, so the loop starts again ...
RRecheck ==
  /\ r_pc = "r_check" /\ ~RUnmoved
  /\ RLeave
  /\ UNCHANGED <<shared, writer, bnd, head, taken, last, fault>>

\* ... or it did not, and read_message returns Corrupted.
RCorrupted ==
  /\ r_pc = "r_check" /\ RUnmoved
  /\ r_pc' = "corrupted"
  /\ fault' = IF Aba THEN "aba" ELSE fault
  /\ UNCHANGED <<shared, writer, r_read, r_len, r_out,
                 bnd, head, taken, r_head, r_disc, last>>

\* Wrong variant: the copy starts at the header.
RCopyFromHeader ==
  /\ r_pc = "r_copy"
  /\ r_out' = Append(r_out, storage[mask_index(r_read + Len(r_out))])
  /\ r_pc' = IF Len(r_out') = r_len THEN "r_cas" ELSE "r_copy"
  /\ UNCHANGED <<shared, writer, r_read, r_len, history>>

\* The optimistic copy, one cell at a time.
RCopy ==
  /\ r_pc = "r_copy"
  /\ r_out' = Append(r_out, storage[mask_index(r_read + Total(Len(r_out)))])
  /\ r_pc' = IF Len(r_out') = r_len THEN "r_cas" ELSE "r_copy"
  /\ UNCHANGED <<shared, writer, r_read, r_len, history>>

\* The compare_exchange of read_pos validated the copy ...
RCas ==
  /\ r_pc = "r_cas" /\ RUnmoved
  /\ read_pos' = wrapping_add(r_read, Total(r_len))
  /\ fault' = IF Aba THEN "aba" ELSE fault
  /\ IF fault' = "none"
       THEN head' = head + 1 /\ taken' = taken + 1
       ELSE UNCHANGED <<head, taken>>
  /\ r_pc' = "r_sub"
  /\ UNCHANGED <<write_pos, message_count, drop_count, storage, writer,
                 r_read, r_len, r_out, bnd, r_head, r_disc, last>>

\* Wrong variant: the compare_exchange alone is repeated.
RRetryStale ==
  /\ r_pc = "r_cas" /\ ~RUnmoved
  /\ r_pc' = "r_cas" /\ UNCHANGED <<r_read, r_len, r_out, r_head, r_disc>>
  /\ UNCHANGED <<shared, writer, bnd, head, taken, last, fault>>

\* ... or failed: the producer took the slot, the copy is thrown away.
RRetry ==
  /\ r_pc = "r_cas" /\ ~RUnmoved
  /\ RLeave
  /\ UNCHANGED <<shared, writer, bnd, head, taken, last, fault>>

\* Wrong variant: the count is decremented without wrapping.
RSubChecked ==
  /\ r_pc = "r_sub"
  /\ message_count' = message_count - 1
  /\ last' = IF fault = "none" THEN r_head + 1 ELSE last
  /\ RLeave
  /\ UNCHANGED <<write_pos, read_pos, drop_count, storage, writer,
                 bnd, head, taken, fault>>

\* message_count.fetch_sub, and the copy is returned to the caller.
RSub ==
  /\ r_pc = "r_sub"
  /\ message_count' = (message_count - 1) % CountMod
  /\ last' = IF fault = "none" THEN r_head + 1 ELSE last
  /\ RLeave
  /\ UNCHANGED <<write_pos, read_pos, drop_count, storage, writer,
                 bnd, head, taken, fault>>

\* Corrupted is returned; the caller may call read_message again.
RReturn ==
  /\ r_pc = "corrupted"
  /\ RLeave
  /\ UNCHANGED <<shared, writer, bnd, head, taken, last, fault>>

-----------------------------------------------------------------------------
WriterStep ==
  \/ WLoad \/ WRefuse \/ WDiscard \/ WCopy \/ WCopied \/ WInc \/ WStore
  \/ WReturn \/ DLoad \/ DCas \/ DRetry \/ DSub

ReaderStep ==
  \/ RCount \/ RLoad \/ RLen \/ RRecheck \/ RCorrupted \/ RCopy \/ RCas \/ RRetry \/ RSub
  \/ RReturn

\* Calls of write_message with lengths on either side of each size check.
Next ==
  \/ \E len \in MIN_MESSAGE_SIZE-1 .. MAX_MESSAGE_SIZE+1 : WriteCall(len)
  \/ WriterStep
  \/ ReaderStep

Spec == Init /\ [][Next]_vars

\* A producer inside write_message runs on, and a consumer keeps calling
\* read_message (the worker loops poll while messages remain).  No fairness
\* for the calls of write_message.
FairSpec == Spec /\ WF_vars(WriterStep) /\ WF_vars(ReaderStep)

-----------------------------------------------------------------------------
(* What the ring promises.  Once `fault` is set the reader's validation has  *)
(* been defeated and nothing more is promised; FaultNeedsDiscard says when   *)
(* that can happen, and the runs that expect a violation show that it does.  *)

WriterPCs == {"idle", "w_load", "w_count", "w_copy", "w_inc", "w_store",
              "d_load", "d_cas", "d_sub", "done"}
ReaderPCs == {"idle", "r_load", "r_len", "r_check", "r_copy", "r_cas",
              "r_sub", "corrupted"}
Results   == {"none", "Ok", "OkWasEmpty", "MessageTooSmall", "MessageTooLarge",
              "QueueEmpty", "Corrupted"}
CellType  == [id : Nat, part : Nat, len : Nat]

\* Every variable of the two sides and of the header has its type; positions
\* and counters stay within the width of their u32.
TypeOK ==
  /\ write_pos \in 0..PosMod-1 /\ read_pos \in 0..PosMod-1
  /\ message_count \in 0..CountMod-1 /\ drop_count \in 0..CountMod-1
  /\ storage \in [0..Capacity-1 -> CellType]
  /\ w_pc \in WriterPCs /\ w_result \in Results
  /\ w_len \in Nat /\ (w_pc \notin {"idle", "done"} => w_len \in Lengths)
  /\ w_read \in 0..PosMod-1 /\ w_prev \in 0..CountMod-1
  /\ d_read \in 0..PosMod-1 /\ d_len \in Lengths \union {0}
  /\ (w_pc \in {"d_cas", "d_sub"} => d_len \in Lengths)
  /\ r_pc \in ReaderPCs /\ r_read \in 0..PosMod-1
  /\ r_len \in Lengths \union {0}
  /\ (r_pc \in {"r_copy", "r_cas", "r_sub"} => r_len \in Lengths)
  /\ r_out \in Seq(CellType)
  /\ bnd \in Seq(Nat) /\ Len(bnd) > 0
  /\ head \in Nat /\ taken \in Nat /\ r_head \in Nat /\ last \in Nat
  /\ r_disc \in Int
  /\ fault \in {"none", "phantom", "aba"}

\* message_count is the number of messages in the ring plus the updates still
\* owed by a fetch_add done before its store and by the fetch_subs that follow
\* a successful compare_exchange, whichever side did it; it never exceeds
\* MAX_MESSAGES, hence never wraps.  In particular (ring.rs:222) a message whose
\* write_pos is visible is always counted.
CountAccounting ==
  fault = "none" =>
    /\ message_count = (tail - head) + InFlight
                         + One(w_pc = "d_sub") + One(r_pc = "r_sub")
    /\ message_count <= MAX_MESSAGES

\* A validated copy is, cell for cell, the payload of one message: the next
\* one after those returned before, skipping only messages that were discarded.
DeliveredIntactInOrder ==
  fault = "none" /\ r_pc = "r_sub" =>
    /\ r_out = [k \in 1..r_len |-> Cell(r_head + 1, k, r_len)]
    /\ last < r_head + 1 /\ r_head + 1 <= tail + InFlight

\* No error that the state of the ring does not justify is returned while the
\* reader's validation holds: neither side reports a corrupted ring.
NoFalseCorruption ==
  fault = "none" => r_pc # "corrupted" /\ w_result # "Corrupted"

\* The overwrite counter: every message accepted is in the ring, was read, or
\* is in drop_count (up to the fetch_add owed by the discard in progress).
DropsAreCounted ==
  fault = "none" =>
    drop_count = ((head - taken) - One(w_pc = "d_sub")) % CountMod

\* The cells of the messages in the ring are never touched by the producer's
\* copy, whatever the read_pos it worked from.
LiveMessagesIntact ==
  fault = "none" =>
    \A i \in head+1 .. tail : \A k \in 0 .. End(i) - End(i-1) - 1 :
      storage[mask_index(End(i-1) + k)] = Cell(i, k, End(i) - End(i-1) - 1)

\* The validation by compare_exchange is defeated only in an attempt that a
\* discard overlaps: one whose compare_exchange was done and whose fetch_sub was
\* not when the attempt tested message_count, or that did its compare_exchange
\* since.  All of the above holds of every other attempt (ring.rs:161, 247).
FaultNeedsDiscard == fault # "none" => head - taken > r_disc

\* The claim of README.md:37 and of the comment at ring.rs:267: whatever
\* read_message returns is one whole message, overflow or not.
TornReadSafe ==
  r_pc = "r_sub" => \E i \in 1..tail+1 :
                      r_out = [k \in 1..r_len |-> Cell(i, k, r_len)]

\* The comment at ring.rs:201: a write refused as too large is one whose
\* message does not fit the buffer.
RefusedOnlyIfTooLarge ==
  w_result = "MessageTooLarge" => w_len > MAX_MESSAGE_SIZE

\* A call of write_message returns: neither its discard loop nor the retries
\* of its compare_exchange go on for ever, whatever the consumer does.  (After a
\* fault the count is no longer that of the messages, and they can.)
WriteReturns == (w_pc = "w_load") ~> (w_pc = "done" \/ fault # "none")

\* Every message accepted leaves the ring, delivered or discarded.
EventuallyRemoved ==
  \A i \in 1..MaxWrites : (tail >= i) ~> (head >= i \/ fault # "none")
=============================================================================
