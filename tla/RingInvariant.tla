--------------------------- MODULE RingInvariant ----------------------------
(***************************************************************************)
(* The inductive invariant behind the safety properties of Ring.           *)
(*                                                                         *)
(* At(i) is the unwrapped position where message i ends, the message in    *)
(* flight included.  Everything the two sides hold in their u32 registers  *)
(* is the residue of some At(i), and the positions in play lie within one  *)
(* Capacity of each other, less than the width: that is why comparing      *)
(* residues compares positions, on the producer's side always and on the   *)
(* consumer's until it sleeps through a whole turn of the width.           *)
(***************************************************************************)
EXTENDS Ring

\* Messages whose count was incremented.
Counted == tail + InFlight

At(i) == IF i <= tail THEN End(i) ELSE End(tail) + Total(w_len)

Size(i) == At(i) - At(i-1) - 1

\* Sizes, order and first position of the messages.
Boundaries ==
  /\ End(0) = 0
  /\ \A i \in 0..tail : End(i) \in Nat
  /\ \A i \in 1..tail : End(i) - End(i-1) - 1 \in Lengths
  /\ \A i, j \in 0..tail : i < j => End(i) + 1 < End(j)

\* The header's positions are residues of boundaries; what lies between them,
\* the message being copied included, fits the ring.
Positions ==
  /\ head <= Counted
  /\ write_pos = End(tail) % PosMod
  /\ read_pos = At(head) % PosMod
  /\ End(tail) - At(head) <= Capacity
  /\ w_pc \in {"w_copy", "w_inc", "w_store"} =>
       End(tail) + Total(w_len) - At(head) <= Capacity

\* The messages in the ring, and the one copied but not yet published.
Contents ==
  /\ \A i \in head+1 .. tail : \A k \in 0 .. Size(i) :
       storage[(End(i-1) + k) % Capacity] = Cell(i, k, Size(i))
  /\ w_pc \in {"w_inc", "w_store"} =>
       \A k \in 0..w_len :
         storage[(End(tail) + k) % Capacity] = Cell(tail + 1, k, w_len)

\* What write_message and discard_oldest loaded is out of date at worst.
WriterLocals ==
  /\ w_pc = "w_count" =>
       \E h \in 0..head : /\ h <= tail /\ w_read = End(h) % PosMod
                          /\ End(tail) - End(h) <= Capacity
  /\ w_pc = "d_cas" =>
       \E h \in 0..head : /\ h < tail /\ d_read = End(h) % PosMod
                          /\ End(tail) - End(h) <= Capacity
                          /\ d_len = End(h+1) - End(h) - 1
  /\ w_result # "Corrupted"

Reading == r_pc \in {"r_len", "r_check", "r_copy", "r_cas"}

\* An attempt that no removal overtook holds the oldest message.
ReaderLocals ==
  /\ last <= head /\ r_pc # "corrupted"
  /\ Reading =>
       /\ last <= r_head /\ r_head <= head /\ r_head < Counted
       /\ r_read = End(r_head) % PosMod
       /\ r_head = head =>
            /\ r_pc # "r_check"
            /\ r_pc \in {"r_copy", "r_cas"} =>
                 /\ r_len = Size(head + 1)
                 /\ \A k \in 1..Len(r_out) : r_out[k] = Cell(head + 1, k, r_len)
  /\ r_pc = "r_copy" => Len(r_out) < r_len
  /\ r_pc = "r_cas" => Len(r_out) = r_len
  /\ r_pc = "r_sub" =>
       /\ last <= r_head /\ r_head < head
       /\ r_out = [k \in 1..r_len |-> Cell(r_head + 1, k, r_len)]
  /\ r_pc \in {"idle", "r_load", "r_len"} => r_out = << >>

Counts ==
  /\ message_count = (tail - head) + InFlight
                       + One(w_pc = "d_sub") + One(r_pc = "r_sub")
  /\ message_count <= MAX_MESSAGES
  /\ w_pc \in {"w_copy", "w_inc"} => message_count < MAX_MESSAGES
  /\ drop_count = ((head - taken) - One(w_pc = "d_sub")) % CountMod

\* An attempt that no discard overlaps is never overtaken, and the count that
\* let it pass is that of the messages.
NoOverlap ==
  /\ r_disc \in 0..(head - taken)
  /\ w_pc = "d_sub" => r_disc < head - taken
  /\ r_pc = "r_load" /\ head - taken = r_disc => head < Counted
  /\ Reading /\ head - taken = r_disc => r_head = head

IInv ==
  /\ TypeOK
  /\ fault = "none" => /\ Boundaries /\ Positions /\ Contents /\ WriterLocals
                       /\ ReaderLocals /\ Counts /\ NoOverlap
  /\ fault # "none" => 0 <= r_disc /\ r_disc < head - taken

-----------------------------------------------------------------------------
(* The abstract queue of LossyFifo, read off the shared memory: its messages *)
(* are the cells found in the data area from read_pos on, cut where messages *)
(* were stored.  A message is accepted when it is counted, and received when *)
(* the compare_exchange takes it.                                            *)

Broken == fault # "none"

Queued == Counted - head

NoMessage == [id |-> 0, len |-> 0]

\* Where the header of the n-th message of the queue is to be found.
Start(n) == wrapping_add(read_pos, End(head + n - 1) - End(head))

\* The message whose header is at pos; no message if its cells are not its own.
MessageAt(pos) ==
  LET h == storage[mask_index(pos)] IN
  IF \A k \in 0..h.len : storage[mask_index(pos + k)] = Cell(h.id, k, h.len)
    THEN [id |-> h.id, len |-> h.len] ELSE NoMessage

\* The message in the reader's buffer.
MessageRead ==
  IF \A k \in 1..r_len : r_out[k] = Cell(r_out[1].id, k, r_len)
    THEN [id |-> r_out[1].id, len |-> r_len] ELSE NoMessage

queue    == IF Broken THEN << >> ELSE [n \in 1..Queued |-> MessageAt(Start(n))]
accepted == IF Broken THEN 0 ELSE Counted
received == IF ~Broken /\ r_pc = "r_sub" THEN MessageRead ELSE NoMessage
writing  == ~Broken /\ w_pc \notin {"idle", "done"}

Fifo == INSTANCE LossyFifo WITH MaxQueued <- MAX_MESSAGES, broken <- Broken

\* The ring implements the lossy queue: an overflow drops whole messages from
\* the front only, inside a write; every message read is, in content as in
\* order, the front of the queue (ring.rs:177-306).
ImplementsFifo == Fifo!FifoSpec
=============================================================================
