----------------------------- MODULE RingSafety -----------------------------
(***************************************************************************)
(* The rest of the induction begun in RingProofs - what the two sides hold *)
(* in their registers, and the counters -, the safety theorems of Ring and *)
(* its refinement of LossyFifo, for every capacity, width of the positions *)
(* and limit on the messages.                                              *)
(***************************************************************************)
EXTENDS RingProofs, SequenceTheorems

(* What a load of the data area returns *)

\* The cells of a counted message are those its writer copied.
LEMMA CellAt ==
  ASSUME TypeOK, Boundaries, Contents, NEW i \in head+1 .. Counted, NEW k \in 0..Size(i)
  PROVE  storage[(At(i-1) + k) % Capacity] = Cell(i, k, Size(i))
<1>1. /\ tail \in Nat /\ head \in Nat /\ Counted \in Nat
      /\ w_pc = "w_store" => Counted = tail + 1 /\ At(tail + 1) = End(tail) + Total(w_len)
      /\ w_pc # "w_store" => Counted = tail
      /\ \A j \in 0..tail : At(j) = End(j)
  BY AtFacts DEF TypeOK
<1>2. i-1 \in 0..tail /\ At(i-1) = End(i-1)
  BY <1>1
<1>3. CASE i <= tail
  BY <1>2, <1>3 DEF Contents
<1>4. CASE i > tail
  <2>1. w_pc = "w_store" /\ i = tail + 1 /\ i-1 = tail
    BY <1>1, <1>4
  <2>2. End(tail) \in Nat /\ w_len \in Lengths
    BY <2>1, <1>1, TailNat DEF TypeOK
  <2>3. Size(i) = w_len
    BY <1>1, <1>2, <2>1, <2>2, SizeAssumption DEF Size, Total, Lengths
  <2>. QED
    BY <1>2, <2>1, <2>3 DEF Contents
<1>. QED
  BY <1>1, <1>3, <1>4

\* Adding to a position kept modulo 2^32 and masking is exact.
LEMMA MaskOf ==
  ASSUME NEW x \in Nat, NEW n \in Nat
  PROVE  mask_index((x % PosMod) + n) = (x + n) % Capacity
<1>1. /\ Capacity \in Nat /\ Capacity > 0 /\ PosMod \in Nat /\ PosMod > 0
      /\ PosMod % Capacity = 0
  BY CapacityAssumption, SizeAssumption
<1>2. x \in Int /\ n \in Int
  OBVIOUS
<1>. QED
  BY <1>1, <1>2, ModMod DEF mask_index

\* The length loaded at the position of the oldest message is that message's.
LEMMA OldestLength ==
  ASSUME TypeOK, Boundaries, Contents, head < Counted
  PROVE  /\ read_u16(End(head) % PosMod) = {Size(head + 1)}
         /\ Size(head + 1) \in Lengths
<1>1. tail \in Nat /\ head \in Nat /\ Counted \in Nat /\ Counted <= tail + 1
  BY AtFacts DEF TypeOK
<1>2. /\ head + 1 \in head+1 .. Counted /\ head + 1 \in 1..Counted /\ head \in 0..tail
      /\ (head + 1) - 1 = head
  BY <1>1
<1>3. Size(head + 1) \in Lengths /\ At(head) = End(head) /\ End(head) \in Nat
  BY <1>2, AtFacts, TailNat
<1>4. 0 \in 0..Size(head + 1)
  BY <1>3, SizeAssumption DEF Lengths
<1>5. storage[(End(head) + 0) % Capacity] = Cell(head + 1, 0, Size(head + 1))
  BY <1>2, <1>3, <1>4, CellAt
<1>6. mask_index((End(head) % PosMod) + 0) = (End(head) + 0) % Capacity
  BY <1>3, MaskOf
<1>7. (End(head) % PosMod) + 0 = End(head) % PosMod
  <2>1. PosMod \in Nat /\ PosMod > 0 /\ End(head) \in Int
    BY <1>3, CapacityAssumption
  <2>. QED
    BY <2>1, DivMod
<1>8. storage[mask_index(End(head) % PosMod)] = Cell(head + 1, 0, Size(head + 1))
  BY <1>5, <1>6, <1>7
<1>. QED
  BY <1>1, <1>3, <1>8 DEF read_u16, Cell

\* read_pos only moves forward.
LEMMA HeadStep ==
  ASSUME TypeOK, TypeOK', Boundaries, Positions, WriterLocals, ReaderLocals,
         [Next]_vars, fault = "none", fault' = "none"
  PROVE  /\ head \in Nat /\ head' \in Nat /\ head <= head'
         /\ DCas \/ RCas => head' = head + 1
         /\ ~DCas /\ ~RCas => head' = head
<1>1. head \in Nat
  BY DEF TypeOK
<1>2. CASE DCas \/ RCas
  BY <1>1, <1>2, DCasTakesOldest, RCasTakesOldest DEF DCas
<1>3. CASE ~DCas /\ ~RCas
  BY <1>1, <1>3, RemoveFrame
<1>. QED
  BY <1>1, <1>2, <1>3

-----------------------------------------------------------------------------
(* The invariant is preserved: what the producer loaded *)

LEMMA WriterLocalsFrame ==
  ASSUME [Next]_vars
  PROVE  /\ w_pc' = "w_count" => WLoad \/ UNCHANGED <<w_pc, w_read>>
         /\ w_pc' = "d_cas" => DLoad \/ UNCHANGED <<w_pc, d_read, d_len>>
         /\ w_result' = "Corrupted" => DLoad \/ UNCHANGED w_result
<1> USE DEF shared, reader, writer, history
<1>1. ASSUME NEW len \in MIN_MESSAGE_SIZE-1 .. MAX_MESSAGE_SIZE+1, WriteCall(len)
      PROVE  w_pc' \notin {"w_count", "d_cas"} /\ w_result' # "Corrupted"
  BY <1>1 DEF WriteCall
<1>2. CASE WRefuse \/ WDiscard \/ WCopy \/ WCopied \/ WInc \/ WStore
  BY <1>2 DEF WRefuse, WDiscard, WCopy, WCopied, WInc, WStore
<1>3. CASE WReturn \/ DCas \/ DRetry \/ DSub
  BY <1>3 DEF WReturn, DCas, DRetry, DSub
<1>4. CASE ReaderStep
  BY <1>4, ReaderFrame
<1>5. CASE UNCHANGED vars
  BY <1>5 DEF vars
<1>6. CASE WLoad
  BY <1>6 DEF WLoad
<1>7. CASE DLoad
  BY <1>7 DEF DLoad
<1>. QED
  BY <1>1, <1>2, <1>3, <1>4, <1>5, <1>6, <1>7 DEF Next, WriterStep

\* The producer is not in the middle of a store when it loads read_pos.
LEMMA LoadsOldest ==
  ASSUME TypeOK, Boundaries, Positions, w_pc \in {"w_load", "d_load"}
  PROVE  /\ Counted = tail /\ head \in 0..tail /\ tail \in Nat
         /\ read_pos = End(head) % PosMod
         /\ End(tail) - End(head) <= Capacity
         /\ End(head) \in Nat /\ End(tail) \in Nat
<1>1. Counted = tail /\ tail \in Nat /\ head \in Nat
  BY AtFacts DEF TypeOK
<1>2. head \in 0..tail /\ tail \in 0..tail
  BY <1>1 DEF Positions
<1>3. At(head) = End(head) /\ End(head) \in Nat /\ End(tail) \in Nat
  BY <1>2, AtFacts, TailNat
<1>. QED
  BY <1>1, <1>2, <1>3 DEF Positions

\* discard_oldest loads the position and the length of the oldest message, or
\* finds the ring empty.
LEMMA DiscardLoadsOldest ==
  ASSUME TypeOK, Boundaries, Positions, Contents, WriterLocals, DLoad
  PROVE  /\ w_result' # "Corrupted"
         /\ w_pc' = "d_cas" =>
              /\ head < tail /\ d_read' = End(head) % PosMod
              /\ d_len' = End(head + 1) - End(head) - 1
<1>1. w_pc = "d_load" /\ d_read' = read_pos
  BY DEF DLoad
<1>2. /\ Counted = tail /\ head \in 0..tail /\ tail \in Nat
      /\ read_pos = End(head) % PosMod
  BY <1>1, LoadsOldest
<1>3. CASE read_pos = write_pos
  BY <1>3 DEF DLoad
<1>4. CASE read_pos # write_pos
  <2>1. head < tail
    BY <1>2, <1>4 DEF Positions
  <2>2. read_u16(read_pos) = {Size(head + 1)} /\ Size(head + 1) \in Lengths
    BY <1>2, <2>1, OldestLength
  <2>3. /\ w_pc' = "d_cas" /\ d_len' = Size(head + 1) /\ w_result' = w_result
    BY <1>4, <2>2 DEF DLoad
  <2>4. w_result # "Corrupted"
    BY DEF WriterLocals
  <2>5. /\ head + 1 \in 0..tail /\ (head + 1) - 1 = head
    BY <1>2, <2>1
  <2>6. Size(head + 1) = End(head + 1) - End(head) - 1
    BY <1>2, <2>5, AtFacts DEF Size
  <2>. QED
    BY <1>1, <1>2, <2>1, <2>3, <2>4, <2>6
<1>. QED
  BY <1>3, <1>4

LEMMA WriterLocalsStep ==
  ASSUME TypeOK, TypeOK', Boundaries, Boundaries', Positions, Contents,
         WriterLocals, ReaderLocals, [Next]_vars, fault = "none", fault' = "none"
  PROVE  WriterLocals'
<1>0. /\ tail \in Nat /\ \A i \in 0..tail : End(i)' = End(i)
      /\ ~WStore => tail' = tail
  BY AtFacts, AtStep
<1>h. PICK p \in Nat : p = head
  BY HeadStep
<1>g. PICK g \in Nat : g = head'
  BY HeadStep
<1>k. p <= g
  <2>1. head <= head'
    BY HeadStep
  <2>. QED
    BY <2>1, <1>h, <1>g, ZenonT(10)
<1>t. PICK t \in Nat : t = tail
  BY <1>0
<1>s. w_pc' \in {"w_count", "d_cas"} => tail' = t
  BY <1>0, <1>t DEF WStore
<1>e. \A i \in 0..t : End(i)' = End(i)
  BY <1>0, <1>t
<1>1. ASSUME w_pc' = "w_count"
      PROVE  \E h \in 0..g : /\ h <= t /\ w_read' = End(h)' % PosMod
                             /\ End(t)' - End(h)' <= Capacity
  <2>1. \E h \in 0..p : /\ h <= t /\ w_read' = End(h) % PosMod
                        /\ End(t) - End(h) <= Capacity
    <3>1. CASE WLoad
      <4>1. w_pc = "w_load" /\ w_read' = read_pos
        BY <3>1 DEF WLoad
      <4>2. p \in 0..t /\ read_pos = End(p) % PosMod /\ End(t) - End(p) <= Capacity
        BY <4>1, <1>h, <1>t, LoadsOldest
      <4>3. p \in 0..p /\ p <= t
        BY <4>2
      <4>. QED
        BY <4>1, <4>2, <4>3
    <3>2. CASE ~WLoad
      <4>1. w_pc = "w_count" /\ w_read' = w_read
        BY <1>1, <3>2, WriterLocalsFrame
      <4>. QED
        BY <4>1, <1>h, <1>t DEF WriterLocals
    <3>. QED
      BY <3>1, <3>2
  <2>2. PICK h \in 0..p : /\ h <= t /\ w_read' = End(h) % PosMod
                          /\ End(t) - End(h) <= Capacity
    BY <2>1
  <2>3. h \in 0..g /\ h \in 0..t /\ t \in 0..t
    BY <1>k, <2>2
  <2>4. End(h)' = End(h) /\ End(t)' = End(t)
    BY <1>e, <2>3
  <2>. QED
    BY <2>2, <2>3, <2>4
<1>2. ASSUME w_pc' = "d_cas"
      PROVE  \E h \in 0..g : /\ h < t /\ d_read' = End(h)' % PosMod
                             /\ End(t)' - End(h)' <= Capacity
                             /\ d_len' = End(h+1)' - End(h)' - 1
  <2>1. \E h \in 0..p : /\ h < t /\ d_read' = End(h) % PosMod
                        /\ End(t) - End(h) <= Capacity
                        /\ d_len' = End(h+1) - End(h) - 1
    <3>1. CASE DLoad
      <4>1. w_pc = "d_load"
        BY <3>1 DEF DLoad
      <4>2. p \in 0..t /\ End(t) - End(p) <= Capacity
        BY <4>1, <1>h, <1>t, LoadsOldest
      <4>3. p < t /\ d_read' = End(p) % PosMod /\ d_len' = End(p + 1) - End(p) - 1
        BY <3>1, <1>2, <1>h, <1>t, DiscardLoadsOldest
      <4>4. p \in 0..p
        BY <4>2
      <4>. QED
        BY <4>2, <4>3, <4>4
    <3>2. CASE ~DLoad
      <4>1. w_pc = "d_cas" /\ d_read' = d_read /\ d_len' = d_len
        BY <1>2, <3>2, WriterLocalsFrame
      <4>. QED
        BY <4>1, <1>h, <1>t DEF WriterLocals
    <3>. QED
      BY <3>1, <3>2
  <2>2. PICK h \in 0..p : /\ h < t /\ d_read' = End(h) % PosMod
                          /\ End(t) - End(h) <= Capacity
                          /\ d_len' = End(h+1) - End(h) - 1
    BY <2>1
  <2>3. h \in 0..g /\ h \in 0..t /\ h+1 \in 0..t /\ t \in 0..t
    BY <1>k, <2>2
  <2>4. End(h)' = End(h) /\ End(t)' = End(t) /\ End(h+1)' = End(h+1)
    BY <1>e, <2>3
  <2>. QED
    BY <2>2, <2>3, <2>4
<1>3. w_result' # "Corrupted"
  BY WriterLocalsFrame, DiscardLoadsOldest DEF WriterLocals
<1>. QED
  BY <1>1, <1>2, <1>3, <1>s, <1>g DEF WriterLocals

-----------------------------------------------------------------------------
(* The invariant is preserved: what the consumer loaded *)

\* A step of the producer leaves the consumer's registers meaningful.
LEMMA ReaderLocalsByWriter ==
  ASSUME TypeOK, TypeOK', Boundaries, Boundaries', Positions, WriterLocals,
         ReaderLocals, [Next]_vars, WriterNext \/ UNCHANGED vars,
         fault = "none", fault' = "none"
  PROVE  ReaderLocals'
<1>0. /\ tail \in Nat /\ Counted \in Nat /\ Counted <= tail + 1
      /\ \A i \in 0..tail : End(i)' = End(i)
      /\ \A i \in 1..Counted : Size(i)' = Size(i)
      /\ Counted' \in Nat /\ Counted <= Counted'
      /\ r_head \in Nat /\ last \in Nat
  BY AtFacts, AtStep DEF TypeOK
<1>r. UNCHANGED <<r_pc, r_read, r_len, r_out, r_head, last>>
  BY WriterFrame DEF vars, reader, history
<1>h. PICK p \in Nat : p = head
  BY HeadStep
<1>g. PICK g \in Nat : g = head'
  BY HeadStep
<1>k. p <= g
  <2>1. head <= head'
    BY HeadStep
  <2>. QED
    BY <2>1, <1>h, <1>g, ZenonT(10)
<1>c. PICK c \in Nat : c = Counted
  BY <1>0
<1>d. PICK d \in Nat : d = Counted'
  BY <1>0
<1>l. c <= d
  <2>1. Counted <= Counted'
    BY <1>0
  <2>. QED
    BY <2>1, <1>c, <1>d, ZenonT(10)
<1>q. PICK q \in Nat : q = r_head
  BY <1>0
<1>1. last <= g /\ r_pc # "corrupted"
  <2>1. last <= p /\ last \in Nat
    BY <1>0, <1>h DEF ReaderLocals
  <2>. QED
    BY <2>1, <1>k DEF ReaderLocals
<1>2. ASSUME Reading
      PROVE  /\ last <= q /\ q <= g /\ q < d
             /\ r_read = End(q)' % PosMod
             /\ q = g =>
                  /\ r_pc # "r_check"
                  /\ r_pc \in {"r_copy", "r_cas"} =>
                       /\ r_len = Size(g + 1)'
                       /\ \A k \in 1..Len(r_out) : r_out[k] = Cell(g + 1, k, r_len)
  <2>1. /\ last <= q /\ q <= p /\ q < c
        /\ r_read = End(q) % PosMod
    BY <1>2, <1>h, <1>c, <1>q DEF ReaderLocals
  <2>2. q \in 0..tail /\ q <= g /\ q < d
    BY <1>0, <1>c, <1>k, <1>l, <2>1
  <2>3. r_read = End(q)' % PosMod
    BY <1>0, <2>1, <2>2
  <2>4. ASSUME q = g
        PROVE  /\ r_pc # "r_check"
               /\ r_pc \in {"r_copy", "r_cas"} =>
                       /\ r_len = Size(g + 1)'
                       /\ \A k \in 1..Len(r_out) : r_out[k] = Cell(g + 1, k, r_len)
    <3>1. g = p
      BY <1>k, <2>1, <2>4
    <3>2. r_head = head
      BY <2>4, <3>1, <1>h, <1>q
    <3>3. g + 1 \in 1..Counted
      BY <1>0, <1>c, <2>1, <2>4
    <3>4. Size(g + 1)' = Size(g + 1)
      BY <1>0, <3>3
    <3>. QED
      BY <1>2, <3>1, <3>2, <3>4, <1>h DEF ReaderLocals
  <2>. QED
    BY <2>1, <2>2, <2>3, <2>4
<1>3. /\ r_pc = "r_copy" => Len(r_out) < r_len
      /\ r_pc = "r_cas" => Len(r_out) = r_len
      /\ r_pc \in {"idle", "r_load", "r_len"} => r_out = << >>
  BY DEF ReaderLocals
<1>4. r_pc = "r_sub" =>
       /\ last <= r_head /\ r_head < g
       /\ r_out = [k \in 1..r_len |-> Cell(r_head + 1, k, r_len)]
  <2>1. r_pc = "r_sub" =>
          /\ last <= r_head /\ r_head < p
          /\ r_out = [k \in 1..r_len |-> Cell(r_head + 1, k, r_len)]
    BY <1>h DEF ReaderLocals
  <2>. QED
    BY <2>1, <1>k, <1>0
<1>5. Reading' <=> Reading
  BY <1>r DEF Reading
<1>6. r_read' = r_read /\ r_len' = r_len /\ r_out' = r_out /\ r_head' = r_head
      /\ last' = last /\ r_pc' = r_pc
  BY <1>r
<1>7. /\ last' <= head' /\ r_pc' # "corrupted"
      /\ r_pc' = "r_copy" => Len(r_out') < r_len'
      /\ r_pc' = "r_cas" => Len(r_out') = r_len'
      /\ r_pc' \in {"idle", "r_load", "r_len"} => r_out' = << >>
  BY <1>1, <1>3, <1>6, <1>g
<1>8. r_pc' = "r_sub" =>
       /\ last' <= r_head' /\ r_head' < head'
       /\ r_out' = [k \in 1..r_len' |-> Cell(r_head' + 1, k, r_len')]
  BY <1>4, <1>6, <1>g
<1>9. Reading' =>
       /\ last' <= r_head' /\ r_head' <= head' /\ r_head' < Counted'
       /\ r_read' = End(r_head)' % PosMod
       /\ r_head' = head' =>
            /\ r_pc' # "r_check"
            /\ r_pc' \in {"r_copy", "r_cas"} =>
                 /\ r_len' = Size(head + 1)'
                 /\ \A k \in 1..Len(r_out') : r_out'[k] = Cell(head' + 1, k, r_len')
  BY <1>2, <1>5, <1>6, <1>g, <1>d, <1>q
<1>. QED
  BY <1>7, <1>8, <1>9 DEF ReaderLocals

\* Outside the removal of a message, a step of the consumer moves nothing the
\* invariant compares its registers with.
LEMMA ReaderKeeps ==
  ASSUME TypeOK, TypeOK', Boundaries, Boundaries', ReaderStep
  PROVE  /\ tail' = tail /\ Counted' = Counted /\ Counted \in Nat
         /\ tail \in Nat /\ Counted <= tail + 1
         /\ \A i \in 0..tail : End(i)' = End(i)
         /\ \A i \in 1..Counted : Size(i)' = Size(i)
         /\ ~RCas => head' = head
<1>1. bnd' = bnd /\ w_pc' = w_pc /\ w_len' = w_len
  BY ReaderFrame
<1>2. tail' = tail /\ Counted' = Counted
  BY <1>1 DEF tail, Counted, InFlight
<1>3. [Next]_vars /\ ~DCas
  BY <1>1 DEF Next, DCas
<1>4. ~RCas => head' = head
  BY <1>3, RemoveFrame
<1>. QED
  BY <1>2, <1>3, <1>4, AtFacts, AtStep

\* read_message loads the position of the oldest message.
LEMMA ReadLoads ==
  ASSUME TypeOK, TypeOK', Boundaries, Boundaries', Positions, ReaderLocals, RLoad,
         fault = "none", fault' = "none"
  PROVE  ReaderLocals'
<1>0. /\ tail' = tail /\ Counted' = Counted /\ Counted \in Nat
      /\ tail \in Nat /\ Counted <= tail + 1 /\ head' = head
      /\ \A i \in 0..tail : End(i)' = End(i)
  BY ReaderKeeps DEF ReaderStep, RLoad, RCas
<1>1. /\ r_pc = "r_load" /\ r_pc' = "r_len" /\ r_read' = read_pos /\ r_head' = head
      /\ last' = last /\ r_out' = r_out /\ head # Counted
  BY DEF RLoad, Counted
<1>2. head \in Nat /\ last \in Nat
  BY DEF TypeOK
<1>p. PICK p \in Nat : p = head
  BY <1>2
<1>c. PICK c \in Nat : c = Counted
  BY <1>0
<1>3. p < c
  BY <1>1, <1>p, <1>c DEF Positions
<1>4. p \in 0..tail
  BY <1>0, <1>3, <1>c
<1>5. End(p)' = End(p) /\ At(p) = End(p)
  BY <1>0, <1>4, AtFacts
<1>6. read_pos = End(p) % PosMod
  BY <1>5, <1>p DEF Positions
<1>7. last <= p
  BY <1>p DEF ReaderLocals
<1>8. p = r_head' /\ p = head' /\ c = Counted' /\ r_out' = << >> /\ r_read' = End(p)' % PosMod
  BY <1>0, <1>1, <1>5, <1>6, <1>p, <1>c DEF ReaderLocals
<1>9. /\ last' <= p /\ p <= p /\ p < c
  BY <1>1, <1>3, <1>7
<1>. QED
  BY <1>1, <1>8, <1>9 DEF ReaderLocals, Reading

\* The length it reads there is that message's, unless read_pos moved on.
LEMMA ReadLength ==
  ASSUME TypeOK, TypeOK', Boundaries, Boundaries', Contents, ReaderLocals, RLen,
         fault = "none", fault' = "none"
  PROVE  ReaderLocals'
<1>0. /\ tail' = tail /\ Counted' = Counted /\ Counted \in Nat
      /\ tail \in Nat /\ Counted <= tail + 1 /\ head' = head
      /\ \A i \in 0..tail : End(i)' = End(i)
      /\ \A i \in 1..Counted : Size(i)' = Size(i)
  BY ReaderKeeps DEF ReaderStep, RLen, RCas
<1>1. /\ r_pc = "r_len" /\ r_pc' \in {"r_check", "r_copy"} /\ r_read' = r_read
      /\ r_head' = r_head /\ last' = last /\ r_out' = r_out /\ Len(r_out) = 0
      /\ r_out = << >>
      /\ r_pc' = "r_copy" => r_len' \in read_u16(r_read) \cap Lengths
      /\ r_pc' = "r_check" => \E len \in read_u16(r_read) : len \notin Lengths
  BY DEF RLen, history, ReaderLocals
<1>2. head \in Nat /\ last \in Nat /\ r_head \in Nat
  BY DEF TypeOK
<1>p. PICK p \in Nat : p = head
  BY <1>2
<1>q. PICK q \in Nat : q = r_head
  BY <1>2
<1>c. PICK c \in Nat : c = Counted
  BY <1>0
<1>3. last <= q /\ q <= p /\ q < c /\ r_read = End(q) % PosMod
  BY <1>1, <1>p, <1>q, <1>c DEF ReaderLocals, Reading
<1>4. q \in 0..tail /\ q + 1 \in 1..Counted
  BY <1>0, <1>3, <1>c
<1>5. End(q)' = End(q) /\ Size(q + 1)' = Size(q + 1)
  BY <1>0, <1>4
<1>6. ASSUME q = p
      PROVE  r_pc' # "r_check" /\ r_len' = Size(q + 1)'
  <2>1. read_u16(r_read) = {Size(q + 1)} /\ Size(q + 1) \in Lengths
    BY <1>3, <1>6, <1>p, <1>c, OldestLength
  <2>. QED
    BY <2>1, <1>1, <1>5
<1>7. r_pc' = "r_copy" => Len(r_out') < r_len'
  BY <1>1, SizeAssumption DEF Lengths
<1>8. /\ p = head' /\ q = r_head' /\ c = Counted' /\ r_read' = End(q)' % PosMod
      /\ last' <= q /\ last' <= p
  BY <1>0, <1>1, <1>2, <1>3, <1>5, <1>p, <1>q, <1>c
<1>9. \A k \in 1..Len(r_out') : FALSE
  BY <1>1
<1>. QED
  BY <1>1, <1>3, <1>6, <1>7, <1>8, <1>9 DEF ReaderLocals, Reading

\* Each cell it copies is that message's, unless read_pos moved on.
LEMMA ReadCopies ==
  ASSUME TypeOK, TypeOK', Boundaries, Boundaries', Contents, ReaderLocals, RCopy,
         fault = "none", fault' = "none"
  PROVE  ReaderLocals'
<1>0. /\ tail' = tail /\ Counted' = Counted /\ Counted \in Nat
      /\ tail \in Nat /\ Counted <= tail + 1 /\ head' = head
      /\ \A i \in 0..tail : End(i)' = End(i)
      /\ \A i \in 1..Counted : Size(i)' = Size(i)
  BY ReaderKeeps DEF ReaderStep, RCopy, RCas
<1>o. r_out \in Seq(CellType)
  BY DEF TypeOK
<1>n. PICK n \in Nat : n = Len(r_out)
  BY <1>o
<1> DEFINE new == storage[mask_index(r_read + Total(n))]
<1>1. /\ r_pc = "r_copy" /\ r_read' = r_read /\ r_len' = r_len
      /\ r_head' = r_head /\ last' = last /\ r_out' = Append(r_out, new)
      /\ r_pc' = IF Len(r_out') = r_len THEN "r_cas" ELSE "r_copy"
      /\ n < r_len
  BY <1>n DEF RCopy, history, ReaderLocals
<1>2. head \in Nat /\ last \in Nat /\ r_head \in Nat /\ r_len \in Nat /\ r_out \in Seq(CellType)
  BY <1>1, SizeAssumption DEF TypeOK, Lengths
<1>3. new \in CellType
  <2>1. r_read + Total(n) \in Int /\ Capacity \in Nat /\ Capacity > 0
    BY SizeAssumption, CapacityAssumption DEF TypeOK, Total
  <2>2. mask_index(r_read + Total(n)) \in 0..Capacity-1
    BY <2>1, DivMod DEF mask_index
  <2>. QED
    BY <2>2 DEF TypeOK
<1> HIDE DEF new
<1>4. /\ Len(r_out') = n + 1 /\ r_out'[n + 1] = new
      /\ \A k \in 1..n : r_out'[k] = r_out[k]
  BY <1>1, <1>2, <1>3, <1>n
<1>p. PICK p \in Nat : p = head
  BY <1>2
<1>q. PICK q \in Nat : q = r_head
  BY <1>2
<1>c. PICK c \in Nat : c = Counted
  BY <1>0
<1>5. last <= q /\ q <= p /\ q < c /\ r_read = End(q) % PosMod
  BY <1>1, <1>p, <1>q, <1>c DEF ReaderLocals, Reading
<1>6. q \in 0..tail /\ q + 1 \in 1..Counted /\ (q + 1) - 1 = q
  BY <1>0, <1>5, <1>c
<1>7. End(q)' = End(q) /\ Size(q + 1)' = Size(q + 1) /\ End(q) \in Nat /\ At(q) = End(q)
  BY <1>0, <1>6, AtFacts, TailNat
<1>8. ASSUME q = p
      PROVE  r_len' = Size(q + 1)' /\ \A k \in 1..n+1 : r_out'[k] = Cell(q + 1, k, r_len')
  <2>1. r_len = Size(q + 1) /\ \A k \in 1..n : r_out[k] = Cell(q + 1, k, r_len)
    BY <1>1, <1>8, <1>p, <1>q, <1>n DEF ReaderLocals, Reading
  <2>2. q + 1 \in head+1 .. Counted /\ n + 1 \in 0..Size(q + 1)
    BY <1>1, <1>2, <1>5, <1>8, <1>p, <1>c, <2>1
  <2>3. storage[(End(q) + (n + 1)) % Capacity] = Cell(q + 1, n + 1, r_len)
    BY <1>6, <1>7, <2>1, <2>2, CellAt
  <2>4. mask_index((End(q) % PosMod) + (n + 1)) = (End(q) + (n + 1)) % Capacity
    <3>1. n + 1 \in Nat
      OBVIOUS
    <3>. QED
      BY <1>7, <3>1, MaskOf
  <2>5. Total(n) = n + 1
    BY DEF Total
  <2>6. new = Cell(q + 1, n + 1, r_len)
    BY <1>5, <2>3, <2>4, <2>5 DEF new
  <2>7. \A k \in 1..n+1 : k \in 1..n \/ k = n + 1
    OBVIOUS
  <2>. QED
    BY <1>1, <1>4, <1>7, <2>1, <2>6, <2>7
<1>9. r_pc' = "r_copy" => Len(r_out') < r_len'
  BY <1>1, <1>2, <1>4
<1>10. /\ p = head' /\ q = r_head' /\ c = Counted' /\ r_read' = End(q)' % PosMod
      /\ last' <= q /\ last' <= p
  BY <1>0, <1>1, <1>2, <1>5, <1>7, <1>p, <1>q, <1>c
<1>11. /\ r_pc' \in {"r_cas", "r_copy"}
       /\ r_pc' = "r_cas" => Len(r_out') = r_len'
       /\ Len(r_out') = n + 1
  BY <1>1, <1>4
<1>. QED
  BY <1>5, <1>8, <1>9, <1>10, <1>11 DEF ReaderLocals, Reading

\* The compare_exchange vouches for the copy.
LEMMA ReadValidates ==
  ASSUME TypeOK, TypeOK', Boundaries, Boundaries', Positions, ReaderLocals, RCas,
         fault = "none", fault' = "none"
  PROVE  ReaderLocals'
<1>1. /\ r_head = head /\ r_len = Size(head + 1) /\ head' = head + 1
  BY RCasTakesOldest
<1>2. /\ r_pc = "r_cas" /\ r_pc' = "r_sub" /\ r_len' = r_len
      /\ r_head' = r_head /\ last' = last /\ r_out' = r_out
  BY DEF RCas
<1>3. head \in Nat /\ last \in Nat /\ r_out \in Seq(CellType)
  BY DEF TypeOK
<1>p. PICK p \in Nat : p = head
  BY <1>3
<1>4. /\ last <= p /\ Len(r_out) = r_len
      /\ \A k \in 1..Len(r_out) : r_out[k] = Cell(p + 1, k, r_len)
  BY <1>1, <1>2, <1>p DEF ReaderLocals, Reading
<1>5. r_out = [k \in 1..r_len |-> Cell(p + 1, k, r_len)]
  BY <1>3, <1>4
<1>6. head' = p + 1 /\ r_head' = p /\ last' <= p /\ last' <= p + 1 /\ p < p + 1
  BY <1>1, <1>2, <1>3, <1>4, <1>p
<1>7. r_out' = [k \in 1..r_len' |-> Cell(p + 1, k, r_len')]
  BY <1>2, <1>5
<1>. QED
  BY <1>2, <1>6, <1>7 DEF ReaderLocals, Reading

\* The remaining steps start an attempt, abandon it or return its result.
LEMMA ReadRest ==
  ASSUME TypeOK, TypeOK', Boundaries, Boundaries', ReaderLocals,
         RCount \/ RRecheck \/ RCorrupted \/ RRetry \/ RSub \/ RReturn,
         fault = "none", fault' = "none"
  PROVE  ReaderLocals'
<1>0. head' = head
  BY ReaderKeeps DEF ReaderStep, RCount, RRecheck, RCorrupted, RRetry, RSub, RReturn, RCas
<1>1. head \in Nat /\ last \in Nat /\ r_head \in Nat
  BY DEF TypeOK
<1>2. CASE RCorrupted
  <2>1. r_head # head
    BY <1>2 DEF RCorrupted, ReaderLocals, Reading
  <2>. QED
    BY <1>2, <2>1 DEF RCorrupted, Aba, RUnmoved
<1>3. CASE RSub
  BY <1>0, <1>1, <1>3 DEF RSub, RLeave, ReaderLocals, Reading
<1>4. CASE RCount
  BY <1>0, <1>1, <1>4 DEF RCount, ReaderLocals, Reading, history
<1>5. CASE RRecheck \/ RRetry \/ RReturn
  BY <1>0, <1>1, <1>5 DEF RRecheck, RRetry, RReturn, RLeave, ReaderLocals, Reading
<1>. QED
  BY <1>2, <1>3, <1>4, <1>5

LEMMA ReaderLocalsStep ==
  ASSUME TypeOK, TypeOK', Boundaries, Boundaries', Positions, Contents,
         WriterLocals, ReaderLocals, [Next]_vars, fault = "none", fault' = "none"
  PROVE  ReaderLocals'
<1>1. CASE WriterNext \/ UNCHANGED vars
  BY <1>1, ReaderLocalsByWriter
<1>2. CASE ReaderStep
  BY <1>2, ReadLoads, ReadLength, ReadCopies, ReadValidates, ReadRest DEF ReaderStep
<1>. QED
  BY <1>1, <1>2 DEF Next, WriterNext

-----------------------------------------------------------------------------
(* The invariant is preserved: the counters *)

\* Only the three fetch_adds and fetch_subs change a counter.
LEMMA CountFrame ==
  ASSUME [Next]_vars, ~WInc, ~DCas, ~DSub, ~RCas, ~RSub
  PROVE  /\ UNCHANGED <<message_count, drop_count>>
         /\ w_pc' = "d_sub" <=> w_pc = "d_sub"
         /\ r_pc' = "r_sub" <=> r_pc = "r_sub"
         /\ w_pc' \in {"w_copy", "w_inc"} => w_pc \in {"w_copy", "w_inc"} \/ WCopy
<1> USE DEF shared, reader, writer, history
<1>1. ASSUME NEW len \in MIN_MESSAGE_SIZE-1 .. MAX_MESSAGE_SIZE+1, WriteCall(len)
      PROVE  /\ UNCHANGED <<message_count, drop_count, r_pc>>
             /\ w_pc # "d_sub" /\ w_pc' \notin {"d_sub", "w_copy", "w_inc"}
  BY <1>1 DEF WriteCall
<1>2. CASE WLoad \/ WRefuse \/ WDiscard \/ WStore
  BY <1>2 DEF WLoad, WRefuse, WDiscard, WStore
<1>3. CASE WCopy \/ WCopied
  BY <1>3 DEF WCopy, WCopied
<1>4. CASE WReturn \/ DLoad \/ DRetry
  BY <1>4 DEF WReturn, DLoad, DRetry
<1>5. CASE RCount \/ RLoad \/ RLen \/ RRecheck \/ RCorrupted
  BY <1>5 DEF RCount, RLoad, RLen, RRecheck, RCorrupted, RLeave
<1>6. CASE RCopy \/ RRetry \/ RReturn
  BY <1>6 DEF RCopy, RRetry, RReturn, RLeave
<1>7. CASE UNCHANGED vars
  BY <1>7 DEF vars
<1>. QED
  BY <1>1, <1>2, <1>3, <1>4, <1>5, <1>6, <1>7 DEF Next, WriterStep, ReaderStep

\* What the counters are, in terms of the messages counted.
Counters(mc, dc, c, h, tk, d, r) ==
  /\ mc = (c - h) + One(d) + One(r)
  /\ mc <= MAX_MESSAGES
  /\ dc = ((h - tk) - One(d)) % CountMod

LEMMA CountsAre ==
  ASSUME TypeOK
  PROVE  Counts <=> /\ Counters(message_count, drop_count, Counted, head, taken,
                                w_pc = "d_sub", r_pc = "r_sub")
                    /\ w_pc \in {"w_copy", "w_inc"} => message_count < MAX_MESSAGES
<1>1. tail \in Nat /\ InFlight \in Nat /\ head \in Nat
  BY TailNat DEF InFlight, TypeOK
<1>2. (tail - head) + InFlight = Counted - head
  BY <1>1 DEF Counted
<1>. QED
  BY <1>2 DEF Counts, Counters

LEMMA CountsStep ==
  ASSUME TypeOK, TypeOK', Boundaries, Boundaries', Positions, Positions',
         WriterLocals, ReaderLocals, Counts,
         [Next]_vars, fault = "none", fault' = "none"
  PROVE  Counts'
<1>0. /\ Counted \in Nat
      /\ ~WInc => Counted' = Counted
      /\ WInc => Counted' = Counted + 1
  BY AtFacts, AtStep
<1>1. /\ head \in Nat
      /\ DCas \/ RCas => head' = head + 1
      /\ ~DCas /\ ~RCas => head' = head
  BY HeadStep
<1>c. PICK c \in Nat : c = Counted
  BY <1>0
<1>p. PICK p \in Nat : p = head
  BY <1>1
<1>k. PICK k \in Nat : k = taken
  BY DEF TypeOK
<1>m. PICK m \in 0..CountMod-1 : m = message_count
  BY DEF TypeOK
<1>n. PICK n \in 0..CountMod-1 : n = drop_count
  BY DEF TypeOK
<1>2. /\ CountMod \in Nat /\ CountMod > 0 /\ MAX_MESSAGES \in Nat /\ MAX_MESSAGES < CountMod
  BY CountAssumption
<1>3. /\ Counters(m, n, c, p, k, w_pc = "d_sub", r_pc = "r_sub")
      /\ w_pc \in {"w_copy", "w_inc"} => m < MAX_MESSAGES
      /\ p <= c
  BY <1>c, <1>p, <1>k, <1>m, <1>n, CountsAre DEF Positions
<1>q. /\ Counters(message_count', drop_count', Counted', head', taken',
                  w_pc' = "d_sub", r_pc' = "r_sub")
      /\ w_pc' \in {"w_copy", "w_inc"} => message_count' < MAX_MESSAGES
      => Counts'
  <2>1. tail' \in Nat /\ InFlight' \in Nat /\ head' \in Nat
    BY AtStep DEF InFlight, TypeOK
  <2>2. (tail' - head') + InFlight' = Counted' - head'
    BY <2>1 DEF Counted
  <2>. QED
    BY <2>2 DEF Counts, Counters
<1>4. CASE WInc
  <2>1. /\ w_pc = "w_inc" /\ w_pc' = "w_store" /\ r_pc' = r_pc
        /\ message_count' = (m + 1) % CountMod /\ drop_count' = n /\ taken' = k
    BY <1>4, <1>m, <1>n, <1>k DEF WInc, reader, history
  <2>2. (m + 1) % CountMod = m + 1
    <3>1. m + 1 \in 0..CountMod-1
      BY <1>2, <1>3, <2>1
    <3>. QED
      BY <1>2, <3>1, ModSmall
  <2>3. Counted' = c + 1 /\ head' = p
    BY <1>0, <1>1, <1>4, <1>c, <1>p DEF WInc, DCas, RCas, reader
  <2>4. Counters(m + 1, n, c + 1, p, k, w_pc' = "d_sub", r_pc' = "r_sub")
    BY <1>2, <1>3, <2>1 DEF Counters, One
  <2>. QED
    BY <2>1, <2>2, <2>3, <2>4, <1>q
<1>5. CASE DCas
  <2>1. /\ w_pc = "d_cas" /\ w_pc' = "d_sub" /\ r_pc' = r_pc
        /\ message_count' = m /\ drop_count' = n /\ taken' = k
    BY <1>5, <1>m, <1>n, <1>k DEF DCas, reader
  <2>2. Counted' = c /\ head' = p + 1
    BY <1>0, <1>1, <1>5, <1>c, <1>p DEF DCas, WInc
  <2>3. Counters(m, n, c, p + 1, k, w_pc' = "d_sub", r_pc' = "r_sub")
    <3>1. ((p + 1) - k) - 1 = (p - k) - 0
      OBVIOUS
    <3>. QED
      BY <1>3, <2>1, <3>1 DEF Counters, One
  <2>. QED
    BY <2>1, <2>2, <2>3, <1>q
<1>6. CASE DSub
  <2>1. /\ w_pc = "d_sub" /\ w_pc' = "w_load" /\ r_pc' = r_pc /\ taken' = k
        /\ message_count' = (m - 1) % CountMod /\ drop_count' = (n + 1) % CountMod
    BY <1>6, <1>m, <1>n, <1>k DEF DSub, reader, history
  <2>2. (m - 1) % CountMod = m - 1
    <3>1. m - 1 \in 0..CountMod-1
      BY <1>2, <1>3, <2>1 DEF Counters, One
    <3>. QED
      BY <1>2, <3>1, ModSmall
  <2>3. (n + 1) % CountMod = (p - k) % CountMod
    <3> DEFINE a == (p - k) - 1
    <3>1. n = a % CountMod /\ a \in Int /\ a + 1 = p - k
      BY <1>2, <1>3, <2>1 DEF Counters, One
    <3> HIDE DEF a
    <3>. QED
      BY <1>2, <3>1, ModAdd
  <2>4. Counted' = c /\ head' = p
    BY <1>0, <1>1, <1>6, <1>c, <1>p DEF DSub, DCas, WInc, RCas, reader
  <2>5. Counters(m - 1, (n + 1) % CountMod, c, p, k, w_pc' = "d_sub", r_pc' = "r_sub")
    <3>1. (p - k) - 0 = p - k
      OBVIOUS
    <3>. QED
      BY <1>2, <1>3, <2>1, <2>3, <3>1 DEF Counters, One
  <2>. QED
    BY <2>1, <2>2, <2>4, <2>5, <1>q
<1>7. CASE RCas
  <2>1. /\ r_pc = "r_cas" /\ r_pc' = "r_sub" /\ w_pc' = w_pc
        /\ message_count' = m /\ drop_count' = n
    BY <1>7, <1>m, <1>n DEF RCas, writer
  <2>2. taken' = k + 1
    BY <1>7, <1>k, RCasTakesOldest
  <2>3. Counted' = c /\ head' = p + 1
    BY <1>0, <1>1, <1>7, <1>c, <1>p DEF RCas, WInc, writer
  <2>4. Counters(m, n, c, p + 1, k + 1, w_pc' = "d_sub", r_pc' = "r_sub")
    <3>1. (p + 1) - (k + 1) = p - k
      OBVIOUS
    <3>. QED
      BY <1>3, <2>1, <3>1 DEF Counters, One
  <2>5. w_pc' \in {"w_copy", "w_inc"} => m < MAX_MESSAGES
    BY <1>2, <1>3, <2>1
  <2>. QED
    BY <2>1, <2>2, <2>3, <2>4, <2>5, <1>q
<1>8. CASE RSub
  <2>1. /\ r_pc = "r_sub" /\ r_pc' = "idle" /\ w_pc' = w_pc /\ taken' = k
        /\ message_count' = (m - 1) % CountMod /\ drop_count' = n
    BY <1>8, <1>m, <1>n, <1>k DEF RSub, RLeave, writer
  <2>2. (m - 1) % CountMod = m - 1
    <3>1. m - 1 \in 0..CountMod-1
      BY <1>2, <1>3, <2>1 DEF Counters, One
    <3>. QED
      BY <1>2, <3>1, ModSmall
  <2>3. Counted' = c /\ head' = p
    BY <1>0, <1>1, <1>8, <1>c, <1>p DEF RSub, DCas, WInc, RCas, writer
  <2>4. Counters(m - 1, n, c, p, k, w_pc' = "d_sub", r_pc' = "r_sub")
    BY <1>2, <1>3, <2>1 DEF Counters, One
  <2>5. w_pc' \in {"w_copy", "w_inc"} => m - 1 < MAX_MESSAGES
    BY <1>2, <1>3, <2>1
  <2>. QED
    BY <2>1, <2>2, <2>3, <2>4, <2>5, <1>q
<1>9. CASE ~WInc /\ ~DCas /\ ~DSub /\ ~RCas /\ ~RSub
  <2>1. /\ message_count' = m /\ drop_count' = n
        /\ w_pc' = "d_sub" <=> w_pc = "d_sub"
        /\ r_pc' = "r_sub" <=> r_pc = "r_sub"
        /\ w_pc' \in {"w_copy", "w_inc"} => w_pc \in {"w_copy", "w_inc"} \/ WCopy
    BY <1>9, <1>m, <1>n, CountFrame
  <2>2. Counted' = c /\ head' = p /\ taken' = k
    BY <1>0, <1>1, <1>9, <1>c, <1>p, <1>k, RemoveFrame
  <2>3. Counters(m, n, c, p, k, w_pc' = "d_sub", r_pc' = "r_sub")
    BY <1>2, <1>3, <2>1 DEF Counters, One
  <2>4. WCopy => m < MAX_MESSAGES
    BY <1>m, <1>2 DEF WCopy, Full
  <2>5. w_pc' \in {"w_copy", "w_inc"} => m < MAX_MESSAGES
    BY <1>3, <2>1, <2>4
  <2>. QED
    BY <2>1, <2>2, <2>3, <2>5, <1>q
<1>. QED
  BY <1>4, <1>5, <1>6, <1>7, <1>8, <1>9

-----------------------------------------------------------------------------
(* The invariant is preserved: as long as nothing is discarded *)

LEMMA AttemptFrame ==
  ASSUME [Next]_vars, ~DCas, ~RCas
  PROVE  /\ w_pc' = "d_sub" => w_pc = "d_sub"
         /\ r_pc' = "r_load" => r_pc = "r_load" \/ RCount
         /\ Reading' => RLoad \/ (Reading /\ r_head' = r_head)
<1> USE DEF shared, reader, writer, history, Reading
<1>1. ASSUME NEW len \in MIN_MESSAGE_SIZE-1 .. MAX_MESSAGE_SIZE+1, WriteCall(len)
      PROVE  UNCHANGED <<r_pc, r_head>> /\ w_pc' # "d_sub"
  BY <1>1 DEF WriteCall
<1>2. CASE WLoad \/ WRefuse \/ WDiscard \/ WCopy \/ WCopied \/ WInc \/ WStore
  BY <1>2 DEF WLoad, WRefuse, WDiscard, WCopy, WCopied, WInc, WStore
<1>3. CASE WReturn \/ DLoad \/ DRetry \/ DSub
  BY <1>3 DEF WReturn, DLoad, DRetry, DSub
<1>4. CASE RCount \/ RLoad \/ RLen
  BY <1>4 DEF RCount, RLoad, RLen
<1>5. CASE RRecheck \/ RCorrupted \/ RRetry \/ RSub \/ RReturn
  BY <1>5 DEF RRecheck, RCorrupted, RRetry, RSub, RReturn, RLeave
<1>6. CASE RCopy
  BY <1>6 DEF RCopy
<1>7. CASE UNCHANGED vars
  BY <1>7 DEF vars
<1>. QED
  BY <1>1, <1>2, <1>3, <1>4, <1>5, <1>6, <1>7 DEF Next, WriterStep, ReaderStep

\* r_disc is set when the count is tested and cleared when the attempt ends.
LEMMA OverlapFrame ==
  ASSUME [Next]_vars, ~RCount
  PROVE  r_disc' = r_disc \/ (r_disc' = 0 /\ r_pc' = "idle")
<1> USE DEF shared, reader, writer, history
<1>1. CASE WriterNext
  BY <1>1, WriterFrame
<1>2. CASE RLoad \/ RLen \/ RCorrupted \/ RCopy \/ RCas
  BY <1>2 DEF RLoad, RLen, RCorrupted, RCopy, RCas
<1>3. CASE RRecheck \/ RRetry \/ RSub \/ RReturn
  BY <1>3 DEF RRecheck, RRetry, RSub, RReturn, RLeave
<1>4. CASE UNCHANGED vars
  BY <1>4 DEF vars
<1>. QED
  BY <1>1, <1>2, <1>3, <1>4 DEF Next, WriterNext, ReaderStep

LEMMA NoOverlapStep ==
  ASSUME TypeOK, TypeOK', Boundaries, Boundaries', Positions, WriterLocals,
         ReaderLocals, Counts, NoOverlap, [Next]_vars,
         fault = "none", fault' = "none"
  PROVE  NoOverlap'
<1>0. Counted \in Nat /\ Counted' \in Nat /\ Counted <= Counted'
  BY AtFacts, AtStep
<1>c. PICK c \in Nat : c = Counted
  BY <1>0
<1>d. PICK d \in Nat : d = Counted'
  BY <1>0
<1>l. c <= d
  <2>1. Counted <= Counted'
    BY <1>0
  <2>. QED
    BY <2>1, <1>c, <1>d, ZenonT(10)
<1>p. PICK p \in Nat : p = head
  BY DEF TypeOK
<1>k. PICK k \in Nat : k = taken
  BY DEF TypeOK
<1>o. PICK o \in Int : o = r_disc
  BY DEF TypeOK
<1>1. /\ 0 <= o /\ o <= p - k
      /\ w_pc = "d_sub" => o < p - k
      /\ r_pc = "r_load" /\ p - k = o => p < c
      /\ Reading /\ p - k = o => r_head = p
  BY <1>p, <1>k, <1>c, <1>o DEF NoOverlap
<1>2. CASE DCas
  <2>1. head' = p + 1 /\ taken' = k /\ r_disc' = o
    BY <1>2, <1>p, <1>k, <1>o, HeadStep DEF DCas
  <2>2. 0 <= o /\ o < (p + 1) - k /\ o <= (p + 1) - k /\ (p + 1) - k # o
    BY <1>1
  <2>3. o \in 0..((p + 1) - k)
    BY <2>2
  <2>. QED
    BY <2>1, <2>2, <2>3 DEF NoOverlap
<1>3. CASE RCas
  <2>1. /\ head' = p + 1 /\ taken' = k + 1 /\ r_pc' = "r_sub" /\ w_pc' = w_pc
        /\ r_disc' = o
    BY <1>3, <1>p, <1>k, <1>o, RCasTakesOldest DEF RCas, writer
  <2>2. /\ o \in 0..((p + 1) - (k + 1))
        /\ w_pc = "d_sub" => o < (p + 1) - (k + 1)
    BY <1>1
  <2>. QED
    BY <2>1, <2>2 DEF NoOverlap, Reading
<1>4. CASE RCount
  <2>1. /\ message_count # 0 /\ r_pc = "idle" /\ r_pc' = "r_load" /\ w_pc' = w_pc
        /\ head' = p /\ taken' = k /\ Counted' = Counted
        /\ r_disc' = (p - k) - One(w_pc = "d_sub")
    <3>1. RCount /\ UNCHANGED <<bnd, w_pc>>
      BY <1>4 DEF RCount, shared, writer
    <3>. QED
      BY <3>1, <1>p, <1>k DEF RCount, Completed, Counted, InFlight, tail
  <2>2. message_count = (c - p) + One(w_pc = "d_sub") + One(r_pc = "r_sub") /\ p <= c
    BY <1>c, <1>p, CountsAre DEF Counters, Positions
  <2>3. CASE w_pc = "d_sub"
    <3>1. r_disc' = (p - k) - 1
      BY <2>1, <2>3 DEF One
    <3>2. (p - k) - 1 \in 0..(p - k) /\ (p - k) - 1 < p - k /\ (p - k) - 1 # p - k
      BY <1>1, <2>3
    <3>. QED
      BY <2>1, <3>1, <3>2 DEF NoOverlap, Reading
  <2>4. CASE w_pc # "d_sub"
    <3>1. r_disc' = p - k /\ message_count = c - p
      BY <2>1, <2>2, <2>4 DEF One
    <3>2. p - k \in 0..(p - k) /\ p < c
      BY <1>1, <2>1, <2>2, <3>1
    <3>3. Counted' = c
      BY <2>1, <1>c
    <3>. QED
      BY <2>1, <2>4, <3>1, <3>2, <3>3 DEF NoOverlap, Reading
  <2>. QED
    BY <2>3, <2>4
<1>5. CASE ~DCas /\ ~RCas /\ ~RCount
  <2>1. head' = p /\ taken' = k
    BY <1>5, <1>p, <1>k, RemoveFrame
  <2>r. r_disc' = o \/ (r_disc' = 0 /\ r_pc' = "idle")
    BY <1>5, <1>o, OverlapFrame
  <2>2. ASSUME r_pc' = "r_load", p - k = o PROVE p < d
    BY <1>5, <1>1, <1>l, <2>2, AttemptFrame
  <2>3. ASSUME Reading', p - k = o PROVE r_head' = p
    <3>1. CASE RLoad
      BY <3>1, <1>p DEF RLoad
    <3>2. CASE Reading /\ r_head' = r_head
      BY <3>2, <1>1, <2>3
    <3>. QED
      BY <3>1, <3>2, <1>5, <2>3, AttemptFrame
  <2>4. w_pc' = "d_sub" => o < p - k
    BY <1>1, <1>5, AttemptFrame
  <2>5. d = Counted'
    BY <1>d
  <2>6. o \in 0..(p - k) /\ 0 \in 0..(p - k) /\ (w_pc' = "d_sub" => 0 < p - k)
    BY <1>1, <2>4
  <2>7. CASE r_disc' = o
    BY <2>7, <2>1, <2>2, <2>3, <2>4, <2>5, <2>6 DEF NoOverlap
  <2>8. CASE r_disc' = 0 /\ r_pc' = "idle"
    BY <2>8, <2>1, <2>6 DEF NoOverlap, Reading
  <2>. QED
    BY <2>r, <2>7, <2>8
<1>. QED
  BY <1>2, <1>3, <1>4, <1>5

\* Without a discard that overlaps the attempt its validation holds ...
LEMMA FaultStarts ==
  ASSUME TypeOK, Positions, ReaderLocals, NoOverlap, [Next]_vars,
         fault = "none", fault' # "none"
  PROVE  (0 <= r_disc /\ r_disc < head - taken)'
<1>1. RLoad \/ RCorrupted \/ RCas
  <2> USE DEF shared, reader, writer, history
  <2>1. WriterNext => fault' = fault
    BY WriterFrame
  <2>2. RCount \/ RLen \/ RRecheck \/ RCopy \/ RRetry \/ RSub \/ RReturn => fault' = fault
    BY DEF RCount, RLen, RRecheck, RCopy, RRetry, RSub, RReturn
  <2>. QED
    BY <2>1, <2>2 DEF Next, WriterNext, ReaderStep, vars
<1>2. UNCHANGED <<head, taken, r_disc>>
  BY <1>1 DEF RLoad, RCorrupted, RCas
<1>3. head - taken # r_disc
  <2>1. CASE RLoad
    <3>1. r_pc = "r_load" /\ head = Counted
      BY <2>1 DEF RLoad, Counted
    <3>. QED
      BY <3>1 DEF NoOverlap, TypeOK
  <2>2. CASE RCorrupted \/ RCas
    BY <2>2 DEF RCorrupted, RCas, Aba, NoOverlap, Reading
  <2>. QED
    BY <1>1, <2>1, <2>2
<1>4. taken \in Nat /\ head \in Nat /\ r_disc \in 0..(head - taken)
  BY DEF NoOverlap, TypeOK
<1>5. 0 <= r_disc /\ r_disc < head - taken
  BY <1>3, <1>4
<1>. QED
  BY <1>2, <1>5

\* ... and once it was defeated, the history variables stand still.
LEMMA FaultStays ==
  ASSUME [Next]_vars, fault # "none"
  PROVE  /\ fault' # "none" /\ UNCHANGED <<head, taken>>
         /\ r_disc' = r_disc \/ r_disc' = 0
<1> USE DEF shared, reader, writer, history
<1>1. CASE WriterNext /\ ~DCas
  <2>1. ~RCas
    BY <1>1, WriterFrame DEF RCas
  <2>. QED
    BY <1>1, <2>1, WriterFrame, RemoveFrame
<1>2. CASE DCas
  BY <1>2 DEF DCas
<1>3. CASE RCas
  BY <1>3 DEF RCas, Aba
<1>4. CASE RLoad \/ RCorrupted
  BY <1>4 DEF RLoad, RCorrupted, Aba
<1>5. CASE RCount \/ RLen \/ RCopy
  BY <1>5 DEF RCount, RLen, RCopy, Completed
<1>6. CASE RRecheck \/ RRetry \/ RSub \/ RReturn
  BY <1>6 DEF RRecheck, RRetry, RSub, RReturn, RLeave
<1>7. CASE UNCHANGED vars
  BY <1>7 DEF vars
<1>. QED
  BY <1>1, <1>2, <1>3, <1>4, <1>5, <1>6, <1>7 DEF Next, WriterNext, ReaderStep

-----------------------------------------------------------------------------
(* The inductive invariant *)

LEMMA InvInit == Init => IInv
<1> SUFFICES ASSUME Init PROVE IInv
  OBVIOUS
<1>1. TypeOK
  BY TypeInit
<1>2. tail = 0 /\ End(0) = 0 /\ Counted = 0 /\ At(0) = 0
  BY DEF Init, tail, End, Counted, InFlight, At
<1>3. Boundaries
  BY <1>2 DEF Boundaries
<1>4. PosMod \in Nat /\ PosMod > 0 /\ CountMod \in Nat /\ CountMod > 0 /\ Capacity \in Nat
  BY CapacityAssumption, CountAssumption
<1>5. 0 % PosMod = 0 /\ 0 % CountMod = 0
  BY <1>4, ModSmall
<1>6. Positions
  BY <1>2, <1>4, <1>5 DEF Init, Positions
<1>7. Contents /\ WriterLocals /\ ReaderLocals /\ NoOverlap
  BY <1>2 DEF Init, Contents, WriterLocals, ReaderLocals, NoOverlap, Reading
<1>8. Counts
  BY <1>2, <1>5, CountAssumption DEF Init, Counts, InFlight, One
<1>. QED
  BY <1>1, <1>3, <1>6, <1>7, <1>8 DEF IInv, Init

LEMMA InvStep == IInv /\ [Next]_vars => IInv'
<1> SUFFICES ASSUME IInv, [Next]_vars PROVE IInv'
  OBVIOUS
<1>1. TypeOK /\ TypeOK'
  BY TypeStep DEF IInv
<1>2. CASE fault = "none" /\ fault' = "none"
  <2>1. /\ Boundaries /\ Positions /\ Contents /\ WriterLocals
        /\ ReaderLocals /\ Counts /\ NoOverlap
    BY <1>2 DEF IInv
  <2>2. Boundaries'
    BY <1>1, <2>1, BoundariesStep
  <2>3. Positions'
    BY <1>1, <1>2, <2>1, <2>2, PositionsStep
  <2>4. Contents'
    BY <1>1, <1>2, <2>1, <2>2, ContentsStep
  <2>5. WriterLocals'
    BY <1>1, <1>2, <2>1, <2>2, WriterLocalsStep
  <2>6. ReaderLocals'
    BY <1>1, <1>2, <2>1, <2>2, ReaderLocalsStep
  <2>7. Counts'
    BY <1>1, <1>2, <2>1, <2>2, <2>3, CountsStep
  <2>8. NoOverlap'
    BY <1>1, <1>2, <2>1, <2>2, NoOverlapStep
  <2>. QED
    BY <1>1, <1>2, <2>2, <2>3, <2>4, <2>5, <2>6, <2>7, <2>8 DEF IInv
<1>3. CASE fault = "none" /\ fault' # "none"
  BY <1>1, <1>3, FaultStarts DEF IInv
<1>4. CASE fault # "none"
  <2>1. 0 <= r_disc /\ r_disc < head - taken /\ head \in Nat /\ taken \in Nat /\ r_disc \in Int
    BY <1>1, <1>4 DEF IInv, TypeOK
  <2>2. /\ fault' # "none" /\ head' = head /\ taken' = taken
        /\ r_disc' = r_disc \/ r_disc' = 0
    BY <1>4, FaultStays
  <2>3. 0 <= r_disc' /\ r_disc' < head' - taken'
    BY <2>1, <2>2
  <2>. QED
    BY <1>1, <2>2, <2>3 DEF IInv
<1>. QED
  BY <1>2, <1>3, <1>4

\* IInv holds in every reachable state.
THEOREM Invariance == Spec => []IInv
  BY InvInit, InvStep, PTL DEF Spec

-----------------------------------------------------------------------------
(* The safety properties *)

\* message_count, updated apart from the positions by both sides, differs from
\* the number of messages in the ring by the updates still owed and by nothing
\* else, and never exceeds MAX_MESSAGES (ring.rs:217-229, 251-257, 299).
THEOREM CountIsExact == Spec => []CountAccounting
<1>1. IInv => CountAccounting
  BY DEF IInv, Counts, CountAccounting
<1>. QED
  BY <1>1, Invariance, PTL

\* A copy validated by the compare_exchange is one whole message, the next in
\* order, however the producer's discards and copies interleaved with it
\* (ring.rs:262-306).
THEOREM ReadsAreIntact == Spec => []DeliveredIntactInOrder
<1>1. ASSUME IInv, fault = "none", r_pc = "r_sub"
      PROVE  /\ r_out = [k \in 1..r_len |-> Cell(r_head + 1, k, r_len)]
             /\ last < r_head + 1 /\ r_head + 1 <= tail + InFlight
  <2>1. /\ TypeOK /\ Boundaries /\ last <= r_head /\ r_head < head
        /\ r_out = [k \in 1..r_len |-> Cell(r_head + 1, k, r_len)]
        /\ head <= Counted
    BY <1>1 DEF IInv, ReaderLocals, Positions
  <2>2. Counted \in Nat /\ head \in Nat /\ last \in Nat /\ r_head \in Nat
    BY <2>1, AtFacts DEF TypeOK
  <2>. QED
    BY <2>1, <2>2 DEF Counted
<1>2. IInv => DeliveredIntactInOrder
  BY <1>1 DEF DeliveredIntactInOrder
<1>. QED
  BY <1>2, Invariance, PTL

\* Corrupted is returned by neither side (ring.rs:239, 286).
THEOREM NothingLooksCorrupted == Spec => []NoFalseCorruption
<1>1. IInv => NoFalseCorruption
  BY DEF IInv, NoFalseCorruption, ReaderLocals, WriterLocals
<1>. QED
  BY <1>1, Invariance, PTL

\* No message is lost without being counted (ring.rs:204-212, 251-257).
THEOREM DropsAccounted == Spec => []DropsAreCounted
<1>1. IInv => DropsAreCounted
  BY DEF IInv, DropsAreCounted, Counts
<1>. QED
  BY <1>1, Invariance, PTL

\* The producer, working from a read_pos that may be out of date, overwrites no
\* message that is still in the ring (ring.rs:196-214).
THEOREM LiveCellsKept == Spec => []LiveMessagesIntact
<1>1. ASSUME IInv, fault = "none",
             NEW i \in head+1 .. tail, NEW k \in 0 .. End(i) - End(i-1) - 1
      PROVE  storage[mask_index(End(i-1) + k)] = Cell(i, k, End(i) - End(i-1) - 1)
  <2>1. TypeOK /\ Contents
    BY <1>1 DEF IInv
  <2>2. i \in 0..tail /\ i-1 \in 0..tail
    <3>1. head \in Nat /\ tail \in Nat
      BY <2>1, TailNat DEF TypeOK
    <3>. QED
      BY <3>1
  <2>3. Size(i) = End(i) - End(i-1) - 1
    BY <2>2 DEF Size, At
  <2>. QED
    BY <2>1, <2>3 DEF Contents, mask_index
<1>2. IInv => LiveMessagesIntact
  BY <1>1 DEF LiveMessagesIntact
<1>. QED
  BY <1>2, Invariance, PTL

\* The reader's checks fail only in an attempt that a discard overlaps: every
\* other attempt reads the message at read_pos, or finds it gone (ring.rs:161,
\* 247, 291).
THEOREM FaultsNeedOverlap == Spec => []FaultNeedsDiscard
<1>1. IInv => FaultNeedsDiscard
  BY DEF IInv, FaultNeedsDiscard, TypeOK
<1>. QED
  BY <1>1, Invariance, PTL

-----------------------------------------------------------------------------
(* The ring is the queue of LossyFifo *)

\* The message of number i.
Message(i) == [id |-> i, len |-> Size(i)]

\* The cells found at the n-th place are those of message head+n.
LEMMA StoredMessage ==
  ASSUME TypeOK, Boundaries, Positions, Contents, NEW n \in 1..Queued
  PROVE  MessageAt(Start(n)) = Message(head + n)
<1> DEFINE i == head + n
<1>1. /\ head \in Nat /\ tail \in Nat /\ Counted \in Nat /\ Counted <= tail + 1
      /\ i \in head+1 .. Counted /\ i \in 1..Counted
      /\ head \in 0..tail /\ i-1 \in 0..tail /\ head + n - 1 = i - 1
  <2>1. /\ head \in Nat /\ tail \in Nat /\ Counted \in Nat /\ Counted <= tail + 1
    BY AtFacts DEF TypeOK
  <2>. QED
    BY <2>1 DEF Queued
<1>2. /\ End(head) \in Nat /\ End(i-1) \in Nat /\ At(i-1) = End(i-1) /\ At(head) = End(head)
      /\ Size(i) \in Lengths /\ Size(i) \in Nat
  <2>1. Size(i) \in Lengths
    BY <1>1, AtFacts
  <2>2. Size(i) \in Nat
    BY <2>1, SizeAssumption DEF Lengths
  <2>. QED
    BY <1>1, <2>1, <2>2, AtFacts, TailNat
<1> HIDE DEF i
<1>3. Start(n) = End(i-1) % PosMod
  <2>1. read_pos = End(head) % PosMod
    BY <1>2 DEF Positions
  <2>2. PosMod \in Nat /\ PosMod > 0
    BY CapacityAssumption
  <2>3. End(head) \in Int /\ End(i-1) - End(head) \in Int
    BY <1>2
  <2>4. ((End(head) % PosMod) + (End(i-1) - End(head))) % PosMod
          = (End(head) + (End(i-1) - End(head))) % PosMod
    BY <2>2, <2>3, ModAdd
  <2>5. End(head) + (End(i-1) - End(head)) = End(i-1)
    BY <1>2
  <2>. QED
    BY <1>1, <2>1, <2>4, <2>5 DEF Start, wrapping_add
<1>4. \A k \in 0..Size(i) : storage[mask_index(Start(n) + k)] = Cell(i, k, Size(i))
  <2> SUFFICES ASSUME NEW k \in 0..Size(i)
               PROVE  storage[mask_index(Start(n) + k)] = Cell(i, k, Size(i))
    OBVIOUS
  <2>1. k \in Nat
    BY <1>2
  <2>2. mask_index((End(i-1) % PosMod) + k) = (End(i-1) + k) % Capacity
    BY <1>2, <2>1, MaskOf
  <2>3. storage[(At(i-1) + k) % Capacity] = Cell(i, k, Size(i))
    BY <1>1, CellAt
  <2>. QED
    BY <1>2, <1>3, <2>2, <2>3
<1>5. storage[mask_index(Start(n))] = Cell(i, 0, Size(i))
  <2>1. Start(n) + 0 = Start(n)
    <3>1. PosMod \in Nat /\ PosMod > 0 /\ End(i-1) \in Int
      BY <1>2, CapacityAssumption
    <3>. QED
      BY <1>3, <3>1, DivMod
  <2>2. 0 \in 0..Size(i)
    BY <1>2
  <2>3. storage[mask_index(Start(n) + 0)] = Cell(i, 0, Size(i))
    BY <1>4, <2>2
  <2>. QED
    BY <2>1, <2>3
<1>6. Cell(i, 0, Size(i)).id = i /\ Cell(i, 0, Size(i)).len = Size(i)
  BY DEF Cell
<1>7. MessageAt(Start(n)) = [id |-> i, len |-> Size(i)]
  BY <1>4, <1>5, <1>6 DEF MessageAt
<1>. QED
  BY <1>7 DEF Message, i

\* The queue, as long as nothing is broken, is the messages counted and not yet
\* removed.
LEMMA QueueIs ==
  ASSUME IInv, fault = "none"
  PROVE  queue = [n \in 1..Queued |-> Message(head + n)]
<1>1. TypeOK /\ Boundaries /\ Positions /\ Contents
  BY DEF IInv
<1>2. \A n \in 1..Queued : MessageAt(Start(n)) = Message(head + n)
  BY <1>1, StoredMessage
<1>. QED
  BY <1>2 DEF queue, Broken

\* The reader's buffer holds the message it took.
LEMMA ReadIs ==
  IInv /\ fault = "none" /\ r_pc = "r_sub" =>
    received = [id |-> r_head + 1, len |-> r_len] /\ received # NoMessage
<1> SUFFICES ASSUME IInv, fault = "none", r_pc = "r_sub"
             PROVE  received = [id |-> r_head + 1, len |-> r_len] /\ received # NoMessage
  OBVIOUS
<1>1. /\ r_out = [k \in 1..r_len |-> Cell(r_head + 1, k, r_len)]
      /\ r_len \in Lengths /\ r_head \in Nat
  BY DEF IInv, ReaderLocals, TypeOK
<1>2. 1 \in 1..r_len
  BY <1>1, SizeAssumption DEF Lengths
<1>3. r_out[1].id = r_head + 1
  BY <1>1, <1>2 DEF Cell
<1>4. \A k \in 1..r_len : r_out[k] = Cell(r_out[1].id, k, r_len)
  BY <1>1, <1>3
<1>5. MessageRead = [id |-> r_head + 1, len |-> r_len]
  BY <1>3, <1>4 DEF MessageRead
<1>6. r_head + 1 # 0
  BY <1>1
<1>. QED
  BY <1>5, <1>6 DEF received, Broken, NoMessage

-----------------------------------------------------------------------------
(* What a step does to the queue *)

Messages == [id : Nat, len : Nat]

\* The queue as a sequence of messages.
QueueShape ==
  /\ head \in Nat /\ Counted \in Nat /\ Queued \in Nat /\ Counted = head + Queued
  /\ queue \in Seq(Messages) /\ Len(queue) = Queued
  /\ \A n \in 1..Queued : queue[n] = Message(head + n)

LEMMA Shaped == IInv /\ fault = "none" => QueueShape
<1> SUFFICES ASSUME IInv, fault = "none" PROVE QueueShape
  OBVIOUS
<1>1. TypeOK /\ Boundaries /\ Positions
  BY DEF IInv
<1>2. /\ Counted \in Nat /\ head \in Nat /\ head <= Counted
      /\ \A i \in 1..Counted : Size(i) \in Lengths
  BY <1>1, AtFacts DEF TypeOK, Positions
<1>3. Queued \in Nat /\ Counted = head + Queued
  BY <1>2 DEF Queued
<1>4. \A n \in 1..Queued : Message(head + n) \in Messages
  <2> SUFFICES ASSUME NEW n \in 1..Queued
               PROVE  head + n \in Nat /\ Size(head + n) \in Nat
    BY DEF Message, Messages
  <2>1. head + n \in 1..Counted /\ head + n \in Nat
    BY <1>2, <1>3
  <2>. QED
    BY <1>2, <2>1, SizeAssumption DEF Lengths
<1>5. queue = [n \in 1..Queued |-> Message(head + n)]
  BY QueueIs
<1>6. queue \in [1..Queued -> Messages] /\ DOMAIN queue = 1..Queued
  BY <1>4, <1>5
<1>7. queue \in Seq(Messages)
  BY <1>3, <1>6, SeqDef
<1>8. Len(queue) \in Nat /\ DOMAIN queue = 1..Len(queue)
  BY <1>7, LenProperties
<1>9. Len(queue) = Queued
  BY <1>3, <1>6, <1>8
<1>. QED
  BY <1>2, <1>3, <1>5, <1>7, <1>9 DEF QueueShape

\* Shorter by its first element, longer by one at the end.
LEMMA TailByPlace ==
  ASSUME NEW S, NEW s \in Seq(S), NEW t \in Seq(S), NEW n \in Nat,
         Len(s) = n + 1, Len(t) = n, \A i \in 1..n : t[i] = s[i+1]
  PROVE  s # << >> /\ Head(s) = s[1] /\ t = Tail(s)
<1>1. s # << >> /\ Head(s) = s[1]
  OBVIOUS
<1>2. /\ Tail(s) \in Seq(S) /\ Len(Tail(s)) = n
      /\ \A i \in 1..n : Tail(s)[i] = s[i+1]
  BY <1>1, HeadTailProperties
<1>3. t = Tail(s)
  BY <1>2, SeqEqual
<1>. QED
  BY <1>1, <1>3

LEMMA AppendByPlace ==
  ASSUME NEW S, NEW s \in Seq(S), NEW t \in Seq(S), NEW n \in Nat,
         Len(s) = n, Len(t) = n + 1, \A i \in 1..n : t[i] = s[i]
  PROVE  t = Append(s, t[n+1])
<1>1. t[n+1] \in S
  BY ElementOfSeq
<1>2. /\ Append(s, t[n+1]) \in Seq(S) /\ Len(Append(s, t[n+1])) = n + 1
      /\ \A i \in 1..n : Append(s, t[n+1])[i] = s[i]
      /\ Append(s, t[n+1])[n+1] = t[n+1]
  BY <1>1, AppendProperties
<1>3. \A i \in 1..n+1 : t[i] = Append(s, t[n+1])[i]
  BY <1>2
<1>. QED
  BY <1>2, <1>3, SeqEqual

\* Messages counted keep their number and their size; those the step neither
\* counts nor removes keep their order.
LEMMA QueueStep ==
  ASSUME IInv, IInv', fault = "none", fault' = "none", [Next]_vars,
         QueueShape, QueueShape'
  PROVE  /\ Counted' = Counted /\ head' = head => queue' = queue
         /\ Counted' = Counted /\ head' = head + 1 =>
              queue # << >> /\ Head(queue) = Message(head + 1) /\ queue' = Tail(queue)
         /\ Counted' = Counted + 1 /\ head' = head =>
              queue' = Append(queue, Message(Counted)')
<1>1. PICK h \in Nat, c \in Nat, q \in Nat :
        h = head /\ c = Counted /\ q = Queued /\ c = h + q
  BY DEF QueueShape
<1>2. PICK g \in Nat, d \in Nat, r \in Nat :
        g = head' /\ d = Counted' /\ r = Queued' /\ d = g + r
  BY DEF QueueShape
<1>a. c = h + q /\ d = g + r
  BY <1>1, <1>2
<1>3. \A i \in 1..c : Message(i)' = Message(i)
  <2>1. \A i \in 1..Counted : Size(i)' = Size(i)
    BY AtStep DEF IInv
  <2>. QED
    BY <1>1, <2>1 DEF Message
<1>4. PICK s \in Seq(Messages) :
        s = queue /\ Len(s) = q /\ \A n \in 1..q : s[n] = Message(h + n)
  BY <1>1 DEF QueueShape
<1>5. PICK t \in Seq(Messages) :
        t = queue' /\ Len(t) = r /\ \A n \in 1..r : t[n] = Message(g + n)'
  BY <1>2 DEF QueueShape
<1>6. \A n \in 1..r : g + n <= c => t[n] = Message(g + n)
  BY <1>3, <1>5
<1>7. ASSUME d = c, g = h PROVE t = s
  <2>1. q = r
    BY <1>a, <1>7
  <2>2. \A n \in 1..q : h + n <= c
    BY <1>a
  <2>3. \A n \in 1..q : t[n] = s[n]
    BY <1>4, <1>6, <1>7, <2>1, <2>2
  <2>. QED
    BY <1>4, <1>5, <2>1, <2>3, SeqEqual
<1>8. ASSUME d = c, g = h + 1
      PROVE  s # << >> /\ Head(s) = Message(h + 1) /\ t = Tail(s)
  <2>1. q = r + 1 /\ 1 \in 1..q
    BY <1>a, <1>8
  <2>2. \A n \in 1..r : t[n] = s[n+1]
    <3> SUFFICES ASSUME NEW n \in 1..r PROVE t[n] = s[n+1]
      OBVIOUS
    <3>1. g + n = h + (n+1) /\ g + n <= c /\ n+1 \in 1..q
      BY <1>a, <1>8, <2>1
    <3>. QED
      BY <1>4, <1>6, <3>1
  <2>. QED
    BY <1>4, <1>5, <2>1, <2>2, TailByPlace
<1>9. ASSUME d = c + 1, g = h
      PROVE  t = Append(s, Message(d)')
  <2>1. r = q + 1 /\ r \in 1..r /\ g + r = c + 1
    BY <1>a, <1>9
  <2>2. \A n \in 1..q : n \in 1..r /\ h + n <= c
    BY <1>a, <2>1
  <2>3. \A n \in 1..q : t[n] = s[n]
    BY <1>4, <1>6, <1>9, <2>2
  <2>4. t[q+1] = Message(d)'
    BY <1>5, <1>9, <2>1
  <2>. QED
    BY <1>4, <1>5, <2>1, <2>3, <2>4, AppendByPlace
<1>10. c = Counted /\ d = Counted' /\ h = head /\ g = head' /\ s = queue /\ t = queue'
  BY <1>1, <1>2, <1>4, <1>5
<1>11. Counted' = Counted /\ head' = head => queue' = queue
  BY <1>7, <1>10, Zenon
<1>12. Counted' = Counted /\ head' = head + 1 =>
         queue # << >> /\ Head(queue) = Message(head + 1) /\ queue' = Tail(queue)
  <2> SUFFICES ASSUME Counted' = Counted, head' = head + 1
               PROVE  queue # << >> /\ Head(queue) = Message(head + 1) /\ queue' = Tail(queue)
    OBVIOUS
  <2>1. d = c /\ g = h + 1
    BY <1>10, Zenon
  <2>. QED
    BY <1>8, <1>10, <2>1, Zenon
<1>13. Counted' = Counted + 1 /\ head' = head =>
         queue' = Append(queue, Message(Counted)')
  <2> SUFFICES ASSUME Counted' = Counted + 1, head' = head
               PROVE  queue' = Append(queue, Message(Counted)')
    OBVIOUS
  <2>1. d = c + 1 /\ g = h
    BY <1>10, Zenon
  <2>. QED
    BY <1>9, <1>10, <2>1, Zenon
<1>. QED
  BY <1>11, <1>12, <1>13

-----------------------------------------------------------------------------
(* Every step is a step of the queue, or none *)

\* A step that neither counts, removes nor returns a message begins a write,
\* ends one or is not seen.
LEMMA QuietStep ==
  ASSUME IInv, IInv', fault = "none", fault' = "none", QueueShape, QueueShape',
         [Next]_vars, ~WInc, ~DCas, ~RCas, ~RSub
  PROVE  [Fifo!FifoNext]_(Fifo!fifo)
<1>1. TypeOK /\ TypeOK' /\ Boundaries /\ Boundaries'
  BY DEF IInv
<1>2. Counted' = Counted /\ head' = head
  BY <1>1, AtStep, RemoveFrame
<1>3. queue' = queue
  BY <1>2, QueueStep
<1>4. accepted' = accepted
  BY <1>2 DEF accepted, Broken
<1>5. received' = received
  <2>1. CASE r_pc = "r_sub"
    <3>1. WriterNext \/ UNCHANGED vars
      <4>1. ~ReaderStep
        BY <2>1 DEF ReaderStep, RCount, RLoad, RLen, RRecheck, RCorrupted, RCopy, RCas, RRetry,
                    RReturn
      <4>. QED
        BY <4>1 DEF Next, WriterNext
    <3>2. UNCHANGED <<r_pc, r_len, r_out>>
      BY <3>1, WriterFrame DEF vars, reader
    <3>. QED
      BY <3>2 DEF received, MessageRead, Broken
  <2>2. CASE r_pc # "r_sub"
    <3>1. ASSUME DSub PROVE r_pc' # "r_sub"
      BY <2>2, <3>1 DEF DSub, reader
    <3>2. ASSUME ~DSub PROVE r_pc' # "r_sub"
      BY <2>2, <3>2, CountFrame
    <3>3. r_pc' # "r_sub"
      BY <2>2, <3>1, <3>2
    <3>. QED
      BY <2>2, <3>3 DEF received
  <2>. QED
    BY <2>1, <2>2
<1>6. Broken = FALSE /\ Broken' = FALSE /\ writing \in BOOLEAN /\ writing' \in BOOLEAN
  BY DEF Broken, writing
<1>7. ASSUME writing' = writing PROVE UNCHANGED Fifo!fifo
  BY <1>3, <1>4, <1>5, <1>6, <1>7 DEF Fifo!fifo
<1>8. ASSUME writing = FALSE, writing' = TRUE PROVE Fifo!BeginWrite
  BY <1>3, <1>4, <1>5, <1>6, <1>8 DEF Fifo!BeginWrite
<1>9. ASSUME writing = TRUE, writing' = FALSE PROVE Fifo!EndWrite
  BY <1>3, <1>4, <1>5, <1>6, <1>9 DEF Fifo!EndWrite
<1>. QED
  BY <1>6, <1>7, <1>8, <1>9 DEF Fifo!FifoNext

\* The message in flight is the last of the queue.
LEMMA LastCounted ==
  IInv /\ fault = "none" /\ w_pc = "w_store" =>
    Message(Counted) = [id |-> Counted, len |-> w_len]
<1> SUFFICES ASSUME IInv, fault = "none", w_pc = "w_store"
             PROVE  Size(Counted) = w_len
  BY DEF Message
<1>1. TypeOK /\ Boundaries
  BY DEF IInv
<1>2. /\ tail \in Nat /\ Counted = tail + 1 /\ At(tail + 1) = End(tail) + Total(w_len)
  BY <1>1, AtFacts
<1>3. Counted - 1 = tail /\ tail \in 0..tail
  BY <1>2
<1>4. At(tail) = End(tail) /\ End(tail) \in Nat /\ w_len \in Nat
  BY <1>1, <1>3, AtFacts, TailNat DEF TypeOK
<1>. QED
  BY <1>2, <1>3, <1>4 DEF Size, Total

\* message_count.fetch_add makes the message the last of the queue.
LEMMA CountAccepts ==
  ASSUME IInv, IInv', fault = "none", fault' = "none", QueueShape, QueueShape',
         [Next]_vars, WInc
  PROVE  Fifo!Accept(w_len) /\ w_len \in Lengths
<1>1. /\ TypeOK /\ TypeOK' /\ Boundaries /\ Boundaries' /\ Counts
      /\ w_pc = "w_inc" /\ w_pc' = "w_store" /\ w_len' = w_len
      /\ UNCHANGED <<r_pc, r_len, r_out>> /\ w_len \in Lengths
  BY DEF IInv, WInc, reader, TypeOK
<1>2. Counted' = Counted + 1 /\ head' = head /\ Counted \in Nat
  BY <1>1, AtStep, AtFacts DEF WInc, history
<1>3. queue' = Append(queue, Message(Counted)')
  BY <1>2, QueueStep
<1>4. Message(Counted)' = [id |-> Counted + 1, len |-> w_len]
  <2>1. IInv' /\ (fault = "none")' /\ (w_pc = "w_store")' =>
          (Message(Counted) = [id |-> Counted, len |-> w_len])'
    BY LastCounted, PTL
  <2>. QED
    BY <1>1, <1>2, <2>1
<1>5. Len(queue) < MAX_MESSAGES
  <2>1. message_count < MAX_MESSAGES
    BY <1>1 DEF Counts
  <2>6. message_count \in Nat /\ tail \in Nat /\ head \in Nat
    <3>1. message_count \in 0..CountMod-1 /\ head \in Nat
      BY <1>1 DEF TypeOK
    <3>. QED
      BY <1>1, <3>1, TailNat, CountAssumption
  <2>2. message_count = (tail - head) + 0 + 0 + One(r_pc = "r_sub")
    BY <1>1 DEF Counts, InFlight, One
  <2>3. One(r_pc = "r_sub") \in 0..1
    BY DEF One
  <2>4. Queued = tail - head
    BY <1>1, <2>6 DEF Queued, Counted, InFlight
  <2>5. Len(queue) = Queued
    BY DEF QueueShape
  <2>. QED
    BY <2>1, <2>2, <2>3, <2>4, <2>5, <2>6, CountAssumption
<1>6. accepted = Counted /\ accepted' = Counted + 1
  BY <1>2 DEF accepted, Broken
<1>7. received' = received /\ writing = TRUE /\ writing' = TRUE
  BY <1>1 DEF received, MessageRead, writing, Broken
<1>8. Broken = FALSE /\ Broken' = FALSE
  BY DEF Broken
<1>. QED
  BY <1>1, <1>3, <1>4, <1>5, <1>6, <1>7, <1>8 DEF Fifo!Accept

\* The compare_exchange of discard_oldest drops the front of the queue.
LEMMA DiscardDrops ==
  ASSUME IInv, IInv', fault = "none", fault' = "none", QueueShape, QueueShape',
         [Next]_vars, DCas
  PROVE  Fifo!Drop
<1>1. /\ TypeOK /\ TypeOK' /\ Boundaries /\ Boundaries'
      /\ w_pc = "d_cas" /\ w_pc' = "d_sub" /\ head' = head + 1
      /\ UNCHANGED <<r_pc, r_len, r_out>>
  BY DEF IInv, DCas, reader
<1>2. Counted' = Counted
  BY <1>1, AtStep DEF WInc
<1>3. queue # << >> /\ queue' = Tail(queue)
  BY <1>1, <1>2, QueueStep
<1>4. accepted' = accepted /\ received' = received
  BY <1>1, <1>2 DEF accepted, received, MessageRead, Broken
<1>5. writing = TRUE /\ writing' = TRUE /\ Broken = FALSE /\ Broken' = FALSE
  BY <1>1 DEF writing, Broken
<1>. QED
  BY <1>3, <1>4, <1>5 DEF Fifo!Drop

\* The compare_exchange of read_message takes the front of the queue.
LEMMA ReadReceives ==
  ASSUME IInv, IInv', fault = "none", fault' = "none", QueueShape, QueueShape',
         [Next]_vars, RCas
  PROVE  Fifo!Receive
<1>1. /\ TypeOK /\ TypeOK' /\ Boundaries /\ Boundaries' /\ Positions /\ ReaderLocals
      /\ r_pc = "r_cas" /\ r_pc' = "r_sub" /\ r_head' = r_head /\ r_len' = r_len
      /\ w_pc' = w_pc
  BY DEF IInv, RCas, writer
<1>2. r_head = head /\ r_len = Size(head + 1) /\ head' = head + 1
  BY <1>1, RCasTakesOldest
<1>3. Counted' = Counted
  BY <1>1, AtStep DEF WInc
<1>4. queue # << >> /\ Head(queue) = Message(head + 1) /\ queue' = Tail(queue)
  BY <1>2, <1>3, QueueStep
<1>5. received' = Head(queue)
  <2>1. (IInv /\ fault = "none" /\ r_pc = "r_sub")' =>
          (received = [id |-> r_head + 1, len |-> r_len] /\ received # NoMessage)'
    BY ReadIs, PTL
  <2>. QED
    BY <1>1, <1>2, <1>4, <2>1 DEF Message
<1>6. received = Fifo!NoMessage
  BY <1>1 DEF received, NoMessage, Fifo!NoMessage
<1>7. accepted' = accepted /\ writing' = writing
  BY <1>1, <1>3 DEF accepted, writing, Broken
<1>8. Broken = FALSE /\ Broken' = FALSE
  BY DEF Broken
<1>. QED
  BY <1>4, <1>5, <1>6, <1>7, <1>8 DEF Fifo!Receive

\* message_count.fetch_sub returns it.
LEMMA SubtractReturns ==
  ASSUME IInv, IInv', fault = "none", fault' = "none", QueueShape, QueueShape',
         [Next]_vars, RSub
  PROVE  Fifo!Return
<1>1. /\ TypeOK /\ TypeOK' /\ Boundaries /\ Boundaries'
      /\ r_pc = "r_sub" /\ r_pc' = "idle" /\ head' = head /\ w_pc' = w_pc
  BY DEF IInv, RSub, RLeave, writer
<1>2. Counted' = Counted
  BY <1>1, AtStep DEF WInc
<1>3. queue' = queue
  BY <1>1, <1>2, QueueStep
<1>4. received # Fifo!NoMessage /\ received' = Fifo!NoMessage
  BY <1>1, ReadIs DEF received, NoMessage, Fifo!NoMessage
<1>5. accepted' = accepted /\ writing' = writing
  BY <1>1, <1>2 DEF accepted, writing, Broken
<1>6. Broken = FALSE /\ Broken' = FALSE
  BY DEF Broken
<1>. QED
  BY <1>3, <1>4, <1>5, <1>6 DEF Fifo!Return

LEMMA FifoStep == IInv /\ IInv' /\ [Next]_vars => [Fifo!FifoNext]_(Fifo!fifo)
<1> SUFFICES ASSUME IInv, IInv', [Next]_vars PROVE [Fifo!FifoNext]_(Fifo!fifo)
  OBVIOUS
<1>1. CASE fault = "none" /\ fault' = "none"
  <2>1. QueueShape
    BY <1>1, Shaped
  <2>2. IInv' /\ (fault = "none")' => QueueShape'
    BY Shaped, PTL
  <2>3. QueueShape'
    BY <1>1, <2>2
  <2>. QED
    BY <1>1, <2>1, <2>3, QuietStep, CountAccepts, DiscardDrops, ReadReceives, SubtractReturns
    DEF Fifo!FifoNext
<1>2. CASE fault = "none" /\ fault' # "none"
  <2>1. Broken = FALSE /\ Broken' = TRUE
    BY <1>2 DEF Broken
  <2>2. queue' = << >> /\ accepted' = 0 /\ received' = NoMessage /\ writing' = FALSE
    BY <2>1 DEF queue, accepted, received, writing
  <2>3. Fifo!Break
    BY <2>1, <2>2 DEF Fifo!Break, Fifo!NoMessage, NoMessage
  <2>. QED
    BY <2>3 DEF Fifo!FifoNext
<1>3. CASE fault # "none"
  <2>1. fault' # "none"
    BY <1>3, FaultStays
  <2>2. Broken = TRUE /\ Broken' = TRUE
    BY <1>3, <2>1 DEF Broken
  <2>3. UNCHANGED <<queue, accepted, received, writing>>
    BY <2>2 DEF queue, accepted, received, writing, NoMessage
  <2>. QED
    BY <2>2, <2>3 DEF Fifo!fifo
<1>. QED
  BY <1>1, <1>2, <1>3

LEMMA FifoStart == Init => Fifo!FifoInit
<1> SUFFICES ASSUME Init PROVE Fifo!FifoInit
  OBVIOUS
<1>1. Broken = FALSE /\ writing = FALSE /\ received = NoMessage
  BY DEF Init, Broken, writing, received
<1>2. Counted = 0 /\ Queued = 0
  BY DEF Init, Counted, Queued, InFlight, tail
<1>3. accepted = 0
  BY <1>1, <1>2 DEF accepted
<1>4. queue = << >>
  <2>1. queue = [n \in 1..0 |-> MessageAt(Start(n))]
    BY <1>1, <1>2 DEF queue
  <2>. QED
    BY <2>1
<1>. QED
  BY <1>1, <1>3, <1>4 DEF Fifo!FifoInit, Fifo!NoMessage, NoMessage

\* The ring in shared memory is the lossy queue of LossyFifo until a stale count
\* defeats the reader's validation: each message accepted is at its place, whole;
\* an overflow throws away the front only, and only inside a write; a read takes
\* the front; the queue never holds more than MAX_MESSAGES (ring.rs:177-306).
THEOREM RingIsFifo == Spec => ImplementsFifo
<1>1. Init => Fifo!FifoInit
  BY FifoStart
<1>2. IInv /\ IInv' /\ [Next]_vars => [Fifo!FifoNext]_(Fifo!fifo)
  BY FifoStep
<1>. QED
  BY <1>1, <1>2, Invariance, PTL DEF Spec, ImplementsFifo, Fifo!FifoSpec
=============================================================================
