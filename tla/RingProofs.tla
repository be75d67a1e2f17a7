----------------------------- MODULE RingProofs -----------------------------
(* Theorems about Ring, for every capacity, width, limit and message size.  *)
EXTENDS RingInvariant, TLAPS

-----------------------------------------------------------------------------
(* Residues, on which wrapping positions and indices rest *)

\* Division with remainder.
LEMMA DivMod ==
  ASSUME NEW a \in Int, NEW C \in Nat, C > 0
  PROVE  /\ a % C \in 0..C-1 /\ a \div C \in Int
         /\ a = C * (a \div C) + (a % C)
  BY SMT

\* A larger multiplier gains at least one C.
LEMMA MulStep ==
  ASSUME NEW C \in Nat, C > 0, NEW j \in Int, NEW k \in Int, j < k
  PROVE  C * k >= C * j + C
  BY SMT

\* The remainder is unique.
LEMMA ModUnique ==
  ASSUME NEW C \in Nat, C > 0, NEW q \in Int, NEW r \in 0..C-1
  PROVE  (C * q + r) % C = r
<1> DEFINE a == C * q + r
           p == a \div C
           s == a % C
<1>1. a \in Int /\ C * q \in Int
  OBVIOUS
<1>2. s \in 0..C-1 /\ p \in Int /\ a = C * p + s
  BY <1>1, DivMod
<1>3. C * p \in Int
  BY <1>2
<1> HIDE DEF p, s
<1>4. CASE p = q
  BY <1>1, <1>2, <1>4 DEF s
<1>5. CASE p < q
  BY <1>1, <1>2, <1>3, <1>5, MulStep
<1>6. CASE q < p
  BY <1>1, <1>2, <1>3, <1>6, MulStep
<1>. QED
  BY <1>2, <1>4, <1>5, <1>6

\* Multiples of C do not change a residue modulo C.
LEMMA ModShift ==
  ASSUME NEW C \in Nat, C > 0, NEW a \in Int, NEW k \in Int
  PROVE  (a + C * k) % C = a % C
<1> DEFINE d == a \div C
           r == a % C
<1>1. r \in 0..C-1 /\ d \in Int /\ a = C * d + r
  BY DivMod
<1> HIDE DEF d, r
<1>2. a + C * k = C * (d + k) + r
  BY <1>1
<1>3. (C * (d + k) + r) % C = r
  BY <1>1, ModUnique
<1>. QED
  BY <1>2, <1>3 DEF r

\* A value below C is its own residue.
LEMMA ModSmall ==
  ASSUME NEW C \in Nat, NEW a \in 0..C-1
  PROVE  a % C = a
  BY SMT

\* A value in the turn before 0 has its residue one turn later.
LEMMA ModNegative ==
  ASSUME NEW C \in Nat, C > 0, NEW a \in Int, -C <= a, a < 0
  PROVE  a % C = a + C
<1>1. (a + C * 1) % C = a % C
  BY ModShift
<1>2. (a + C) % C = a + C
  BY ModSmall
<1>. QED
  BY <1>1, <1>2

\* Taking residues early, modulo a multiple P of C, does not matter.
LEMMA ModMod ==
  ASSUME NEW C \in Nat, C > 0, NEW P \in Nat, P > 0, P % C = 0,
         NEW a \in Int, NEW b \in Int
  PROVE  ((a % P) + b) % C = (a + b) % C
<1> DEFINE d == a \div P
           r == a % P
           m == P \div C
<1>1. r \in 0..P-1 /\ d \in Int /\ a = P * d + r
  BY DivMod
<1>2. m \in Int /\ P = C * m
  BY DivMod
<1> HIDE DEF d, r, m
<1>3. m * d \in Int /\ P * d = C * (m * d)
  BY <1>1, <1>2
<1> DEFINE n == m * d
           e == r + b
<1>4. n \in Int /\ e \in Int /\ a + b = e + C * n
  BY <1>1, <1>3
<1> HIDE DEF n, e
<1>5. (e + C * n) % C = e % C
  BY <1>4, ModShift
<1>6. (a + b) % C = e % C
  BY <1>4, <1>5, Zenon
<1>. QED
  BY <1>6 DEF e, r

LEMMA ModModSub ==
  ASSUME NEW C \in Nat, C > 0, NEW P \in Nat, P > 0, P % C = 0,
         NEW a \in Int, NEW b \in Int
  PROVE  (b - (a % P)) % C = (b - a) % C
<1> DEFINE d == a \div P
           r == a % P
           m == P \div C
<1>1. r \in 0..P-1 /\ d \in Int /\ a = P * d + r
  BY DivMod
<1>2. m \in Int /\ P = C * m
  BY DivMod
<1> HIDE DEF d, r, m
<1>3. m * d \in Int /\ P * d = C * (m * d)
  BY <1>1, <1>2
<1> DEFINE n == m * d
           e == b - a
<1>4. n \in Int /\ e \in Int /\ b - r = e + C * n
  BY <1>1, <1>3
<1> HIDE DEF n, e
<1>5. (e + C * n) % C = e % C
  BY <1>4, ModShift
<1>. QED
  BY <1>4, <1>5 DEF e, r

\* Addition and subtraction commute with taking residues.
LEMMA ModAdd ==
  ASSUME NEW P \in Nat, P > 0, NEW a \in Int, NEW b \in Int
  PROVE  ((a % P) + b) % P = (a + b) % P
<1>1. (P * 1 + 0) % P = 0
  BY ModUnique
<1>2. P % P = 0
  BY <1>1
<1>. QED
  BY <1>2, ModMod

LEMMA ModSub ==
  ASSUME NEW P \in Nat, P > 0, NEW a \in Int, NEW b \in Int
  PROVE  ((a % P) - (b % P)) % P = (a - b) % P
<1> DEFINE d == b \div P
           r == b % P
<1>1. r \in 0..P-1 /\ d \in Int /\ b = P * d + r
  BY DivMod
<1> HIDE DEF d, r
<1> DEFINE s == -r
<1>2a. s \in Int /\ a + s = a - r /\ (a % P) + s = (a % P) - r
  BY <1>1, DivMod
<1> HIDE DEF s
<1>2. ((a % P) - r) % P = (a - r) % P
  BY <1>2a, ModAdd
<1> DEFINE e == a - b
<1>3. e \in Int /\ a - r = e + P * d
  BY <1>1
<1> HIDE DEF e
<1>4. (e + P * d) % P = e % P
  BY <1>1, <1>3, ModShift
<1>. QED
  BY <1>2, <1>3, <1>4 DEF e, r

\* Two different values less than P apart have different residues.
LEMMA ModDistinct ==
  ASSUME NEW P \in Nat, P > 0, NEW a \in Int, NEW b \in Int, a < b, b - a < P
  PROVE  a % P # b % P
<1> SUFFICES ASSUME a % P = b % P PROVE FALSE
  OBVIOUS
<1>1. a % P \in Int
  BY DivMod
<1>2. (b - a) % P = ((b % P) - (a % P)) % P
  BY ModSub
<1>3. (b % P) - (a % P) = 0
  BY <1>1
<1>4. 0 % P = 0 /\ (b - a) % P = b - a
  BY ModSmall
<1>. QED
  BY <1>2, <1>3, <1>4

-----------------------------------------------------------------------------
(* Types *)

LEMMA TypeInit == Init => TypeOK
  BY CapacityAssumption, SizeAssumption, CountAssumption
  DEF Init, TypeOK, Lengths, Junk, CellType, WriterPCs, ReaderPCs, Results

LEMMA TypeStep == TypeOK /\ [Next]_vars => TypeOK'
<1> USE CapacityAssumption, SizeAssumption, CountAssumption
<1> SUFFICES ASSUME TypeOK, [Next]_vars PROVE TypeOK'
  OBVIOUS
<1> USE DEF TypeOK, Lengths, WriterPCs, ReaderPCs, Results, shared, writer,
            reader, history
<1>0. Junk \in CellType /\ \A i, k, n \in Nat : Cell(i, k, n) \in CellType
  BY DEF Junk, Cell, CellType
<1>a. \A c \in 0..Capacity-1 : Offset(c) \in Nat
  BY DEF Offset
<1>b. tail \in Nat
  BY DEF tail
<1>1. ASSUME NEW len \in MIN_MESSAGE_SIZE-1 .. MAX_MESSAGE_SIZE+1, WriteCall(len)
      PROVE TypeOK'
  <2>1. len \in Nat
    OBVIOUS
  <2>2. /\ w_len' = len /\ w_pc' \in {"done", "w_load"} /\ w_result' \in Results
        /\ w_pc' = "w_load" => len \in Lengths
    BY <1>1 DEF WriteCall
  <2>3. UNCHANGED <<shared, w_read, w_prev, d_read, d_len, reader, history>>
    BY <1>1 DEF WriteCall
  <2>. QED
    BY <2>1, <2>2, <2>3
<1>2. CASE WLoad
  BY <1>2 DEF WLoad
<1>2a. CASE WRefuse
  BY <1>2a DEF WRefuse
<1>2b. CASE WDiscard
  BY <1>2b DEF WDiscard
<1>3. CASE WCopy
  BY <1>3, <1>0 DEF WCopy
<1>4. CASE WCopied
  <2>1. \A c \in 0..Capacity-1 : Cell(tail + 1, Offset(c), w_len) \in CellType
    BY <1>0, <1>a, <1>b
  <2>2. storage' \in [0..Capacity-1 -> CellType]
    BY <2>1, <1>4 DEF WCopied
  <2>. QED
    BY <1>4, <2>2 DEF WCopied
<1>5. CASE WInc
  BY <1>5 DEF WInc
<1>6. CASE WStore
  <2>1. End(tail) + Total(w_len) \in Nat
    BY DEF End, tail, Total
  <2>2. write_pos' \in 0..PosMod-1
    BY <1>6 DEF WStore, wrapping_add, Total
  <2>3. bnd' \in Seq(Nat) /\ Len(bnd') > 0
    BY <1>6, <2>1 DEF WStore
  <2>. QED
    BY <1>6, <2>2, <2>3 DEF WStore
<1>7. CASE WReturn
  BY <1>7 DEF WReturn
<1>8. CASE DLoad
  BY <1>8 DEF DLoad
<1>9. CASE DCas
  <2>1. read_pos' \in 0..PosMod-1
    BY <1>9 DEF DCas, wrapping_add, Total
  <2>. QED
    BY <1>9, <2>1 DEF DCas
<1>10. CASE DRetry
  BY <1>10 DEF DRetry
<1>10a. CASE DSub
  <2>1. message_count' \in 0..CountMod-1 /\ drop_count' \in 0..CountMod-1
    BY <1>10a DEF DSub
  <2>. QED
    BY <1>10a, <2>1 DEF DSub
<1>11. CASE RCount \/ RLoad \/ RCorrupted
  <2>1. CASE RCount
    <3>1. Completed \in Int
      BY DEF Completed, One
    <3>. QED
      BY <2>1, <3>1 DEF RCount
  <2>2. CASE RLoad
    BY <2>2 DEF RLoad
  <2>3. CASE RCorrupted
    BY <2>3 DEF RCorrupted
  <2>4. QED
    BY <1>11, <2>1, <2>2, <2>3
<1>11a. CASE RLen
  BY <1>11a DEF RLen
<1>11b. CASE RRecheck
  BY <1>11b DEF RRecheck, RLeave
<1>11c. CASE RRetry
  BY <1>11c DEF RRetry, RLeave
<1>11d. CASE RReturn
  BY <1>11d DEF RReturn, RLeave
<1>12. CASE RCopy
  <2>1. storage[mask_index(r_read + Total(Len(r_out)))] \in CellType
    BY DEF mask_index, Total
  <2>2. r_out' \in Seq(CellType)
    BY <2>1, <1>12 DEF RCopy
  <2>. QED
    BY <1>12, <2>2 DEF RCopy
<1>13. CASE RCas
  <2>1. read_pos' \in 0..PosMod-1
    BY <1>13 DEF RCas, wrapping_add, Total
  <2>. QED
    BY <1>13, <2>1 DEF RCas
<1>14. CASE RSub
  BY <1>14 DEF RSub, RLeave
<1>15. CASE UNCHANGED vars
  BY <1>15 DEF vars
<1>. QED
  BY <1>1, <1>2, <1>2a, <1>2b, <1>3, <1>4, <1>5, <1>6, <1>7, <1>8, <1>9, <1>10, <1>10a,
     <1>11, <1>11a, <1>11b, <1>11c, <1>11d, <1>12, <1>13, <1>14, <1>15 DEF Next, WriterStep, ReaderStep

\* Every step keeps every variable within its type: positions and counters stay
\* within the width of their u32 whatever happens (ring.rs:140-306).
THEOREM TypeCorrect == Spec => []TypeOK
<1>1. Init => TypeOK
  BY TypeInit
<1>2. TypeOK /\ [Next]_vars => TypeOK'
  BY TypeStep
<1>. QED
  BY <1>1, <1>2, PTL DEF Spec

-----------------------------------------------------------------------------
(* What steps leave alone *)

WriterNext ==
  (\E len \in MIN_MESSAGE_SIZE-1 .. MAX_MESSAGE_SIZE+1 : WriteCall(len)) \/ WriterStep

LEMMA WriterFrame ==
  ASSUME WriterNext
  PROVE  UNCHANGED <<r_pc, r_read, r_len, r_out, taken, r_head, r_disc, last, fault>>
<1> USE DEF shared, reader, history
<1>1. ASSUME NEW len \in MIN_MESSAGE_SIZE-1 .. MAX_MESSAGE_SIZE+1, WriteCall(len)
      PROVE UNCHANGED <<r_pc, r_read, r_len, r_out, taken, r_head, r_disc, last, fault>>
  BY <1>1 DEF WriteCall
<1>2. CASE WLoad \/ WRefuse \/ WDiscard \/ WCopy \/ WCopied \/ WInc \/ WStore
  BY <1>2 DEF WLoad, WRefuse, WDiscard, WCopy, WCopied, WInc, WStore
<1>3. CASE WReturn \/ DLoad \/ DCas \/ DRetry \/ DSub
  BY <1>3 DEF WReturn, DLoad, DCas, DRetry, DSub
<1>. QED
  BY <1>1, <1>2, <1>3 DEF WriterNext, WriterStep

LEMMA ReaderFrame ==
  ASSUME ReaderStep
  PROVE  UNCHANGED <<w_pc, w_len, w_read, w_prev, w_result, d_read, d_len,
                     write_pos, storage, drop_count, bnd>>
<1> USE DEF shared, writer, reader, history
<1>1. CASE RCount \/ RLoad \/ RLen \/ RRecheck \/ RCorrupted
  BY <1>1 DEF RCount, RLoad, RLen, RRecheck, RCorrupted
<1>2. CASE RCopy \/ RCas \/ RRetry \/ RSub \/ RReturn
  BY <1>2 DEF RCopy, RCas, RRetry, RSub, RReturn
<1>. QED
  BY <1>1, <1>2 DEF ReaderStep

LEMMA StoreFrame ==
  ASSUME WriterNext, ~WStore
  PROVE  UNCHANGED <<bnd, write_pos>>
<1> USE DEF shared, reader, history
<1>1. ASSUME NEW len \in MIN_MESSAGE_SIZE-1 .. MAX_MESSAGE_SIZE+1, WriteCall(len)
      PROVE UNCHANGED <<bnd, write_pos>>
  BY <1>1 DEF WriteCall
<1>2. CASE WLoad \/ WRefuse \/ WDiscard \/ WCopy \/ WCopied \/ WInc
  BY <1>2 DEF WLoad, WRefuse, WDiscard, WCopy, WCopied, WInc
<1>3. CASE WReturn \/ DLoad \/ DCas \/ DRetry \/ DSub
  BY <1>3 DEF WReturn, DLoad, DCas, DRetry, DSub
<1>. QED
  BY <1>1, <1>2, <1>3 DEF WriterNext, WriterStep

\* Only the two successful compare_exchanges move read_pos.
LEMMA RemoveFrame ==
  ASSUME [Next]_vars, ~DCas, ~RCas
  PROVE  UNCHANGED <<read_pos, head, taken>>
<1> USE DEF shared, reader, writer, history
<1>1. ASSUME NEW len \in MIN_MESSAGE_SIZE-1 .. MAX_MESSAGE_SIZE+1, WriteCall(len)
      PROVE UNCHANGED <<read_pos, head, taken>>
  BY <1>1 DEF WriteCall
<1>2. CASE WLoad \/ WRefuse \/ WDiscard \/ WCopy \/ WCopied \/ WInc \/ WStore
  BY <1>2 DEF WLoad, WRefuse, WDiscard, WCopy, WCopied, WInc, WStore
<1>3. CASE WReturn \/ DLoad \/ DRetry \/ DSub
  BY <1>3 DEF WReturn, DLoad, DRetry, DSub
<1>4. CASE RCount \/ RLoad \/ RLen \/ RRecheck \/ RCorrupted
  BY <1>4 DEF RCount, RLoad, RLen, RRecheck, RCorrupted
<1>5. CASE RCopy \/ RRetry \/ RSub \/ RReturn
  BY <1>5 DEF RCopy, RRetry, RSub, RReturn
<1>6. CASE UNCHANGED vars
  BY <1>6 DEF vars
<1>. QED
  BY <1>1, <1>2, <1>3, <1>4, <1>5, <1>6 DEF Next, WriterStep, ReaderStep

\* Only the two steps of the copy change the data area.
LEMMA CopyFrame ==
  ASSUME [Next]_vars, ~WCopy, ~WCopied
  PROVE  UNCHANGED storage
<1> USE DEF shared, reader, writer, history
<1>1. ASSUME NEW len \in MIN_MESSAGE_SIZE-1 .. MAX_MESSAGE_SIZE+1, WriteCall(len)
      PROVE UNCHANGED storage
  BY <1>1 DEF WriteCall
<1>2. CASE WLoad \/ WRefuse \/ WDiscard \/ WInc \/ WStore
  BY <1>2 DEF WLoad, WRefuse, WDiscard, WInc, WStore
<1>3. CASE WReturn \/ DLoad \/ DCas \/ DRetry \/ DSub
  BY <1>3 DEF WReturn, DLoad, DCas, DRetry, DSub
<1>4. CASE ReaderStep
  BY <1>4, ReaderFrame
<1>5. CASE UNCHANGED vars
  BY <1>5 DEF vars
<1>. QED
  BY <1>1, <1>2, <1>3, <1>4, <1>5 DEF Next, WriterStep

\* The program counter of the copy advances through its own three steps only.
LEMMA PcFrame ==
  ASSUME [Next]_vars, ~WCopy, ~WCopied, ~WInc, ~WStore
  PROVE  \/ UNCHANGED <<w_pc, w_len>>
         \/ /\ w_pc  \notin {"w_copy", "w_inc", "w_store"}
            /\ w_pc' \notin {"w_copy", "w_inc", "w_store"}
<1> USE DEF shared, reader, writer, history
<1>1. ASSUME NEW len \in MIN_MESSAGE_SIZE-1 .. MAX_MESSAGE_SIZE+1, WriteCall(len)
      PROVE /\ w_pc  \notin {"w_copy", "w_inc", "w_store"}
            /\ w_pc' \notin {"w_copy", "w_inc", "w_store"}
  BY <1>1 DEF WriteCall
<1>2. CASE WLoad \/ WRefuse \/ WDiscard
  BY <1>2 DEF WLoad, WRefuse, WDiscard
<1>3. CASE WReturn \/ DLoad \/ DCas \/ DRetry \/ DSub
  BY <1>3 DEF WReturn, DLoad, DCas, DRetry, DSub
<1>4. CASE ReaderStep
  BY <1>4, ReaderFrame
<1>5. CASE UNCHANGED vars
  BY <1>5 DEF vars
<1>. QED
  BY <1>1, <1>2, <1>3, <1>4, <1>5 DEF Next, WriterStep

-----------------------------------------------------------------------------
(* The invariant is preserved: boundaries *)

LEMMA TailNat == TypeOK => tail \in Nat /\ \A i \in 0..tail : End(i) \in Nat
  BY DEF TypeOK, tail, End

LEMMA BoundariesStep ==
  ASSUME TypeOK, Boundaries, [Next]_vars
  PROVE  Boundaries'
<1>0. tail \in Nat /\ \A i \in 0..tail : End(i) \in Nat
  BY TailNat
<1>1. CASE WStore
  <2> DEFINE e == End(tail) + Total(w_len)
  <2>1. bnd' = Append(bnd, e) /\ w_len \in Lengths
    BY <1>1 DEF WStore, TypeOK
  <2>2. e \in Nat /\ e - End(tail) - 1 \in Lengths /\ End(tail) + 1 < e
    BY <1>0, <2>1, SizeAssumption DEF Total, Lengths
  <2> HIDE DEF e
  <2>3. /\ tail' = tail + 1
        /\ \A i \in 0..tail : bnd'[i+1] = bnd[i+1]
        /\ bnd'[tail + 2] = e
    BY <2>1, <2>2 DEF tail, TypeOK
  <2>4. \A i \in 0..tail : End(i) <= End(tail)
    BY <1>0 DEF Boundaries
  <2>6. \A i \in 1..tail+1 : bnd'[i+1] - bnd'[i-1+1] - 1 \in Lengths
    <3> TAKE i \in 1..tail+1
    <3>1. CASE i = tail + 1
      BY <1>0, <3>1, <2>2, <2>3 DEF End
    <3>2. CASE i \in 1..tail
      <4>1. i-1 \in 0..tail /\ i \in 0..tail
        BY <1>0, <3>2
      <4>. QED
        BY <3>2, <2>3, <4>1 DEF Boundaries, End
    <3>. QED
      BY <1>0, <3>1, <3>2
  <2>7. \A i, j \in 0..tail+1 : i < j => bnd'[i+1] + 1 < bnd'[j+1]
    <3> SUFFICES ASSUME NEW i \in 0..tail+1, NEW j \in 0..tail+1, i < j
                 PROVE  bnd'[i+1] + 1 < bnd'[j+1]
      OBVIOUS
    <3>1. CASE j = tail + 1
      <4>1. i \in 0..tail /\ End(i) \in Nat /\ End(tail) \in Nat
        BY <1>0, <3>1
      <4>. QED
        BY <1>0, <3>1, <4>1, <2>2, <2>3, <2>4 DEF End
    <3>2. CASE j \in 0..tail
      BY <1>0, <3>2, <2>3 DEF Boundaries, End
    <3>. QED
      BY <1>0, <3>1, <3>2
  <2>8. bnd'[0+1] = 0 /\ \A i \in 0..tail+1 : bnd'[i+1] \in Nat
    <3>1. bnd'[0+1] = 0
      BY <1>0, <2>3 DEF Boundaries, End
    <3> SUFFICES ASSUME NEW i \in 0..tail+1 PROVE bnd'[i+1] \in Nat
      BY <3>1
    <3>2. CASE i = tail + 1
      BY <1>0, <2>2, <2>3, <3>2
    <3>3. CASE i \in 0..tail
      BY <1>0, <2>3, <3>3 DEF End
    <3>. QED
      BY <1>0, <3>2, <3>3
  <2>. QED
    BY <2>3, <2>6, <2>7, <2>8 DEF Boundaries, End
<1>2. CASE ~WStore
  <2>1. bnd' = bnd
    <3>1. CASE WriterNext
      BY <3>1, <1>2, StoreFrame
    <3>2. CASE ReaderStep
      BY <3>2, ReaderFrame
    <3>3. CASE UNCHANGED vars
      BY <3>3 DEF vars, history
    <3>. QED
      BY <3>1, <3>2, <3>3 DEF Next, WriterNext
  <2>. QED
    BY <2>1 DEF Boundaries, tail, End
<1>. QED
  BY <1>1, <1>2

\* At extends End to the message in flight.
LEMMA AtFacts ==
  ASSUME TypeOK, Boundaries
  PROVE  /\ Counted \in Nat /\ tail \in Nat /\ tail <= Counted /\ Counted <= tail + 1
         /\ \A i \in 0..tail : At(i) = End(i)
         /\ \A i \in 0..Counted : At(i) \in Nat
         /\ \A i \in 1..Counted : Size(i) \in Lengths /\ At(i) = At(i-1) + Total(Size(i))
         /\ \A i, j \in 0..Counted : i < j => At(i) + 1 < At(j)
         /\ w_pc = "w_store" => Counted = tail + 1 /\ At(tail + 1) = End(tail) + Total(w_len)
         /\ w_pc # "w_store" => Counted = tail
<1>1. tail \in Nat /\ \A i \in 0..tail : End(i) \in Nat
  BY TailNat
<1>2. \A i \in 0..tail : At(i) = End(i)
  BY <1>1 DEF At
<1>3. /\ Counted \in Nat /\ tail <= Counted /\ Counted <= tail + 1
      /\ w_pc = "w_store" => Counted = tail + 1
      /\ w_pc # "w_store" => Counted = tail
  BY <1>1 DEF Counted, InFlight
<1>4. w_pc = "w_store" => w_len \in Lengths
  BY DEF TypeOK
<1>5. At(tail + 1) = End(tail) + Total(w_len)
  BY <1>1 DEF At
<1>6. \A i \in 1..tail : Size(i) \in Lengths /\ At(i) = At(i-1) + Total(Size(i))
  <2> TAKE i \in 1..tail
  <2>1. i \in 0..tail /\ i-1 \in 0..tail /\ At(i) = End(i) /\ At(i-1) = End(i-1)
    BY <1>1, <1>2
  <2>2. End(i) - End(i-1) - 1 \in Lengths /\ End(i) \in Nat /\ End(i-1) \in Nat
    BY <1>1, <2>1 DEF Boundaries
  <2>. QED
    BY <2>1, <2>2 DEF Size, Total
<1>7. \A i, j \in 0..tail : i < j => At(i) + 1 < At(j)
  BY <1>2 DEF Boundaries
<1>8. CASE w_pc # "w_store"
  BY <1>1, <1>2, <1>3, <1>6, <1>7, <1>8
<1>9. CASE w_pc = "w_store"
  <2>1. w_len \in Nat /\ w_len >= 1 /\ w_len \in Lengths
    BY <1>4, <1>9, SizeAssumption DEF Lengths
  <2>2. At(tail) = End(tail) /\ At(tail) \in Nat
    BY <1>1, <1>2
  <2>3. At(tail + 1) \in Nat /\ At(tail + 1) = At(tail) + 1 + w_len
    BY <2>1, <2>2, <1>5 DEF Total
  <2>4. (tail + 1) - 1 = tail
    BY <1>1
  <2>5. Size(tail + 1) = w_len /\ At(tail + 1) = At(tail) + Total(Size(tail + 1))
    BY <2>1, <2>2, <2>3, <2>4 DEF Size, Total
  <2>6. \A i \in 0..Counted : At(i) \in Nat
    BY <1>1, <1>2, <1>3, <1>9, <2>3
  <2>7. \A i \in 1..Counted : Size(i) \in Lengths /\ At(i) = At(i-1) + Total(Size(i))
    <3> TAKE i \in 1..Counted
    <3>1. CASE i \in 1..tail
      BY <3>1, <1>6
    <3>2. CASE i = tail + 1
      BY <3>2, <2>1, <2>4, <2>5
    <3>. QED
      BY <3>1, <3>2, <1>1, <1>3, <1>9
  <2>8. \A i, j \in 0..Counted : i < j => At(i) + 1 < At(j)
    <3> SUFFICES ASSUME NEW i \in 0..Counted, NEW j \in 0..Counted, i < j
                 PROVE  At(i) + 1 < At(j)
      OBVIOUS
    <3>1. CASE j \in 0..tail
      BY <3>1, <1>1, <1>7
    <3>2. CASE j = tail + 1
      <4>1. i \in 0..tail /\ At(i) \in Nat
        BY <3>2, <1>1, <1>3, <2>6
      <4>2. i = tail \/ At(i) + 1 < At(tail)
        BY <4>1, <1>1, <1>7
      <4>. QED
        BY <3>2, <4>1, <4>2, <2>1, <2>2, <2>3
    <3>. QED
      BY <3>1, <3>2, <1>1, <1>3, <1>9
  <2>. QED
    BY <1>1, <1>2, <1>3, <1>5, <1>9, <2>6, <2>7, <2>8
<1>. QED
  BY <1>8, <1>9

\* No step moves a message that was counted.
LEMMA AtStep ==
  ASSUME TypeOK, TypeOK', Boundaries, Boundaries', [Next]_vars
  PROVE  /\ Counted' \in Nat /\ Counted <= Counted'
         /\ tail' \in Nat /\ tail <= tail'
         /\ ~WInc => Counted' = Counted
         /\ WInc => Counted' = Counted + 1
         /\ ~WStore => tail' = tail
         /\ WStore => tail' = tail + 1
         /\ \A i \in 0..Counted : At(i)' = At(i)
         /\ \A i \in 1..Counted : Size(i)' = Size(i)
         /\ \A i \in 0..tail : End(i)' = End(i)
<1>0. /\ tail \in Nat /\ Counted \in Nat /\ tail <= Counted /\ Counted <= tail + 1
      /\ w_pc = "w_store" => Counted = tail + 1 /\ At(tail + 1) = End(tail) + Total(w_len)
      /\ w_pc # "w_store" => Counted = tail
      /\ \A i \in 0..tail : At(i) = End(i)
  BY AtFacts
<1>1. CASE WStore
  <2> DEFINE e == End(tail) + Total(w_len)
  <2>1. /\ bnd' = Append(bnd, e) /\ w_pc = "w_store" /\ w_pc' = "done"
        /\ w_len \in Lengths /\ ~WInc
    BY <1>1 DEF WStore, TypeOK, WInc
  <2>2. e \in Nat
    BY <1>0, <2>1, SizeAssumption, TailNat DEF Total, Lengths
  <2> HIDE DEF e
  <2>3. tail' = tail + 1 /\ \A i \in 0..tail : bnd'[i+1] = bnd[i+1]
    BY <2>1, <2>2 DEF tail, TypeOK
  <2>4. bnd'[tail + 1 + 1] = e
    BY <2>1, <2>2 DEF tail, TypeOK
  <2>5. Counted' = tail + 1 /\ Counted = tail + 1
    BY <1>0, <2>1, <2>3 DEF Counted, InFlight
  <2>6. \A i \in 0..tail : End(i)' = End(i)
    BY <2>3 DEF End
  <2>7. \A i \in 0..Counted : At(i)' = At(i)
    <3> TAKE i \in 0..Counted
    <3>1. CASE i \in 0..tail
      <4>1. At(i) = End(i) /\ At(i)' = End(i)'
        BY <3>1, <1>0, <2>3 DEF At
      <4>. QED
        BY <3>1, <4>1, <2>6
    <3>2. CASE i = tail + 1
      <4>1. At(i) = e
        BY <3>2, <1>0, <2>1 DEF e
      <4>2. At(i)' = bnd'[tail + 1 + 1]
        BY <3>2, <1>0, <2>3 DEF At, End
      <4>. QED
        BY <4>1, <4>2, <2>4
    <3>. QED
      BY <3>1, <3>2, <1>0, <2>5
  <2>8. \A i \in 1..Counted : Size(i)' = Size(i)
    <3> TAKE i \in 1..Counted
    <3>1. i \in 0..Counted /\ i-1 \in 0..Counted
      BY <1>0
    <3>. QED
      BY <3>1, <2>7 DEF Size
  <2>. QED
    BY <1>0, <1>1, <2>1, <2>3, <2>5, <2>6, <2>7, <2>8
<1>2. CASE ~WStore
  <2>1. bnd' = bnd
    BY <1>2, StoreFrame, ReaderFrame DEF Next, WriterNext, vars, history
  <2>2. tail' = tail /\ \A i \in 0..tail : End(i)' = End(i)
    BY <2>1 DEF tail, End
  <2>3. \/ WInc /\ w_pc = "w_inc" /\ w_pc' = "w_store"
        \/ ~WInc /\ (w_pc = "w_store" <=> w_pc' = "w_store")
    BY <1>2, PcFrame DEF WCopy, WCopied, WInc
  <2>4. w_pc = "w_store" => w_len' = w_len
    BY <1>2, PcFrame DEF WCopy, WCopied, WInc
  <2>5. /\ WInc => Counted' = Counted + 1
        /\ ~WInc => Counted' = Counted
        /\ Counted' \in Nat
    BY <1>0, <2>2, <2>3 DEF Counted, InFlight
  <2>6. \A i \in 0..Counted : At(i)' = At(i)
    <3> TAKE i \in 0..Counted
    <3>1. CASE i \in 0..tail
      BY <3>1, <1>0, <2>2 DEF At
    <3>2. CASE i = tail + 1
      <4>1. w_pc = "w_store"
        BY <3>2, <1>0
      <4>2. w_len' = w_len /\ End(tail)' = End(tail)
        BY <4>1, <1>0, <2>2, <2>4
      <4>. QED
        BY <3>2, <1>0, <2>2, <4>2 DEF At, Total
    <3>. QED
      BY <3>1, <3>2, <1>0
  <2>7. \A i \in 1..Counted : Size(i)' = Size(i)
    <3> TAKE i \in 1..Counted
    <3>1. i \in 0..Counted /\ i-1 \in 0..Counted
      BY <1>0
    <3>. QED
      BY <3>1, <2>6 DEF Size
  <2>. QED
    BY <1>0, <1>2, <2>2, <2>5, <2>6, <2>7
<1>. QED
  BY <1>1, <1>2

-----------------------------------------------------------------------------
(* A successful compare_exchange takes exactly the oldest message *)

LEMMA SameBoundary ==
  ASSUME TypeOK, Boundaries, Positions,
         NEW h \in 0..head, h <= tail, End(tail) - End(h) <= Capacity,
         head <= tail, End(h) % PosMod = read_pos
  PROVE  h = head
<1>0. tail \in Nat /\ head \in 0..tail /\ h \in 0..tail /\ tail \in 0..tail
  BY TailNat DEF TypeOK
<1>1. /\ tail \in Nat /\ End(tail) \in Nat /\ End(h) \in Nat /\ End(head) \in Nat
      /\ At(head) = End(head) /\ head \in Nat /\ h \in Nat
  BY <1>0, AtFacts, TailNat
<1>2. End(head) <= End(tail)
  BY <1>1 DEF Boundaries
<1>3. SUFFICES ASSUME h < head PROVE FALSE
  BY <1>1
<1>4. End(h) < End(head)
  BY <1>1, <1>3 DEF Boundaries
<1>5. End(head) - End(h) < PosMod /\ PosMod \in Nat /\ PosMod > 0
  BY <1>1, <1>2, CapacityAssumption
<1>6. End(h) % PosMod # End(head) % PosMod
  BY <1>1, <1>4, <1>5, ModDistinct
<1>. QED
  BY <1>1, <1>6 DEF Positions

LEMMA DCasTakesOldest ==
  ASSUME TypeOK, Boundaries, Positions, WriterLocals, DCas
  PROVE  /\ head < tail /\ d_read = End(head) % PosMod
         /\ d_len = Size(head + 1)
         /\ read_pos' = At(head + 1) % PosMod
<1>1. w_pc = "d_cas" /\ read_pos = d_read /\ read_pos' = wrapping_add(d_read, Total(d_len))
  BY DEF DCas
<1>2. PICK h \in 0..head : /\ h < tail /\ d_read = End(h) % PosMod
                           /\ End(tail) - End(h) <= Capacity
                           /\ d_len = End(h+1) - End(h) - 1
  BY <1>1 DEF WriterLocals
<1>3. tail \in Nat /\ Counted = tail /\ head \in Nat /\ head <= tail
  BY <1>1, AtFacts DEF TypeOK, Positions
<1>4. h = head
  BY <1>1, <1>2, <1>3, SameBoundary
<1>5. /\ head + 1 \in 0..tail /\ head \in 0..tail /\ (head + 1) - 1 = head
      /\ head + 1 \in 1..Counted
  BY <1>2, <1>3, <1>4
<1>6. /\ At(head) = End(head) /\ At(head + 1) = End(head + 1) /\ End(head) \in Nat
      /\ Size(head + 1) \in Lengths /\ At(head + 1) = At(head) + Total(Size(head + 1))
  BY <1>5, AtFacts, TailNat
<1>7. d_len = Size(head + 1)
  BY <1>2, <1>4, <1>5, <1>6 DEF Size
<1>8. ((End(head) % PosMod) + Total(d_len)) % PosMod = (End(head) + Total(d_len)) % PosMod
  <2>1. Total(d_len) \in Int /\ PosMod \in Nat /\ PosMod > 0 /\ End(head) \in Int
    BY <1>6, <1>7, SizeAssumption, CapacityAssumption DEF Total, Lengths
  <2>. QED
    BY <2>1, ModAdd
<1>. QED
  BY <1>1, <1>2, <1>4, <1>6, <1>7, <1>8 DEF wrapping_add

LEMMA RCasTakesOldest ==
  ASSUME TypeOK, Boundaries, Positions, ReaderLocals, RCas,
         fault = "none", fault' = "none"
  PROVE  /\ r_head = head /\ head < Counted /\ r_len = Size(head + 1)
         /\ head' = head + 1 /\ taken' = taken + 1
         /\ read_pos' = At(head + 1) % PosMod
<1>1. /\ r_pc = "r_cas" /\ read_pos = r_read
      /\ read_pos' = wrapping_add(r_read, Total(r_len))
  BY DEF RCas, RUnmoved
<1>2. ~Aba /\ head' = head + 1 /\ taken' = taken + 1
  BY DEF RCas
<1>3. r_head = head
  BY <1>1, <1>2 DEF Aba
<1>4. /\ r_head < Counted /\ r_read = End(r_head) % PosMod /\ r_len = Size(head + 1)
  BY <1>1, <1>3 DEF ReaderLocals, Reading
<1>5. /\ head \in Nat /\ Counted \in Nat /\ tail \in Nat /\ Counted <= tail + 1
  BY AtFacts DEF TypeOK
<1>6. head \in 0..tail /\ head + 1 \in 1..Counted /\ (head + 1) - 1 = head
  BY <1>3, <1>4, <1>5
<1>7. /\ At(head) = End(head) /\ End(head) \in Nat /\ Size(head + 1) \in Lengths
      /\ At(head + 1) = At(head) + Total(Size(head + 1))
  BY <1>6, AtFacts, TailNat
<1>8. ((End(head) % PosMod) + Total(r_len)) % PosMod = (End(head) + Total(r_len)) % PosMod
  <2>1. Total(r_len) \in Int /\ PosMod \in Nat /\ PosMod > 0 /\ End(head) \in Int
    BY <1>4, <1>7, SizeAssumption, CapacityAssumption DEF Total, Lengths
  <2>. QED
    BY <2>1, ModAdd
<1>. QED
  BY <1>1, <1>2, <1>3, <1>4, <1>7, <1>8 DEF wrapping_add

-----------------------------------------------------------------------------
(* The invariant is preserved: positions *)

\* The full test, made with a read_pos loaded earlier, never overestimates the
\* room (ring.rs:196).
LEMMA RoomIsReal ==
  ASSUME TypeOK, Boundaries, Positions, WriterLocals, WCopy
  PROVE  End(tail) + Total(w_len) - At(head) <= Capacity
<1>1. w_pc = "w_count" /\ ~(available_bytes(write_pos, w_read) < Total(w_len))
  BY DEF WCopy, Full
<1>2. PICK h \in 0..head : /\ h <= tail /\ w_read = End(h) % PosMod
                           /\ End(tail) - End(h) <= Capacity
  BY <1>1 DEF WriterLocals
<1>0. tail \in Nat /\ Counted = tail /\ head \in 0..tail /\ h \in 0..tail /\ tail \in 0..tail
  BY <1>1, <1>2, AtFacts DEF TypeOK, Positions
<1>3. /\ tail \in Nat /\ head \in Nat /\ head <= tail
      /\ At(head) = End(head) /\ End(head) \in Nat /\ End(h) \in Nat
      /\ End(tail) \in Nat /\ h \in Nat
  BY <1>0, AtFacts, TailNat
<1>4. End(h) <= End(head) /\ End(h) <= End(tail)
  BY <1>2, <1>3 DEF Boundaries
<1>5. PosMod \in Nat /\ PosMod > 0 /\ Capacity \in Nat /\ Capacity < PosMod
  BY CapacityAssumption
<1>6. wrapping_sub(write_pos, w_read) = (End(tail) - End(h)) % PosMod
  <2>1. ((End(tail) % PosMod) - (End(h) % PosMod)) % PosMod = (End(tail) - End(h)) % PosMod
    <3>1. End(tail) \in Int /\ End(h) \in Int
      BY <1>3
    <3>. QED
      BY <3>1, <1>5, ModSub
  <2>. QED
    BY <1>2, <2>1 DEF wrapping_sub, Positions
<1>7. End(tail) - End(h) \in 0..PosMod-1
  BY <1>2, <1>3, <1>4, <1>5
<1>8. wrapping_sub(write_pos, w_read) = End(tail) - End(h)
  BY <1>5, <1>6, <1>7, ModSmall
<1>9. w_len \in Nat
  BY DEF TypeOK
<1>. QED
  BY <1>1, <1>3, <1>4, <1>5, <1>8, <1>9 DEF available_bytes, Total

LEMMA PositionsStep ==
  ASSUME TypeOK, TypeOK', Boundaries, Boundaries', Positions, WriterLocals,
         ReaderLocals, [Next]_vars, fault = "none", fault' = "none"
  PROVE  Positions'
<1>0. /\ tail \in Nat /\ Counted \in Nat /\ head \in Nat /\ head <= Counted
      /\ tail <= Counted /\ Counted <= tail + 1 /\ tail' \in Nat
      /\ Counted' \in Nat /\ Counted <= Counted' /\ tail <= tail'
      /\ \A i \in 0..Counted : At(i)' = At(i) /\ At(i) \in Nat
      /\ \A i \in 0..tail : End(i)' = End(i) /\ At(i) = End(i)
      /\ ~WStore => tail' = tail
      /\ w_len \in Nat
  BY AtFacts, AtStep DEF TypeOK, Positions
<1>h. PICK h \in 0..Counted : h = head
  BY <1>0
<1>t. PICK t \in 0..tail : t = tail
  BY <1>0
<1>n. /\ End(t) \in Nat /\ At(h) \in Nat /\ At(h)' = At(h) /\ End(t)' = End(t)
      /\ Capacity \in Nat /\ PosMod \in Nat /\ PosMod > 0
  BY <1>0, <1>h, <1>t, TailNat, CapacityAssumption
<1>p. /\ write_pos = End(t) % PosMod /\ read_pos = At(h) % PosMod
      /\ End(t) - At(h) <= Capacity
      /\ w_pc \in {"w_copy", "w_inc", "w_store"} =>
           End(t) + Total(w_len) - At(h) <= Capacity
  BY <1>h, <1>t DEF Positions
<1>1. CASE DCas \/ RCas
  <2>1. h < Counted /\ head' = h + 1 /\ read_pos' = At(h + 1) % PosMod
    BY <1>0, <1>1, <1>h, DCasTakesOldest, RCasTakesOldest DEF DCas
  <2>2. h + 1 \in 0..Counted
    BY <1>0, <1>h, <2>1
  <2>3. At(h + 1)' = At(h + 1) /\ At(h + 1) \in Nat /\ At(h) < At(h + 1)
    BY <1>0, <1>h, <2>1, <2>2, AtFacts
  <2>4. tail' = t /\ write_pos' = write_pos
    BY <1>0, <1>1, <1>t DEF DCas, RCas, WStore, writer
  <2>5. w_pc' \in {"w_copy", "w_inc", "w_store"} => w_pc' = w_pc /\ w_len' = w_len
    BY <1>1 DEF DCas, RCas, writer
  <2>6. h + 1 <= Counted'
    BY <1>0, <2>2
  <2>. QED
    BY <1>0, <1>n, <1>p, <2>1, <2>3, <2>4, <2>5, <2>6 DEF Positions, Total
<1>2. CASE WStore
  <2>1. /\ w_pc = "w_store" /\ w_pc' = "done" /\ w_len \in Lengths
        /\ write_pos' = wrapping_add(write_pos, Total(w_len))
        /\ read_pos' = read_pos /\ head' = head /\ ~WInc
    BY <1>2 DEF WStore, TypeOK, WInc
  <2>2. /\ Counted = t + 1 /\ At(t + 1) = End(t) + Total(w_len)
        /\ Counted' = t + 1 /\ tail' = t + 1
    <3>1. Counted = tail + 1 /\ At(tail + 1) = End(tail) + Total(w_len)
      BY <2>1, AtFacts
    <3>2. Counted' = Counted /\ tail' = tail + 1
      BY <1>2, <2>1, AtStep
    <3>. QED
      BY <1>t, <3>1, <3>2
  <2>3. t + 1 \in 0..Counted /\ t \in Nat
    BY <1>0, <1>t, <2>2
  <2>4. At(t + 1)' = End(t + 1)'
    BY <2>2, <2>3 DEF At
  <2>5. End(t + 1)' = End(t) + Total(w_len)
    BY <1>0, <2>2, <2>3, <2>4
  <2>6. write_pos' = (End(t) + Total(w_len)) % PosMod
    <3>1. Total(w_len) \in Int /\ End(t) \in Int
      BY <1>n, <1>0 DEF Total
    <3>. QED
      BY <1>n, <1>p, <2>1, <3>1, ModAdd DEF wrapping_add
  <2>7. End(t) + Total(w_len) - At(h) <= Capacity
    BY <1>p, <2>1
  <2>8. /\ head' = h /\ h <= Counted' /\ At(h)' = At(h)
        /\ read_pos' = At(h) % PosMod
    BY <1>0, <1>n, <1>p, <1>h, <2>1, <2>2
  <2>9. End(tail)' = End(t) + Total(w_len)
    BY <2>2, <2>5
  <2>10. At(head)' = At(h)
    BY <2>8
  <2>11. write_pos' = End(tail)' % PosMod
    BY <2>6, <2>9
  <2>12. End(tail)' - At(head)' <= Capacity
    <3>1. Total(w_len) \in Int
      BY <1>0 DEF Total
    <3>2. End(t) + Total(w_len) \in Int /\ (End(t) + Total(w_len)) - At(h) <= Capacity
      BY <1>n, <2>7, <3>1
    <3>. QED
      BY <2>9, <2>10, <3>2, Zenon
  <2>13. read_pos' = At(head)' % PosMod /\ head' <= Counted'
    BY <2>8, <2>10
  <2>14. w_pc' \notin {"w_copy", "w_inc", "w_store"}
    BY <2>1
  <2>. QED
    BY <2>11, <2>12, <2>13, <2>14, Zenon DEF Positions
<1>3. CASE ~DCas /\ ~RCas /\ ~WStore
  <2>1. read_pos' = read_pos /\ head' = h
    BY <1>3, <1>h, RemoveFrame
  <2>2. tail' = t
    BY <1>0, <1>3, <1>t
  <2>3. write_pos' = write_pos
    BY <1>3, StoreFrame, ReaderFrame DEF Next, WriterNext, vars, shared
  <2>4. w_pc' \in {"w_copy", "w_inc", "w_store"} =>
          End(t) + Total(w_len') - At(h) <= Capacity
    <3>1. CASE WCopy
      <4>1. w_len' = w_len
        BY <3>1 DEF WCopy
      <4>. QED
        BY <3>1, <1>h, <1>t, <4>1, RoomIsReal
    <3>2. CASE WCopied \/ WInc
      BY <3>2, <1>p DEF WCopied, WInc
    <3>3. CASE ~WCopy /\ ~WCopied /\ ~WInc
      BY <3>3, <1>3, <1>p, PcFrame
    <3>. QED
      BY <3>1, <3>2, <3>3
  <2>5. h <= Counted'
    BY <1>0, <1>h
  <2>. QED
    BY <1>n, <1>p, <2>1, <2>2, <2>3, <2>4, <2>5 DEF Positions, Total
<1>. QED
  BY <1>1, <1>2, <1>3

-----------------------------------------------------------------------------
(* The invariant is preserved: contents of the data area *)

\* The offset of a cell from write_pos, in unwrapped positions.
LEMMA OffsetOf ==
  ASSUME TypeOK, Positions, NEW x \in Nat
  PROVE  /\ x % Capacity \in 0..Capacity-1
         /\ Offset(x % Capacity) = (x - End(tail)) % Capacity
<1>1. /\ Capacity \in Nat /\ Capacity > 0 /\ PosMod \in Nat /\ PosMod > 0
      /\ PosMod % Capacity = 0
  BY CapacityAssumption, SizeAssumption
<1>2. tail \in 0..tail /\ End(tail) \in Int
  BY TailNat
<1> DEFINE e == End(tail)
           w == e % PosMod
           m == -w
           z == x - w
<1>3. e \in Int /\ w \in Int /\ write_pos = w
  BY <1>1, <1>2, DivMod DEF Positions
<1> HIDE DEF e, w
<1>4. m \in Int /\ x \in Int /\ x + m = z
  BY <1>3
<1>5. x % Capacity \in 0..Capacity-1
  BY <1>1, <1>4, DivMod
<1>6. (x % Capacity) + m = (x % Capacity) - w
  BY <1>3, <1>5
<1> HIDE DEF m, z
<1>7. ((x % Capacity) + m) % Capacity = (x + m) % Capacity
  BY <1>1, <1>4, ModAdd
<1>8. (x - (e % PosMod)) % Capacity = (x - e) % Capacity
  <2>1. x \in Int
    OBVIOUS
  <2>2. QED
    BY <1>1, <1>3, <2>1, ModModSub, Zenon
<1>9. z % Capacity = (x - e) % Capacity
  BY <1>8 DEF w, z
<1>10. ((x % Capacity) - w) % Capacity = z % Capacity
  BY <1>4, <1>6, <1>7, Zenon
<1>. QED
  BY <1>3, <1>5, <1>9, <1>10 DEF Offset, e

\* The copy stays out of the cells of the messages in the ring ...
LEMMA LiveOutside ==
  ASSUME TypeOK, Boundaries, Positions, w_len \in Lengths,
         End(tail) + Total(w_len) - At(head) <= Capacity,
         NEW i \in head+1 .. tail, NEW k \in 0 .. Size(i)
  PROVE  /\ (End(i-1) + k) % Capacity \in 0..Capacity-1
         /\ ~(Offset((End(i-1) + k) % Capacity) < Total(w_len))
<1>1. tail \in Nat /\ head \in Nat /\ Counted \in Nat /\ tail <= Counted
  BY AtFacts DEF TypeOK
<1>2. /\ i \in 0..tail /\ i-1 \in 0..tail /\ head \in 0..tail /\ i \in 1..Counted
      /\ tail \in 0..tail
  BY <1>1
<1>3. /\ End(i) \in Nat /\ End(i-1) \in Nat /\ End(head) \in Nat /\ End(tail) \in Nat
      /\ At(head) = End(head) /\ At(i) = End(i) /\ At(i-1) = End(i-1)
      /\ Size(i) \in Nat /\ End(i) = End(i-1) + 1 + Size(i)
  BY <1>2, AtFacts, TailNat, SizeAssumption DEF Total, Lengths
<1>a. head = i-1 \/ head < i-1
  BY <1>1
<1>b. i = tail \/ i < tail
  BY <1>1
<1>c. End(head) <= End(i-1)
  BY <1>2, <1>3, <1>a DEF Boundaries
<1>d. End(i) <= End(tail)
  BY <1>2, <1>3, <1>b DEF Boundaries
<1>4. k \in Nat /\ k <= Size(i)
  BY <1>3
<1> DEFINE x == End(i-1) + k
<1>5. /\ x \in Nat /\ At(head) <= x /\ x < End(tail) /\ At(head) \in Nat
  BY <1>3, <1>4, <1>c, <1>d
<1> HIDE DEF x
<1>6. /\ x % Capacity \in 0..Capacity-1
      /\ Offset(x % Capacity) = (x - End(tail)) % Capacity
  BY <1>5, OffsetOf
<1>7. Total(w_len) \in Nat /\ Capacity \in Nat /\ Capacity > 0 /\ Total(w_len) > 0
  BY SizeAssumption, CapacityAssumption DEF Total, Lengths
<1> DEFINE y == x - End(tail)
<1>8. y \in Int /\ y < 0 /\ -Capacity <= y /\ y + Capacity >= Total(w_len)
  BY <1>3, <1>5, <1>7
<1> HIDE DEF y
<1>9. y % Capacity = y + Capacity
  BY <1>7, <1>8, ModNegative
<1>. QED
  BY <1>6, <1>7, <1>8, <1>9 DEF x, y

\* ... and fills the next ones in order.
LEMMA CopyOffset ==
  ASSUME TypeOK, Positions, w_len \in Lengths, NEW k \in 0..w_len
  PROVE  /\ (End(tail) + k) % Capacity \in 0..Capacity-1
         /\ Offset((End(tail) + k) % Capacity) = k
<1>1. tail \in 0..tail /\ End(tail) \in Nat
  BY TailNat
<1>2. k \in 0..Capacity-1 /\ Capacity \in Nat /\ k \in Nat
  BY SizeAssumption, CapacityAssumption DEF Lengths
<1> DEFINE x == End(tail) + k
<1>3. x \in Nat /\ x - End(tail) = k
  BY <1>1, <1>2
<1> HIDE DEF x
<1>4. x % Capacity \in 0..Capacity-1 /\ Offset(x % Capacity) = k % Capacity
  BY <1>3, OffsetOf
<1>5. k % Capacity = k
  BY <1>2, ModSmall
<1>. QED
  BY <1>4, <1>5 DEF x

LEMMA ContentsStep ==
  ASSUME TypeOK, TypeOK', Boundaries, Boundaries', Positions, Contents,
         WriterLocals, ReaderLocals, [Next]_vars, fault = "none", fault' = "none"
  PROVE  Contents'
<1>0. /\ tail \in Nat /\ Counted \in Nat /\ head \in Nat
      /\ tail <= Counted /\ Counted <= tail + 1
      /\ \A i \in 0..tail : End(i)' = End(i)
      /\ \A i \in 1..Counted : Size(i)' = Size(i)
      /\ ~WStore => tail' = tail
      /\ WStore => tail' = tail + 1
  BY AtFacts, AtStep DEF TypeOK
<1>h. head' \in Nat /\ head <= head'
  <2>1. CASE DCas \/ RCas
    BY <2>1, <1>0, DCasTakesOldest, RCasTakesOldest DEF DCas
  <2>2. CASE ~DCas /\ ~RCas
    BY <2>2, <1>0, RemoveFrame
  <2>. QED
    BY <2>1, <2>2
<1>t. PICK t \in 0..tail : t = tail
  BY <1>0
<1>g. PICK g \in Nat : g = head'
  BY <1>h
<1>k. head <= g
  BY <1>g, <1>h, ZenonT(10)
<1>b. t \in Nat /\ head \in Nat /\ t <= Counted /\ Counted \in Nat
  BY <1>0, <1>t
\* The messages that stay in the ring: their cells are not written.
<1>1. \A i \in g+1 .. t : \A k \in 0 .. Size(i)' :
        storage'[(End(i-1)' + k) % Capacity] = Cell(i, k, Size(i)')
  <2> TAKE i \in g+1 .. t
  <2>1. i \in head+1 .. tail /\ i \in 1..Counted /\ i \in 0..tail /\ i-1 \in 0..tail
    <3>1. i \in head+1 .. t /\ i \in 1..Counted /\ i \in 0..t /\ i-1 \in 0..t
      BY <1>b, <1>k
    <3>. QED
      BY <1>t, <3>1
  <2> TAKE k \in 0 .. Size(i)'
  <2>2. Size(i)' = Size(i) /\ End(i-1)' = End(i-1) /\ k \in 0..Size(i)
    BY <1>0, <2>1
  <2>3. storage[(End(i-1) + k) % Capacity] = Cell(i, k, Size(i))
    BY <2>1, <2>2 DEF Contents
  <2>4. storage'[(End(i-1) + k) % Capacity] = storage[(End(i-1) + k) % Capacity]
    <3>1. CASE WCopy
      <4>1. w_len \in Lengths /\ End(tail) + Total(w_len) - At(head) <= Capacity
        BY <3>1, RoomIsReal DEF WCopy, TypeOK
      <4>2. /\ (End(i-1) + k) % Capacity \in 0..Capacity-1
            /\ ~(Offset((End(i-1) + k) % Capacity) < Total(w_len))
        BY <4>1, <2>1, <2>2, LiveOutside
      <4>. QED
        BY <3>1, <4>2 DEF WCopy
    <3>2. CASE WCopied
      <4>1. w_len \in Lengths /\ End(tail) + Total(w_len) - At(head) <= Capacity
        BY <3>2 DEF WCopied, TypeOK, Positions
      <4>2. /\ (End(i-1) + k) % Capacity \in 0..Capacity-1
            /\ ~(Offset((End(i-1) + k) % Capacity) < Total(w_len))
        BY <4>1, <2>1, <2>2, LiveOutside
      <4>. QED
        BY <3>2, <4>2 DEF WCopied
    <3>3. CASE ~WCopy /\ ~WCopied
      BY <3>3, CopyFrame
    <3>. QED
      BY <3>1, <3>2, <3>3
  <2>. QED
    BY <2>2, <2>3, <2>4
<1>2. CASE WStore
  <2>1. /\ w_pc = "w_store" /\ w_pc' = "done" /\ storage' = storage /\ tail' = t + 1
    BY <1>0, <1>2, <1>t DEF WStore
  <2>2. /\ Counted = t + 1 /\ At(t + 1) = End(t) + Total(w_len) /\ At(t) = End(t)
        /\ End(t) \in Nat /\ w_len \in Lengths
    BY <1>t, <2>1, AtFacts, TailNat DEF TypeOK
  <2>3. Size(t + 1) = w_len
    <3>1. (t + 1) - 1 = t /\ w_len \in Nat
      BY <1>0, <1>t, <2>2, SizeAssumption DEF Lengths
    <3>. QED
      BY <2>2, <3>1 DEF Size, Total
  <2>4. Size(t + 1)' = w_len /\ End(t)' = End(t) /\ (t + 1) - 1 = t
    BY <1>0, <1>t, <2>2, <2>3
  <2>5. \A k \in 0..Size(t + 1)' :
          storage'[(End((t + 1) - 1)' + k) % Capacity] = Cell(t + 1, k, Size(t + 1)')
    BY <1>t, <2>1, <2>4 DEF Contents
  <2>6. \A i \in g+1 .. t+1 : i \in g+1 .. t \/ i = t + 1
    BY <1>b
  <2>7. \A i \in g+1 .. t+1 : \A k \in 0 .. Size(i)' :
          storage'[(End(i-1)' + k) % Capacity] = Cell(i, k, Size(i)')
    BY <1>1, <2>5, <2>6
  <2>. QED
    BY <2>1, <2>7, <1>g DEF Contents
<1>3. CASE ~WStore
  <2>1. tail' = t
    BY <1>0, <1>3, <1>t
  <2>2. w_pc' \in {"w_inc", "w_store"} =>
          \A k \in 0..w_len' :
            storage'[(End(t)' + k) % Capacity] = Cell(t + 1, k, w_len')
    <3>1. End(t)' = End(t)
      BY <1>0, <1>t
    <3>2. CASE WCopied
      <4> SUFFICES ASSUME NEW k \in 0..w_len
                   PROVE  storage'[(End(t) + k) % Capacity] = Cell(t + 1, k, w_len)
        BY <3>1, <3>2 DEF WCopied
      <4>1. w_len \in Lengths /\ Total(w_len) > k /\ w_len \in Nat
        BY <3>2, SizeAssumption DEF WCopied, TypeOK, Total, Lengths
      <4>2. /\ (End(t) + k) % Capacity \in 0..Capacity-1
            /\ Offset((End(t) + k) % Capacity) = k
        BY <4>1, <1>t, CopyOffset
      <4>. QED
        BY <3>2, <4>1, <4>2, <1>t DEF WCopied
    <3>3. CASE WInc
      BY <3>1, <3>3, <1>t DEF WInc, Contents
    <3>4. CASE WCopy
      BY <3>4 DEF WCopy
    <3>5. CASE ~WCopy /\ ~WCopied /\ ~WInc
      BY <3>1, <3>5, <1>3, <1>t, PcFrame, CopyFrame DEF Contents
    <3>. QED
      BY <3>2, <3>3, <3>4, <3>5
  <2>. QED
    BY <1>1, <1>g, <2>1, <2>2 DEF Contents
<1>. QED
  BY <1>2, <1>3
=============================================================================
