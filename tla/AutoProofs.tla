----------------------------- MODULE AutoProofs -----------------------------
(* Proofs about module Auto, for any number of clients, messages and faults   *)
(* and any limits of the queue, the batch and the ring.                       *)
EXTENDS AutoInvariant, FiniteSetTheorems, SequenceTheorems, TLAPS

LEMMA Limits ==
  /\ MaxSends \in Nat /\ MaxSendQueue \in Nat \ {0} /\ RecvBatch \in Nat \ {0}
  /\ RingMax \in Nat \ {0} /\ Generations \in Nat \ {0, 1}
  BY ChannelAssumption, AutoAssumption

(* What the operators of Channel make of a section is a section.              *)
LEMMA RingOps ==
  ASSUME NEW r \in Rings
  PROVE  /\ ResetRing(r) \in Rings
         /\ WasEmpty(r) \in BOOLEAN /\ Loads(r) \subseteq BOOLEAN
         /\ \A m \in Messages : Counted(r, m) \in Rings
         /\ r.msgs # <<>> => Taken(r) \in Rings /\ Head(r.msgs) \in Messages
         /\ Subtracted(r) \in Rings
         /\ \A b \in BOOLEAN : Signalled(r, b) \in Rings
<1> USE Limits DEF Rings
<1>1. ResetRing(r) \in Rings /\ WasEmpty(r) \in BOOLEAN /\ Loads(r) \subseteq BOOLEAN
  <2>0. <<>> \in Seq(Messages)
    OBVIOUS
  <2>1. ResetRing(r) \in Rings
    BY <2>0 DEF ResetRing
  <2>2. WasEmpty(r) \in BOOLEAN /\ Loads(r) \subseteq BOOLEAN
    BY Zenon DEF WasEmpty, Loads
  <2>3. QED
    BY <2>1, <2>2
<1>2. ASSUME NEW m \in Messages PROVE Counted(r, m) \in Rings
  <2>1. Append(r.msgs, m) \in Seq(Messages) /\ r.count + 1 \in Nat
    OBVIOUS
  <2>2. QED
    BY <2>1 DEF Counted
<1>3. ASSUME r.msgs # <<>> PROVE Taken(r) \in Rings /\ Head(r.msgs) \in Messages
  <2>1. Tail(r.msgs) \in Seq(Messages) /\ Head(r.msgs) \in Messages
    BY <1>3
  <2>2. QED
    BY <2>1 DEF Taken
<1>4. Subtracted(r) \in Rings
  <2>1. (IF r.count = 0 THEN 2 * RingMax + 1 ELSE r.count - 1) \in Nat
    OBVIOUS
  <2>2. QED
    BY <2>1 DEF Subtracted
<1>5. \A b \in BOOLEAN : Signalled(r, b) \in Rings
  <2>1. \A b \in BOOLEAN : (r.data \/ b) \in BOOLEAN
    BY Zenon
  <2>2. QED
    BY <2>1 DEF Signalled
<1>6. QED
  BY <1>1, <1>2, <1>3, <1>4, <1>5

LEMMA SectionOps ==
  ASSUME NEW x \in Sections
  PROVE  /\ {ResetRings(x), ServerReady(x), ClientReady(x), Acknowledge(x), MarkDisconnected(x),
             Hello(x), Request(x), GiveUp(x), DropClient(x)} \subseteq Sections
         /\ \A b \in BOOLEAN : DropServer(x, b) \in Sections
         /\ \A b \in BOOLEAN : {[x EXCEPT !.connect_req = b], [x EXCEPT !.connect_ack = b],
                                [x EXCEPT !.disconnect = b], [x EXCEPT !.c2s.data = b]}
                                  \subseteq Sections
         /\ \A r \in Rings : [x EXCEPT !.c2s = r] \in Sections
<1>1. ResetRings(x) \in Sections
  BY RingOps DEF Sections, ResetRings
<1>2. ServerReady(x) \in Sections
  <2>1. (x.generation + 1) % Generations \in 0..(Generations - 1)
    BY ChannelAssumption DEF Sections
  <2>2. QED
    BY <2>1 DEF Sections, ServerReady
<1>3. {ClientReady(x), Acknowledge(x), MarkDisconnected(x), Hello(x), Request(x), GiveUp(x),
       DropClient(x)} \subseteq Sections
  <2>1. ClientReady(x) \in Sections /\ Acknowledge(x) \in Sections
    BY DEF Sections, ClientReady, Acknowledge
  <2>2. MarkDisconnected(x) \in Sections /\ DropClient(x) \in Sections
    BY DEF Sections, MarkDisconnected, DropClient
  <2>3. Hello(x) \in Sections /\ Request(x) \in Sections /\ GiveUp(x) \in Sections
    BY DEF Sections, Hello, Request, GiveUp
  <2>4. QED
    BY <2>1, <2>2, <2>3
<1>4. \A b \in BOOLEAN : DropServer(x, b) \in Sections
  BY DEF Sections, DropServer, MarkDisconnected
<1>5. ASSUME NEW b \in BOOLEAN
      PROVE  {[x EXCEPT !.connect_req = b], [x EXCEPT !.connect_ack = b],
              [x EXCEPT !.disconnect = b], [x EXCEPT !.c2s.data = b]} \subseteq Sections
  <2>1. [x.c2s EXCEPT !.data = b] \in Rings
    BY DEF Sections, Rings
  <2>2. QED
    BY <2>1 DEF Sections
<1>6. \A r \in Rings : [x EXCEPT !.c2s = r] \in Sections
  BY DEF Sections
<1>7. QED
  BY <1>1, <1>2, <1>3, <1>4, <1>5, <1>6

(* What a drained queue is: the last messages of the old ones and the new.    *)
Suffix(t, s) == \E d \in Nat : Len(s) = Len(t) + d /\ \A i \in DOMAIN t : t[i] = s[i + d]

LEMMA LastOnes ==
  ASSUME NEW S, NEW s \in Seq(S), NEW d \in 0..Len(s)
  PROVE  LET t == SubSeq(s, d + 1, Len(s))
         IN  t \in Seq(S) /\ Len(t) = Len(s) - d /\ Suffix(t, s)
<1> DEFINE t == SubSeq(s, d + 1, Len(s))
<1>1. Len(s) \in Nat /\ d \in Nat /\ d + 1 \in Int /\ \A i \in d + 1..Len(s) : s[i] \in S
  OBVIOUS
<1>2. /\ t \in Seq(S)
      /\ Len(t) = IF d + 1 <= Len(s) THEN Len(s) - (d + 1) + 1 ELSE 0
      /\ \A i \in 1..Len(s) - (d + 1) + 1 : t[i] = s[d + 1 + i - 1]
  BY <1>1, SubSeqProperties
<1> HIDE DEF t
<1>3. Len(t) = Len(s) - d
  BY <1>1, <1>2
<1>4. DOMAIN t = 1..Len(s) - d
  BY <1>2, <1>3
<1>5. Len(s) = Len(t) + d /\ \A i \in DOMAIN t : t[i] = s[i + d]
  <2>1. ASSUME NEW i \in DOMAIN t PROVE t[i] = s[i + d]
    <3>1. i \in 1..Len(s) - (d + 1) + 1 /\ d + 1 + i - 1 = i + d
      BY <1>1, <1>4
    <3>2. QED
      BY <1>2, <3>1
  <2>2. QED
    BY <1>1, <1>3, <2>1
<1>6. Suffix(t, s)
  BY <1>1, <1>5 DEF Suffix
<1>7. QED
  BY <1>2, <1>3, <1>6 DEF t

LEMMA EnqueueFacts ==
  ASSUME NEW q \in Seq(1..MaxSends), NEW ms \in Seq(1..MaxSends)
  PROVE  /\ Enqueue(q, ms) \in Seq(1..MaxSends)
         /\ Len(Enqueue(q, ms)) <= MaxSendQueue
         /\ Suffix(Enqueue(q, ms), q \o ms)
<1> DEFINE all == q \o ms
           d   == Len(all) - MaxSendQueue
<1>1. all \in Seq(1..MaxSends) /\ Len(all) \in Nat /\ MaxSendQueue \in Nat \ {0}
  BY AutoAssumption
<1>2. CASE Len(all) <= MaxSendQueue
  <2>1. Enqueue(q, ms) = all
    BY <1>2 DEF Enqueue
  <2>2. Len(all) = Len(all) + 0 /\ \A i \in DOMAIN all : all[i] = all[i + 0]
    BY <1>1
  <2>3. Suffix(all, all)
    BY <2>2 DEF Suffix
  <2>4. QED
    BY <1>1, <1>2, <2>1, <2>3
<1>3. CASE ~(Len(all) <= MaxSendQueue)
  <2>1. d \in 0..Len(all)
    BY <1>1, <1>3
  <2>2. Enqueue(q, ms) = SubSeq(all, d + 1, Len(all))
    BY <1>3 DEF Enqueue
  <2>3. /\ SubSeq(all, d + 1, Len(all)) \in Seq(1..MaxSends)
        /\ Len(SubSeq(all, d + 1, Len(all))) = Len(all) - d
        /\ Suffix(SubSeq(all, d + 1, Len(all)), all)
    BY <1>1, <2>1, LastOnes
  <2>4. Len(all) - d <= MaxSendQueue
    BY <1>1
  <2>5. QED
    BY <2>2, <2>3, <2>4, Zenon
<1>4. QED
  BY <1>2, <1>3

-----------------------------------------------------------------------------
(* Type correctness.                                                          *)
LEMMA InitInv == Init => IInv
<1> SUFFICES ASSUME Init PROVE IInv
  OBVIOUS
<1> USE Limits
<1>0. <<>> \in Seq(Messages) /\ <<>> \in Seq(1..MaxSends) /\ Len(<<>>) = 0
  OBVIOUS
<1>1. EmptyRing \in Rings
  BY <1>0 DEF EmptyRing, Rings
<1>2. Types
  <2>1. shm \in Sections
    BY <1>1 DEF Init, Fresh, Sections
  <2>2. srv \in ServerWorkers
    BY DEF Init, ServerWorkers
  <2>3. cli \in [Clients -> ClientWorkers]
    BY <1>0 DEF Init, Blank, ClientWorkers
  <2>4. QED
    BY <2>1, <2>2, <2>3 DEF Init, Types
<1>3. /\ shm.c2s = EmptyRing /\ shm.c2s.msgs = <<>> /\ shm.c2s.count = 0
      /\ ~shm.connect_ack /\ ~shm.disconnect
      /\ srv.pc = "wait" /\ sent = 0
      /\ \A k \in Clients : cli[k].pc = "idle" /\ cli[k].queue = <<>> /\ cli[k].cmds = <<>>
                            /\ got[k] = 0
  BY DEF Init, Fresh, EmptyRing, Blank
<1>4. TypeOK
  BY <1>0, <1>2, <1>3 DEF TypeOK
<1>5. Working /\ OneToken
  BY <1>3 DEF Working, OneToken, SomeoneUp, Disconnecting, Up
<1>6. OneGeneration /\ Counts
  BY <1>0, <1>3 DEF OneGeneration, Counts, Up, Discarding, One
<1>7. Ordered
  <2>1. \A k \in Clients : Waiting(k) = <<>>
    BY <1>3 DEF Waiting
  <2>2. QED
    BY <1>3, <2>1 DEF Ordered, InRing, InHand, OfClient, Increasing, Above
<1>8. QED
  BY <1>4, <1>5, <1>6, <1>7 DEF IInv

LEMMA TypesStep == Types /\ Working /\ [Next]_vars => Types'
<1> SUFFICES ASSUME Types, Working, [Next]_vars PROVE Types'
  OBVIOUS
<1>a. /\ shm \in Sections /\ srv \in ServerWorkers /\ cli \in [Clients -> ClientWorkers]
      /\ got \in [Clients -> 0..MaxSends] /\ sent \in 0..MaxSends
      /\ fault \in {"none", "corrupt", "torn"} \cup Faults
  BY DEF Types
<1>b. shm.c2s \in Rings
  BY <1>a DEF Sections
<1>c. \A k \in Clients, w \in ClientWorkers : [cli EXCEPT ![k] = w] \in [Clients -> ClientWorkers]
  BY <1>a
<1>d. \A k \in Clients : cli[k] \in ClientWorkers
  BY <1>a
<1>e. \A pc \in {"idle", "open", "done", "dead"} : Blank(pc) \in ClientWorkers
  BY Limits DEF Blank, ClientWorkers
<1>f. \A pc \in {"wait", "ready", "pass", "top", "read", "take", "took", "pause", "end", "done"} :
        [srv EXCEPT !.pc = pc] \in ServerWorkers
  BY <1>a DEF ServerWorkers
<1>g. \A k \in Clients, pc \in {"idle", "open", "req", "wait", "top", "send", "discard"} :
        [cli[k] EXCEPT !.pc = pc] \in ClientWorkers
  BY <1>d DEF ClientWorkers
<1>h. \A k \in Clients, pc \in {"idle", "open", "req", "wait", "top", "send", "discard"} :
        ClientMoves(k, pc) => cli' \in [Clients -> ClientWorkers]
  <2> SUFFICES ASSUME NEW k \in Clients,
                      NEW pc \in {"idle", "open", "req", "wait", "top", "send", "discard"},
                      ClientMoves(k, pc)
               PROVE  cli' \in [Clients -> ClientWorkers]
    OBVIOUS
  <2>1. cli' = [cli EXCEPT ![k] = [cli[k] EXCEPT !.pc = pc]]
    BY DEF ClientMoves
  <2>2. [cli[k] EXCEPT !.pc = pc] \in ClientWorkers
    BY <1>g
  <2>3. QED
    BY <1>c, <2>1, <2>2
<1>i. 0 \in 0..RecvBatch /\ RecvBatch \in 0..RecvBatch /\ 0 \in 0..(Generations - 1)
  BY Limits
<1>1. CASE ServerStops
  BY <1>1, <1>a DEF ServerStops, Types, ServerWorkers
<1>2. CASE TakeRequest
  <2> DEFINE x == [shm EXCEPT !.connect_req = FALSE]
  <2>1. x \in Sections
    BY <1>a, SectionOps
  <2>2. ServerReady(ResetRings(x)) \in Sections
    BY <2>1, SectionOps
  <2>3. shm' \in {x, ServerReady(ResetRings(x))}
    BY <1>2 DEF TakeRequest
  <2>4. srv' \in ServerWorkers
    BY <1>2, <1>a, <1>f DEF TakeRequest, ServerMoves, Waits
  <2>5. QED
    BY <1>2, <1>a, <2>1, <2>2, <2>3, <2>4 DEF TakeRequest, Types
<1>3. CASE AckRequest
  <2>1. Acknowledge(ClientReady(shm)) \in Sections
    BY <1>a, SectionOps
  <2>2. QED
    BY <1>3, <1>a, <1>f, <2>1 DEF AckRequest, ServerMoves, Types
<1>4. CASE Pass
  <2>1. srv' \in ServerWorkers
    BY <1>4, <1>a, <1>i DEF Pass, ServerWorkers
  <2>2. QED
    BY <1>4, <1>a, <2>1 DEF Pass, Types
<1>j. Drains => srv' \in ServerWorkers
  BY <1>a, <1>i DEF Drains, ServerWorkers
<1>5. CASE Read \/ LookAgain \/ Take \/ TakeNothing
  <2>1. CASE Read \/ LookAgain
    BY <2>1, <1>a, <1>f, <1>j DEF Read, LookAgain, ServerMoves, Types
  <2>2. CASE Take
    <3>1. Taken(shm.c2s) \in Rings /\ Head(shm.c2s.msgs) \in Messages
      BY <2>2, <1>b, RingOps DEF Take, Phantom
    <3>2. srv' \in ServerWorkers
      BY <2>2, <1>a, <3>1 DEF Take, ServerWorkers
    <3>3. shm' \in Sections
      BY <2>2, <1>a, <3>1, SectionOps DEF Take
    <3>4. QED
      BY <2>2, <1>a, <3>2, <3>3 DEF Take, Types
  <2>3. CASE TakeNothing
    <3>1. srv' \in ServerWorkers
      BY <2>3, <1>a DEF TakeNothing, ServerWorkers
    <3>2. QED
      BY <2>3, <1>a, <3>1 DEF TakeNothing, Types
  <2>4. QED
    BY <1>5, <2>1, <2>2, <2>3
<1>6. CASE OnMessage /\ Followed
  <2>1. Subtracted(shm.c2s) \in Rings
    BY <1>b, RingOps
  <2>2. shm' \in Sections
    BY <1>6, <1>a, <2>1, SectionOps DEF OnMessage
  <2>3. srv.hand \in Messages /\ srv.left >= 1
    BY <1>6 DEF OnMessage, Working, Followed
  <2>4. srv.left - 1 \in 0..RecvBatch
    BY <1>a, <2>3, Limits DEF ServerWorkers
  <2>5. srv' \in ServerWorkers
    BY <1>6, <1>a, <2>4 DEF OnMessage, ServerWorkers
  <2>6. got' \in [Clients -> 0..MaxSends]
    BY <1>6, <1>a, <2>3, Limits DEF OnMessage, Messages
  <2>7. QED
    BY <1>6, <1>a, <2>2, <2>5, <2>6 DEF OnMessage, Types
<1>7. CASE ReadCorrupted
  <2>1. shm' \in Sections
    BY <1>7, <1>a, SectionOps DEF ReadCorrupted
  <2>2. srv' \in ServerWorkers
    BY <1>7, <1>a, <1>i DEF ReadCorrupted, Waits, ServerWorkers
  <2>3. QED
    BY <1>7, <1>a, <2>1, <2>2 DEF ReadCorrupted, Types
<1>8. CASE Wake
  <2>1. [shm EXCEPT !.disconnect = FALSE] \in Sections /\ [shm EXCEPT !.c2s.data = FALSE] \in Sections
    BY <1>a, SectionOps
  <2>2. MarkDisconnected([shm EXCEPT !.disconnect = FALSE]) \in Sections
    BY <2>1, SectionOps
  <2>3. shm' \in Sections /\ srv' \in ServerWorkers
    BY <1>8, <1>f, <2>1, <2>2 DEF Wake, ServerMoves, Waits
  <2>4. QED
    BY <1>8, <1>a, <2>3 DEF Wake, Types
<1>9. CASE ServerEnds
  <2>1. shm' \in Sections /\ srv' \in ServerWorkers
    BY <1>9, <1>a, <1>f, SectionOps DEF ServerEnds, ServerMoves
  <2>2. QED
    BY <1>9, <1>a, <2>1 DEF ServerEnds, Types
<1>10. ASSUME NEW k \in Clients, Start(k) \/ Send(k) \/ Stop(k) \/ DropHandle(k) \/ Crash(k)
       PROVE  Types'
  <2>1. CASE Start(k)
    BY <2>1, <1>a, <1>c, <1>g DEF Start, ClientMoves, Types
  <2>2. CASE Send(k)
    <3>1. sent + 1 \in 1..MaxSends /\ sent' \in 0..MaxSends
      BY <2>2, <1>a, Limits DEF Send
    <3>2. cli[k].cmds \in Seq(1..MaxSends)
      BY <1>d DEF ClientWorkers
    <3>3. Append(cli[k].cmds, sent + 1) \in Seq(1..MaxSends)
      BY <3>1, <3>2
    <3>4. [cli[k] EXCEPT !.cmds = Append(@, sent + 1)] \in ClientWorkers
      BY <1>d, <3>3 DEF ClientWorkers
    <3>5. cli' \in [Clients -> ClientWorkers]
      BY <2>2, <1>c, <3>4 DEF Send
    <3>6. QED
      BY <2>2, <1>a, <3>1, <3>5 DEF Send, Types
  <2>3. CASE Stop(k)
    <3>1. [cli[k] EXCEPT !.asked = "stop", !.shutdown = TRUE] \in ClientWorkers
      BY <1>d DEF ClientWorkers
    <3>2. cli' = [cli EXCEPT ![k] = [cli[k] EXCEPT !.asked = "stop", !.shutdown = TRUE]]
      BY <2>3 DEF Stop
    <3>3. QED
      BY <2>3, <1>a, <1>c, <3>1, <3>2 DEF Stop, Types
  <2>4. CASE DropHandle(k)
    <3>1. [cli[k] EXCEPT !.asked = "drop", !.running = FALSE] \in ClientWorkers
      BY <1>d DEF ClientWorkers
    <3>2. cli' = [cli EXCEPT ![k] = [cli[k] EXCEPT !.asked = "drop", !.running = FALSE]]
      BY <2>4 DEF DropHandle
    <3>3. QED
      BY <2>4, <1>a, <1>c, <3>1, <3>2 DEF DropHandle, Types
  <2>5. CASE Crash(k)
    BY <2>5, <1>a, <1>c, <1>e DEF Crash, Types
  <2>6. QED
    BY <1>10, <2>1, <2>2, <2>3, <2>4, <2>5
<1>11. ASSUME NEW k \in Clients, Open(k) \/ SetRequest(k) \/ TakeAck(k) \/ TimesOut(k) \/ TimesOutEarly(k)
       PROVE  Types'
  <2>1. CASE Open(k)
    <3>1. shm' \in Sections
      BY <2>1, <1>a, SectionOps DEF Open
    <3>2. cli' \in [Clients -> ClientWorkers]
      BY <2>1, <1>c, <1>e, <1>h DEF Open
    <3>3. QED
      BY <2>1, <1>a, <3>1, <3>2 DEF Open, Types
  <2>2. CASE SetRequest(k)
    BY <2>2, <1>a, <1>c, <1>g, SectionOps DEF SetRequest, ClientMoves, Types
  <2>3. CASE TakeAck(k)
    <3> DEFINE x == [shm EXCEPT !.connect_ack = FALSE]
    <3>1. x \in Sections /\ GiveUp(x) \in Sections /\ x.generation \in 0..(Generations - 1)
      <4>1. x \in Sections
        BY <1>a, SectionOps
      <4>2. QED
        BY <4>1, SectionOps DEF Sections
    <3>2. [cli[k] EXCEPT !.pc = "top", !.generation = x.generation] \in ClientWorkers
      BY <1>d, <3>1 DEF ClientWorkers
    <3>3. \/ shm' = x /\ cli' = [cli EXCEPT ![k] = [cli[k] EXCEPT !.pc = "top", !.generation = x.generation]]
          \/ shm' = GiveUp(x) /\ cli' = [cli EXCEPT ![k] = [cli[k] EXCEPT !.pc = "open"]]
      BY <2>3 DEF TakeAck, Taking, ClientMoves
    <3>4. shm' \in Sections /\ cli' \in [Clients -> ClientWorkers]
      BY <1>c, <1>g, <3>1, <3>2, <3>3
    <3>5. QED
      BY <2>3, <1>a, <3>4 DEF TakeAck, Taking, Types
  <2>4. CASE TimesOut(k)
    BY <2>4, <1>a, <1>c, <1>g, SectionOps DEF TimesOut, AckTimeout, ClientMoves, Types
  <2>5. CASE TimesOutEarly(k)
    BY <2>5, <1>a, <1>c, <1>g, SectionOps DEF TimesOutEarly, AckTimeout, ClientMoves, Types
  <2>6. QED
    BY <1>11, <2>1, <2>2, <2>3, <2>4, <2>5
<1>k. \A k \in Clients, pc \in {"write", "pause"}, b \in BOOLEAN, c \in BOOLEAN :
        [cli[k] EXCEPT !.pc = pc, !.tight = b, !.raced = c] \in ClientWorkers
  BY <1>d DEF ClientWorkers
<1>l. \A k \in Clients : Looks(k) => cli' \in [Clients -> ClientWorkers]
  <2> SUFFICES ASSUME NEW k \in Clients, Looks(k) PROVE cli' \in [Clients -> ClientWorkers]
    OBVIOUS
  <2>1. PICK b \in BOOLEAN : cli' = [cli EXCEPT ![k] = [cli[k] EXCEPT !.pc = "write", !.tight = b]]
    BY <1>b, RingOps DEF Looks
  <2>2. [cli[k] EXCEPT !.pc = "write", !.tight = b] \in ClientWorkers
    BY <1>d DEF ClientWorkers
  <2>3. QED
    BY <1>c, <2>1, <2>2
<1>12. ASSUME NEW k \in Clients, ClientPass(k) \/ Load(k) \/ Write(k) \/ Discard(k) \/ Discount(k)
       PROVE  Types'
  <2>a. cli[k].queue \in Seq(1..MaxSends) /\ cli[k].cmds \in Seq(1..MaxSends)
    BY <1>d DEF ClientWorkers
  <2>1. CASE ClientPass(k)
    <3>1. Enqueue(cli[k].queue, cli[k].cmds) \in Seq(1..MaxSends) /\ <<>> \in Seq(1..MaxSends)
      BY <2>a, EnqueueFacts
    <3>2. Drained(cli[k], "send") \in ClientWorkers
      BY <1>d, <3>1 DEF Drained, ClientWorkers
    <3>3. QED
      BY <2>1, <1>a, <1>c, <3>2 DEF ClientPass, Types
  <2>2. CASE Load(k)
    BY <2>2, <1>a, <1>l DEF Load, Types
  <2>3. CASE Write(k)
    <3>1. cli[k].queue # <<>>
      BY <2>3 DEF Write, Writing, Working
    <3>2. Head(cli[k].queue) \in 1..MaxSends /\ Tail(cli[k].queue) \in Seq(1..MaxSends)
      BY <2>a, <3>1, HeadTailProperties
    <3>3. cli[k].generation \in 0..(Generations - 1) /\ WasEmpty(shm.c2s) \in BOOLEAN
      BY <1>b, <1>d, RingOps DEF ClientWorkers
    <3> DEFINE w == [cli[k] EXCEPT !.pc = "signal", !.queue = Tail(cli[k].queue),
                                   !.was_empty = WasEmpty(shm.c2s)]
    <3>4. Message(k) \in Messages
      BY <3>2, <3>3 DEF Message, Messages
    <3>5. Counted(shm.c2s, Message(k)) \in Rings
      BY <1>b, <3>4, RingOps
    <3>6. shm' \in Sections
      BY <2>3, <1>a, <3>5, SectionOps DEF Write, Writing
    <3>7. w \in ClientWorkers
      BY <1>d, <3>2, <3>3 DEF ClientWorkers
    <3>8. cli' = [cli EXCEPT ![k] = w]
      BY <2>3 DEF Write, Writing
    <3>9. cli' \in [Clients -> ClientWorkers]
      BY <1>c, <3>7, <3>8
    <3>10. QED
      BY <2>3, <1>a, <3>6, <3>9 DEF Write, Writing, Types
  <2>4. CASE Discard(k)
    <3>1. Taken(shm.c2s) \in Rings
      BY <2>4, <1>b, RingOps DEF Discard, Discards
    <3>2. shm' \in Sections
      BY <2>4, <1>a, <3>1, SectionOps DEF Discard
    <3>3. QED
      BY <2>4, <1>a, <1>h, <3>2 DEF Discard, Types
  <2>5. CASE Discount(k)
    <3>1. Subtracted(shm.c2s) \in Rings
      BY <1>b, RingOps
    <3>2. shm' \in Sections
      BY <2>5, <1>a, <3>1, SectionOps DEF Discount
    <3>3. QED
      BY <2>5, <1>a, <1>l, <3>2 DEF Discount, Types
  <2>6. QED
    BY <1>12, <2>1, <2>2, <2>3, <2>4, <2>5
<1>13. ASSUME NEW k \in Clients, \/ Refuse(k) \/ Signal(k) \/ ClientWake(k) \/ ClientReadCorrupted(k)
                                 \/ DelayEnds(k) \/ ClientLeaves(k)
       PROVE  Types'
  <2>1. [cli[k] EXCEPT !.pc = "delay", !.generation = 0, !.raced = FALSE] \in ClientWorkers
    BY <1>d, <1>i DEF ClientWorkers
  <2>2. Disconnected(k) => cli' \in [Clients -> ClientWorkers]
    BY <1>c, <2>1 DEF Disconnected
  <2>3. CASE ClientWake(k)
    <3>1. shm' \in Sections
      BY <2>3, <1>a, SectionOps DEF ClientWake, Waking
    <3>2. cli' \in [Clients -> ClientWorkers]
      BY <2>3, <1>h, <2>2 DEF ClientWake, Waking
    <3>3. QED
      BY <2>3, <1>a, <3>1, <3>2 DEF ClientWake, Waking, Types
  <2>4. CASE ClientReadCorrupted(k)
    BY <2>4, <1>a, <2>2 DEF ClientReadCorrupted, Types
  <2>5. CASE ClientLeaves(k) \/ DelayEnds(k)
    BY <2>5, <1>a, <1>c, <1>e, <1>h, SectionOps DEF ClientLeaves, Leaving, DelayEnds, Types
  <2>6. CASE Refuse(k)
    <3> DEFINE b == cli[k].tight \/ srv.pc = "took"
    <3>1. b \in BOOLEAN
      BY <1>d, Zenon DEF ClientWorkers
    <3>2. cli' = [cli EXCEPT ![k] = [cli[k] EXCEPT !.pc = "pause", !.tight = FALSE, !.raced = b]]
      BY <2>6 DEF Refuse
    <3> HIDE DEF b
    <3>3. [cli[k] EXCEPT !.pc = "pause", !.tight = FALSE, !.raced = b] \in ClientWorkers
      BY <1>k, <3>1
    <3>4. QED
      BY <2>6, <1>a, <1>c, <3>2, <3>3 DEF Refuse, Types
  <2>7. CASE Signal(k)
    <3>1. Signalled(shm.c2s, cli[k].was_empty) \in Rings
      BY <1>b, <1>d, RingOps DEF ClientWorkers
    <3>2. shm' \in Sections
      BY <2>7, <1>a, <3>1, SectionOps DEF Signal
    <3>3. [cli[k] EXCEPT !.pc = "send", !.tight = FALSE, !.was_empty = FALSE] \in ClientWorkers
      BY <1>d DEF ClientWorkers
    <3>4. QED
      BY <2>7, <1>a, <1>c, <3>2, <3>3 DEF Signal, Types
  <2>8. QED
    BY <1>13, <2>3, <2>4, <2>5, <2>6, <2>7
<1>14. CASE UNCHANGED vars
  BY <1>14, <1>a DEF vars, Types
<1>15. QED
  BY <1>1, <1>2, <1>3, <1>4, <1>5, <1>6, <1>7, <1>8, <1>9, <1>10, <1>11, <1>12, <1>13, <1>14
  DEF Next, ServerStep, ClientStep

-----------------------------------------------------------------------------
(* What the parts of the invariant need from a step that does not change      *)
(* their subject.                                                             *)
KeepsToken ==
  /\ \A j \in Clients : Up(j)' => Up(j)
  /\ shm'.connect_ack => shm.connect_ack
  /\ shm'.disconnect => shm.disconnect
  /\ srv'.pc \in {"wait", "ready", "end"} => srv.pc \in {"wait", "ready", "end"}
  /\ srv.pc = "done" => srv'.pc = "done"
KeepsGeneration ==
  /\ shm'.generation = shm.generation
  /\ \A j \in Clients : Up(j)' => Up(j) /\ cli'[j].generation = cli[j].generation
KeepsRing == shm'.c2s.msgs = shm.c2s.msgs /\ shm'.c2s.count = shm.c2s.count
KeepsLine == Suffix(shm'.c2s.msgs, shm.c2s.msgs)
KeepsHand ==
  srv'.pc = "took" /\ fault' # "torn" => srv.pc = "took" /\ srv'.hand = srv.hand
KeepsWriters ==
  \A j \in Clients :
    /\ cli'[j].pc = "discard" => cli[j].pc = "discard"
    /\ cli'[j].pc \in {"write", "discard"} =>
         cli[j].pc \in {"write", "discard"} \/ cli[j].queue # <<>>
KeepsBatch ==
  srv'.pc \in {"read", "take", "took"} =>
    srv.pc \in {"read", "take", "took"} /\ srv'.left = srv.left
KeepsQueues ==
  \A j \in Clients :
    \/ cli'[j].queue = cli[j].queue /\ cli'[j].cmds = cli[j].cmds
    \/ cli'[j].queue = <<>> /\ cli'[j].cmds = <<>> /\ cli'[j].pc \notin {"write", "discard"}
KeepsRecord == got' = got /\ sent' = sent
(* A ring that was not what it seemed is so for ever.                         *)
KeepsFault == (Sound' => Sound) /\ (fault' # "torn" => fault # "torn")

LEMMA RingTypes ==
  ASSUME NEW x \in Sections
  PROVE  /\ x.c2s.count \in Nat /\ x.c2s.msgs \in Seq(Messages) /\ Len(x.c2s.msgs) \in Nat
         /\ \A i \in DOMAIN x.c2s.msgs :
              x.c2s.msgs[i] \in Messages /\ x.c2s.msgs[i].from \in Clients /\ x.c2s.msgs[i].id \in Nat
<1>1. x.c2s.count \in Nat /\ x.c2s.msgs \in Seq(Messages)
  BY DEF Sections, Rings
<1>2. \A i \in DOMAIN x.c2s.msgs : x.c2s.msgs[i] \in Messages
  BY <1>1
<1>3. \A m \in Messages : m.from \in Clients /\ m.id \in Nat
  BY Limits DEF Messages
<1>4. QED
  BY <1>1, <1>2, <1>3

LEMMA TokenKept == OneToken /\ KeepsToken /\ KeepsFault => OneToken'
  BY DEF OneToken, KeepsToken, KeepsFault, SomeoneUp, Disconnecting

LEMMA GenerationKept ==
  ASSUME Types, Types', OneGeneration, KeepsGeneration, KeepsLine, KeepsHand, KeepsFault
  PROVE  OneGeneration'
<1> SUFFICES ASSUME Sound' PROVE OneGeneration'
  BY DEF OneGeneration
<1> DEFINE msgs == shm.c2s.msgs
<1>1. PICK d \in Nat : Len(msgs) = Len(msgs') + d /\ \A i \in DOMAIN msgs' : msgs'[i] = msgs[i + d]
  BY DEF KeepsLine, Suffix
<1>2. \A i \in DOMAIN msgs' : i + d \in DOMAIN msgs
  <2>1. msgs \in Seq(Messages) /\ msgs' \in Seq(Messages)
    BY RingTypes DEF Types
  <2> HIDE DEF msgs
  <2>2. QED
    BY <1>1, <2>1
<1>3. \A i \in DOMAIN msgs' : msgs'[i].generation = shm'.generation
  BY <1>1, <1>2 DEF OneGeneration, KeepsGeneration, KeepsFault
<1>4. QED
  BY <1>3 DEF OneGeneration, KeepsGeneration, KeepsHand, KeepsFault, Sound

LEMMA CountsKept ==
  Types /\ Types' /\ Counts /\ KeepsRing /\ KeepsHand /\ KeepsWriters /\ KeepsFault => Counts'
<1> SUFFICES ASSUME Types, Types', Counts, KeepsRing, KeepsHand, KeepsWriters, KeepsFault,
                    Sound'
             PROVE  Counts'
  BY DEF Counts
<1>1. shm.c2s.count \in Nat /\ Len(shm.c2s.msgs) \in Nat
  BY RingTypes DEF Types
<1>2. shm.c2s.count >= Len(shm.c2s.msgs) + One(srv.pc = "took") + One(Discarding)
  BY DEF Counts, KeepsFault
<1>3. One(srv.pc = "took")' <= One(srv.pc = "took") /\ One(Discarding)' <= One(Discarding)
  BY DEF KeepsHand, KeepsWriters, Discarding, Sound, One
<1>4. /\ One(srv.pc = "took") \in Nat /\ One(srv.pc = "took")' \in Nat
      /\ One(Discarding) \in Nat /\ One(Discarding)' \in Nat
  BY DEF One
<1>5. shm'.c2s.count >= Len(shm'.c2s.msgs) + One(srv.pc = "took")' + One(Discarding)'
  BY <1>1, <1>2, <1>3, <1>4 DEF KeepsRing
<1>6. QED
  BY <1>5 DEF Counts

(* A suffix of an increasing sequence is increasing, with the same bounds.    *)
LEMMA SuffixKeeps ==
  ASSUME NEW s \in Seq(Nat), NEW t \in Seq(Nat), Suffix(t, s)
  PROVE  /\ Increasing(s) => Increasing(t)
         /\ \A n \in Nat : Above(n, s) => Above(n, t)
         /\ \A n \in Nat : (\A i \in DOMAIN s : s[i] <= n) => \A i \in DOMAIN t : t[i] <= n
<1>1. PICK d \in Nat : Len(s) = Len(t) + d /\ \A i \in DOMAIN t : t[i] = s[i + d]
  BY DEF Suffix
<1>2. \A i \in DOMAIN t : i \in Nat /\ i + d \in DOMAIN s
  BY <1>1
<1>3. Increasing(s) => Increasing(t)
  BY <1>1, <1>2 DEF Increasing
<1>4. \A n \in Nat : Above(n, s) => Above(n, t)
  BY <1>1, <1>2 DEF Above
<1>5. QED
  BY <1>1, <1>2, <1>3, <1>4

LEMMA WaitingTypes ==
  ASSUME NEW w \in ClientWorkers
  PROVE  w.queue \o w.cmds \in Seq(1..MaxSends) /\ w.queue \o w.cmds \in Seq(Nat)
<1>1. w.queue \in Seq(1..MaxSends) /\ w.cmds \in Seq(1..MaxSends)
  BY DEF ClientWorkers
<1>2. w.queue \o w.cmds \in Seq(1..MaxSends)
  BY <1>1, ConcatProperties
<1>3. 1..MaxSends \subseteq Nat
  BY Limits
<1>4. QED
  BY <1>2, <1>3, SeqMonotonic

LEMMA SuffixOfItself ==
  ASSUME NEW S, NEW s \in Seq(S)
  PROVE  Suffix(s, s) /\ Suffix(<<>>, s)
<1>1. Len(s) \in Nat /\ Len(s) = Len(s) + 0 /\ \A i \in DOMAIN s : s[i] = s[i + 0]
  OBVIOUS
<1>2. Len(s) = Len(<<>>) + Len(s) /\ \A i \in DOMAIN <<>> : <<>>[i] = s[i + Len(s)]
  BY <1>1
<1>3. QED
  BY <1>1, <1>2 DEF Suffix

LEMMA LineKept == ASSUME Types, KeepsRing PROVE KeepsLine
<1>1. shm.c2s.msgs \in Seq(Messages)
  BY RingTypes DEF Types
<1>2. QED
  BY <1>1, SuffixOfItself DEF KeepsRing, KeepsLine

LEMMA OrderKept ==
  ASSUME Types, Types', Working, Ordered, KeepsLine, KeepsHand, KeepsRecord, KeepsFault,
         \A k \in Clients : Suffix(Waiting(k)', Waiting(k))
  PROVE  Ordered'
<1> DEFINE msgs == shm.c2s.msgs
<1>a. msgs \in Seq(Messages) /\ msgs' \in Seq(Messages)
  BY RingTypes DEF Types
<1>b. PICK d \in Nat : Len(msgs) = Len(msgs') + d /\ \A i \in DOMAIN msgs' : msgs'[i] = msgs[i + d]
  BY DEF KeepsLine, Suffix
<1>c. \A i \in DOMAIN msgs' : i \in Nat /\ i + d \in DOMAIN msgs
  <2> HIDE DEF msgs
  <2>1. QED
    BY <1>a, <1>b
<1>1. InRing'
  <2>1. ASSUME NEW i \in DOMAIN msgs', NEW j \in DOMAIN msgs', i < j, msgs'[i].from = msgs'[j].from
        PROVE  msgs'[i].id < msgs'[j].id
    <3>1. i + d \in DOMAIN msgs /\ j + d \in DOMAIN msgs /\ i + d < j + d
      BY <1>c, <2>1
    <3>2. msgs'[i] = msgs[i + d] /\ msgs'[j] = msgs[j + d]
      BY <1>b
    <3>3. QED
      BY <2>1, <3>1, <3>2 DEF Ordered, InRing
  <2>2. QED
    BY <2>1 DEF InRing
<1>2. sent \in Nat /\ \A k \in Clients : got[k] \in Nat
  BY Limits DEF Types
<1>3. \A i \in DOMAIN shm.c2s.msgs : shm.c2s.msgs[i].id \in Nat
  BY RingTypes DEF Types
<1>4. ASSUME NEW k \in Clients
      PROVE  /\ Increasing(Waiting(k)) => Increasing(Waiting(k)')
             /\ \A n \in Nat : Above(n, Waiting(k)) => Above(n, Waiting(k)')
             /\ \A n \in Nat : (\A i \in DOMAIN Waiting(k) : Waiting(k)[i] <= n)
                  => \A i \in DOMAIN Waiting(k)' : Waiting(k)'[i] <= n
  <2>0. cli[k] \in ClientWorkers /\ cli'[k] \in ClientWorkers
    BY DEF Types
  <2>1. Waiting(k) \in Seq(Nat) /\ Waiting(k)' \in Seq(Nat)
    BY <2>0, WaitingTypes DEF Waiting
  <2>2. QED
    BY <2>1, SuffixKeeps
<1>5. ASSUME srv'.pc = "took", fault' # "torn" PROVE InHand'
  <2>1. srv.pc = "took" /\ srv'.hand = srv.hand /\ fault # "torn"
    BY <1>5 DEF KeepsHand, KeepsFault
  <2>2. srv.hand \in Messages
    BY <2>1 DEF Working
  <2>3. srv.hand.from \in Clients /\ srv.hand.id \in Nat
    BY <2>2, Limits DEF Messages
  <2>4. Above(srv.hand.id, Waiting(srv.hand.from)')
    BY <1>4, <2>1, <2>3 DEF Ordered, InHand
  <2>5. ASSUME NEW i \in DOMAIN msgs', msgs'[i].from = srv.hand.from PROVE srv.hand.id < msgs'[i].id
    BY <1>b, <1>c, <2>1, <2>5 DEF Ordered, InHand
  <2>6. QED
    BY <2>1, <2>4, <2>5 DEF Ordered, InHand, KeepsRecord
<1>6. ASSUME NEW k \in Clients PROVE OfClient(k)'
  <2>1. OfClient(k)
    BY DEF Ordered
  <2>2. Increasing(Waiting(k)') /\ Above(got[k], Waiting(k)')
    BY <1>2, <1>4, <2>1 DEF OfClient
  <2>3. \A i \in DOMAIN Waiting(k)' : Waiting(k)'[i] <= sent
    BY <1>2, <1>4, <2>1 DEF OfClient
  <2>4. ASSUME NEW i \in DOMAIN msgs', msgs'[i].from = k
        PROVE  /\ got[k] < msgs'[i].id /\ msgs'[i].id <= sent
               /\ Above(msgs'[i].id, Waiting(k)')
    <3>1. i + d \in DOMAIN msgs /\ msgs'[i] = msgs[i + d]
      BY <1>b, <1>c
    <3>2. QED
      BY <1>3, <1>4, <2>1, <2>4, <3>1 DEF OfClient
  <2>5. QED
    BY <2>1, <2>2, <2>3, <2>4 DEF OfClient, KeepsRecord
<1>7. QED
  BY <1>1, <1>5, <1>6 DEF Ordered, InHand

(* Where queue and commands stay, or are given up, the order stays.           *)
LEMMA QueuesKept ==
  ASSUME Types, Types', KeepsQueues
  PROVE  \A k \in Clients : Suffix(Waiting(k)', Waiting(k))
<1> SUFFICES ASSUME NEW k \in Clients PROVE Suffix(Waiting(k)', Waiting(k))
  OBVIOUS
<1>1. Waiting(k)' = Waiting(k) \/ Waiting(k)' = <<>>
  <2>1. <<>> \o <<>> = <<>>
    OBVIOUS
  <2>2. QED
    BY <2>1 DEF KeepsQueues, Waiting
<1>2. Waiting(k) \in Seq(Nat)
  <2>1. cli[k] \in ClientWorkers
    BY DEF Types
  <2>2. QED
    BY <2>1, WaitingTypes DEF Waiting
<1>3. QED
  BY <1>1, <1>2, SuffixOfItself

(* The rest of TypeOK and of Working.                                         *)
ShortQueues == \A k \in Clients : Len(cli[k].queue) <= MaxSendQueue
RingBound   == Sound => shm.c2s.count <= RingMax

LEMMA QueuesShort ==
  ASSUME ShortQueues, KeepsQueues PROVE ShortQueues'
<1>1. Len(<<>>) <= MaxSendQueue
  BY Limits
<1>2. QED
  BY <1>1 DEF ShortQueues, KeepsQueues

LEMMA WorkingKept ==
  ASSUME Working, KeepsBatch, KeepsHand, KeepsQueues, KeepsWriters, KeepsFault PROVE Working'
  BY DEF Working, KeepsBatch, KeepsHand, KeepsQueues, KeepsWriters, KeepsFault

LEMMA BoundKept == RingBound /\ KeepsRing /\ KeepsFault => RingBound'
  BY DEF RingBound, KeepsRing, KeepsFault

(* The invariant after a step, from its parts.                                *)
LEMMA Assembled ==
  Types /\ ShortQueues /\ RingBound /\ Working /\ OneToken /\ OneGeneration /\ Counts /\ Ordered
    => IInv
<1> SUFFICES ASSUME Types, ShortQueues, RingBound, Working, OneToken, OneGeneration, Counts, Ordered
             PROVE  IInv
  OBVIOUS
<1>1. Len(shm.c2s.msgs) \in Nat /\ shm.c2s.count \in Nat
  BY RingTypes DEF Types
<1>2. One(srv.pc = "took") \in Nat /\ One(Discarding) \in Nat
  BY DEF One
<1>3. Sound => Len(shm.c2s.msgs) <= shm.c2s.count
  BY <1>1, <1>2 DEF Counts
<1>4. TypeOK
  BY <1>3 DEF TypeOK, ShortQueues, RingBound
<1>5. QED
  BY <1>4 DEF IInv

(* A step that keeps everything but the token, and one that keeps that too.   *)
Calm ==
  /\ KeepsFault /\ KeepsGeneration /\ KeepsRing /\ KeepsHand
  /\ KeepsWriters /\ KeepsBatch /\ KeepsQueues /\ KeepsRecord
Quiet == Calm /\ KeepsToken

LEMMA Parts ==
  IInv => /\ Types /\ ShortQueues /\ RingBound /\ Working /\ OneToken /\ OneGeneration
          /\ Counts /\ Ordered
  BY DEF IInv, TypeOK, ShortQueues, RingBound

LEMMA CalmKeeps ==
  ASSUME IInv, Types', Calm
  PROVE  ShortQueues' /\ RingBound' /\ Working' /\ OneGeneration' /\ Counts' /\ Ordered'
<1> USE DEF Calm
<1>1. ShortQueues' /\ RingBound' /\ Working'
  BY Parts, QueuesShort, BoundKept, WorkingKept
<1>2. OneGeneration' /\ Counts'
  BY Parts, LineKept, GenerationKept, CountsKept
<1>3. Ordered'
  BY Parts, LineKept, QueuesKept, OrderKept
<1>4. QED
  BY <1>1, <1>2, <1>3

LEMMA QuietKeeps ==
  ASSUME IInv, Types', Quiet PROVE IInv'
<1>1. ShortQueues' /\ RingBound' /\ Working' /\ OneGeneration' /\ Counts' /\ Ordered'
  BY CalmKeeps DEF Quiet
<1>2. OneToken'
  BY Parts, TokenKept DEF Quiet, Calm
<1>3. QED
  BY <1>1, <1>2, Assembled, PTL

-----------------------------------------------------------------------------
(* The steps that keep everything.                                            *)
KeepsClient(j) ==
  /\ Up(j)' => Up(j) /\ cli'[j].generation = cli[j].generation
  /\ cli'[j].pc = "discard" => cli[j].pc = "discard"
  /\ cli'[j].pc \in {"write", "discard"} =>
       cli[j].pc \in {"write", "discard"} \/ cli[j].queue # <<>>
  /\ \/ cli'[j].queue = cli[j].queue /\ cli'[j].cmds = cli[j].cmds
     \/ cli'[j].queue = <<>> /\ cli'[j].cmds = <<>> /\ cli'[j].pc \notin {"write", "discard"}
KeepsClients == \A j \in Clients : KeepsClient(j)

LEMMA ClientKept ==
  ASSUME NEW k \in Clients, NEW w, cli \in [Clients -> ClientWorkers],
         cli' = [cli EXCEPT ![k] = w], cli'[k] = w => KeepsClient(k)
  PROVE  KeepsClients
<1> SUFFICES ASSUME NEW j \in Clients PROVE KeepsClient(j)
  BY DEF KeepsClients
<1>1. CASE j = k
  BY <1>1
<1>2. CASE j # k
  <2>1. cli'[j] = cli[j]
    BY <1>2
  <2>2. QED
    BY <2>1 DEF KeepsClient, Up
<1>3. QED
  BY <1>1, <1>2

(* What a step owes that leaves the ring and the generation.                  *)
KeepsContents ==
  /\ shm'.generation = shm.generation
  /\ shm'.c2s.msgs = shm.c2s.msgs /\ shm'.c2s.count = shm.c2s.count
KeepsSection ==
  /\ KeepsContents
  /\ shm'.connect_ack => shm.connect_ack
  /\ shm'.disconnect => shm.disconnect
KeepsServer ==
  /\ srv'.pc \in {"read", "take", "took"} =>
       srv.pc \in {"read", "take", "took"} /\ srv'.left = srv.left
  /\ srv'.pc = "took" => srv.pc = "took" /\ srv'.hand = srv.hand

LEMMA CalmParts ==
  ASSUME KeepsContents, KeepsServer, KeepsClients, KeepsRecord, KeepsFault PROVE Calm
<1>1. KeepsGeneration
  BY DEF KeepsGeneration, KeepsContents, KeepsClients, KeepsClient
<1>2. KeepsRing /\ KeepsHand /\ KeepsBatch
  BY DEF KeepsRing, KeepsHand, KeepsBatch, KeepsContents, KeepsServer
<1>3. KeepsWriters /\ KeepsQueues
  BY DEF KeepsWriters, KeepsQueues, KeepsClients, KeepsClient
<1>4. QED
  BY <1>1, <1>2, <1>3 DEF Calm

LEMMA QuietParts ==
  ASSUME KeepsSection, KeepsServer, KeepsClients, KeepsRecord, KeepsFault,
         srv'.pc \in {"wait", "ready", "end"} => srv.pc \in {"wait", "ready", "end"},
         srv.pc = "done" => srv'.pc = "done"
  PROVE  Quiet
<1>1. Calm
  BY CalmParts DEF KeepsSection
<1>2. KeepsToken
  BY DEF KeepsToken, KeepsSection, KeepsClients, KeepsClient
<1>3. QED
  BY <1>1, <1>2 DEF Quiet

LEMMA SameParts ==
  /\ shm' = shm => KeepsSection
  /\ srv' = srv => KeepsServer
  /\ cli' = cli => KeepsClients
  BY DEF KeepsSection, KeepsContents, KeepsServer, KeepsClients, KeepsClient, Up

LEMMA QuietServer ==
  ASSUME IInv, \/ ServerStops
               \/ TakeRequest /\ shm.client_state # "HELLO"
               \/ Read \/ LookAgain
               \/ Wake /\ ~shm.disconnect
               \/ ServerEnds /\ srv.pc # "top"
  PROVE  Quiet
<1>1. shm \in Sections /\ srv \in ServerWorkers /\ shm.c2s \in Rings
  BY DEF IInv, TypeOK, Types, Sections
<1>2. CASE ServerStops
  <2>1. /\ KeepsServer
        /\ srv'.pc \in {"wait", "ready", "end"} => srv.pc \in {"wait", "ready", "end"}
        /\ srv.pc = "done" => srv'.pc = "done"
    BY <1>1, <1>2 DEF ServerStops, KeepsServer, ServerWorkers
  <2>2. QED
    BY <1>2, <2>1, SameParts, QuietParts DEF ServerStops, KeepsRecord, KeepsFault, Sound
<1>3. CASE TakeRequest /\ shm.client_state # "HELLO"
  <2>1. shm' = [shm EXCEPT !.connect_req = FALSE] /\ srv.pc = "wait" /\ srv'.pc \in {"wait", "end"}
    BY <1>1, <1>3 DEF TakeRequest, ServerMoves, Waits, Sections, ServerWorkers
  <2>2. KeepsSection /\ KeepsServer
    BY <1>1, <2>1 DEF KeepsSection, KeepsContents, KeepsServer, Sections
  <2>3. QED
    BY <1>3, <2>1, <2>2, SameParts, QuietParts DEF TakeRequest, KeepsRecord, KeepsFault, Sound
<1>4. CASE Read \/ LookAgain
  <2>1. /\ KeepsServer
        /\ srv'.pc \in {"wait", "ready", "end"} => srv.pc \in {"wait", "ready", "end"}
        /\ srv.pc = "done" => srv'.pc = "done"
    BY <1>1, <1>4 DEF Read, LookAgain, Drains, ServerMoves, KeepsServer, ServerWorkers
  <2>2. QED
    BY <1>4, <2>1, SameParts, QuietParts DEF Read, LookAgain, KeepsRecord, KeepsFault, Sound
<1>5. CASE Wake /\ ~shm.disconnect
  <2>1. /\ KeepsServer
        /\ srv'.pc \in {"wait", "ready", "end"} => srv.pc \in {"wait", "ready", "end"}
        /\ srv.pc = "done" => srv'.pc = "done"
    BY <1>1, <1>5 DEF Wake, ServerMoves, KeepsServer, ServerWorkers
  <2>2. KeepsSection
    BY <1>1, <1>5 DEF Wake, KeepsSection, KeepsContents, Sections, Rings
  <2>3. QED
    BY <1>5, <2>1, <2>2, SameParts, QuietParts DEF Wake, KeepsRecord, KeepsFault, Sound
<1>6. CASE ServerEnds /\ srv.pc # "top"
  <2>1. /\ KeepsServer
        /\ srv'.pc \in {"wait", "ready", "end"} => srv.pc \in {"wait", "ready", "end"}
        /\ srv.pc = "done" => srv'.pc = "done"
    BY <1>1, <1>6 DEF ServerEnds, ServerMoves, KeepsServer, ServerWorkers
  <2>2. KeepsSection
    BY <1>1, <1>6 DEF ServerEnds, DropServer, MarkDisconnected, KeepsSection, KeepsContents, Sections
  <2>3. QED
    BY <1>6, <2>1, <2>2, SameParts, QuietParts DEF ServerEnds, KeepsRecord, KeepsFault, Sound
<1>7. QED
  BY <1>2, <1>3, <1>4, <1>5, <1>6

LEMMA QuietClient ==
  ASSUME IInv, NEW k \in Clients,
         \/ Start(k) \/ Stop(k) \/ DropHandle(k) \/ Crash(k) \/ Open(k) \/ SetRequest(k)
         \/ TimesOut(k) \/ TimesOutEarly(k) \/ Load(k) \/ Refuse(k) \/ Signal(k)
         \/ ClientWake(k) \/ DelayEnds(k)
         \/ TakeAck(k) /\ shm.server_state # "READY"
  PROVE  Quiet
<1>1. shm \in Sections /\ cli \in [Clients -> ClientWorkers] /\ cli[k] \in ClientWorkers
  BY DEF IInv, TypeOK, Types
<1> DEFINE Moved(pc)  == [cli[k] EXCEPT !.pc = pc]
<1>2. ASSUME NEW pc \in {"idle", "open", "req", "wait"}, ClientMoves(k, pc) PROVE KeepsClients
  <2>1. cli' = [cli EXCEPT ![k] = Moved(pc)]
    BY <1>2 DEF ClientMoves
  <2>2. cli'[k] = Moved(pc) => KeepsClient(k)
    BY <1>1, <1>2 DEF KeepsClient, Up, ClientWorkers
  <2>3. QED
    BY <1>1, <2>1, <2>2, ClientKept
<1>3. ASSUME NEW pc, cli' = [cli EXCEPT ![k] = Blank(pc)], pc \in {"done", "dead"} PROVE KeepsClients
  <2>1. cli'[k] = Blank(pc) => KeepsClient(k)
    BY <1>1, <1>3 DEF KeepsClient, Up, Blank
  <2>2. QED
    BY <1>1, <1>3, <2>1, ClientKept
<1>4. CASE Start(k) \/ Crash(k) \/ DelayEnds(k)
  <2>1. KeepsClients
    BY <1>2, <1>3, <1>4 DEF Start, Crash, DelayEnds
  <2>2. QED
    BY <1>4, <2>1, SameParts, QuietParts 
    DEF Start, Crash, DelayEnds, KeepsRecord, KeepsFault, Sound
<1>5. CASE Stop(k)
  <2> DEFINE w == [cli[k] EXCEPT !.asked = "stop", !.shutdown = TRUE]
  <2>1. cli' = [cli EXCEPT ![k] = w]
    BY <1>5 DEF Stop
  <2>2. cli'[k] = w => KeepsClient(k)
    BY <1>1 DEF KeepsClient, Up, ClientWorkers
  <2>3. QED
    BY <1>1, <1>5, <2>1, <2>2, ClientKept, SameParts, QuietParts DEF Stop, KeepsRecord, KeepsFault, Sound
<1>6. CASE DropHandle(k)
  <2> DEFINE w == [cli[k] EXCEPT !.asked = "drop", !.running = FALSE]
  <2>1. cli' = [cli EXCEPT ![k] = w]
    BY <1>6 DEF DropHandle
  <2>2. cli'[k] = w => KeepsClient(k)
    BY <1>1 DEF KeepsClient, Up, ClientWorkers
  <2>3. QED
    BY <1>1, <1>6, <2>1, <2>2, ClientKept, SameParts, QuietParts DEF DropHandle, KeepsRecord, KeepsFault, Sound
<1>7. CASE Open(k)
  <2>1. KeepsClients
    BY <1>2, <1>3, <1>7 DEF Open
  <2>2. KeepsSection
    BY <1>1, <1>7 DEF Open, Hello, KeepsSection, KeepsContents, Sections
  <2>3. QED
    BY <1>7, <2>1, <2>2, SameParts, QuietParts DEF Open, KeepsRecord, KeepsFault, Sound
<1>8. CASE SetRequest(k)
  <2>1. KeepsClients
    BY <1>2, <1>8 DEF SetRequest
  <2>2. KeepsSection
    BY <1>1, <1>8 DEF SetRequest, Request, KeepsSection, KeepsContents, Sections
  <2>3. QED
    BY <1>8, <2>1, <2>2, SameParts, QuietParts DEF SetRequest, KeepsRecord, KeepsFault, Sound
<1>9. CASE TimesOut(k) \/ TimesOutEarly(k)
  <2>1. KeepsClients
    BY <1>2, <1>9 DEF TimesOut, TimesOutEarly, AckTimeout
  <2>2. KeepsSection
    BY <1>1, <1>9 DEF TimesOut, TimesOutEarly, AckTimeout, GiveUp, KeepsSection, KeepsContents, Sections
  <2>3. QED
    BY <1>9, <2>1, <2>2, SameParts, QuietParts
    DEF TimesOut, TimesOutEarly, AckTimeout, KeepsRecord, KeepsFault, Sound
<1>10. CASE ClientWake(k)
  <2>1. KeepsSection
    BY <1>1, <1>10 DEF ClientWake, Waking, KeepsSection, KeepsContents, Sections
  <2>2. KeepsClients
    <3>1. CASE shm.disconnect
      <4> DEFINE w == [cli[k] EXCEPT !.pc = "delay", !.generation = 0, !.raced = FALSE]
      <4>1. cli' = [cli EXCEPT ![k] = w]
        BY <1>10, <3>1 DEF ClientWake, Waking, Disconnected
      <4>2. cli'[k] = w => KeepsClient(k)
        BY <1>1 DEF KeepsClient, Up, ClientWorkers
      <4>3. QED
        BY <1>1, <4>1, <4>2, ClientKept
    <3>2. CASE ~shm.disconnect
      <4>1. cli' = [cli EXCEPT ![k] = Moved("top")] /\ Up(k)
        BY <1>10, <3>2 DEF ClientWake, Paused, Waking, ClientMoves, Up
      <4>2. cli'[k] = Moved("top") => KeepsClient(k)
        BY <1>1, <4>1 DEF KeepsClient, Up, ClientWorkers
      <4>3. QED
        BY <1>1, <4>1, <4>2, ClientKept
    <3>3. QED
      BY <3>1, <3>2
  <2>3. QED
    BY <1>10, <2>1, <2>2, SameParts, QuietParts DEF ClientWake, Waking, KeepsRecord, KeepsFault, Sound
<1>11. CASE TakeAck(k) /\ shm.server_state # "READY"
  <2>1. /\ shm' = GiveUp([shm EXCEPT !.connect_ack = FALSE]) /\ ClientMoves(k, "open")
    BY <1>1, <1>11 DEF TakeAck, Taking, Sections
  <2>2. KeepsSection
    BY <1>1, <2>1 DEF GiveUp, KeepsSection, KeepsContents, Sections
  <2>3. KeepsClients
    BY <1>2, <2>1
  <2>4. QED
    BY <1>11, <2>2, <2>3, SameParts, QuietParts DEF TakeAck, Taking, KeepsRecord, KeepsFault, Sound
<1>12. CASE Load(k)
  <2>1. PICK b : cli' = [cli EXCEPT ![k] = [cli[k] EXCEPT !.pc = "write", !.tight = b]]
    BY <1>12 DEF Load, Looks
  <2> DEFINE w == [cli[k] EXCEPT !.pc = "write", !.tight = b]
  <2>2. cli'[k] = w => KeepsClient(k)
    BY <1>1, <1>12 DEF Load, Sendable, KeepsClient, Up, ClientWorkers
  <2>3. KeepsClients
    BY <1>1, <2>1, <2>2, ClientKept
  <2>4. QED
    BY <1>12, <2>3, SameParts, QuietParts DEF Load, KeepsRecord, KeepsFault, Sound
<1>13. CASE Refuse(k)
  <2> DEFINE w == [cli[k] EXCEPT !.pc = "pause", !.tight = FALSE,
                                 !.raced = cli[k].tight \/ srv.pc = "took"]
  <2>1. cli' = [cli EXCEPT ![k] = w] /\ cli[k].pc = "write"
    BY <1>13 DEF Refuse
  <2>2. cli'[k] = w => KeepsClient(k)
    BY <1>1, <2>1 DEF KeepsClient, Up, ClientWorkers
  <2>3. KeepsClients
    BY <1>1, <2>1, <2>2, ClientKept
  <2>4. QED
    BY <1>13, <2>3, SameParts, QuietParts DEF Refuse, KeepsRecord, KeepsFault, Sound
<1>14. CASE Signal(k)
  <2> DEFINE w == [cli[k] EXCEPT !.pc = "send", !.tight = FALSE, !.was_empty = FALSE]
  <2>1. cli' = [cli EXCEPT ![k] = w] /\ cli[k].pc = "signal"
    BY <1>14 DEF Signal
  <2>2. cli'[k] = w => KeepsClient(k)
    BY <1>1, <2>1 DEF KeepsClient, Up, ClientWorkers
  <2>3. KeepsClients
    BY <1>1, <2>1, <2>2, ClientKept
  <2>4. KeepsSection
    <3>1. /\ Signalled(shm.c2s, cli[k].was_empty).msgs = shm.c2s.msgs
          /\ Signalled(shm.c2s, cli[k].was_empty).count = shm.c2s.count
      BY <1>1 DEF Signalled, Sections, Rings
    <3>2. QED
      BY <1>1, <1>14, <3>1 DEF Signal, KeepsSection, KeepsContents, Sections
  <2>5. QED
    BY <1>14, <2>3, <2>4, SameParts, QuietParts DEF Signal, KeepsRecord, KeepsFault, Sound
<1>15. QED
  BY <1>4, <1>5, <1>6, <1>7, <1>8, <1>9, <1>10, <1>11, <1>12, <1>13, <1>14

-----------------------------------------------------------------------------
(* The steps that hand the token on.                                          *)
LEMMA TakeRequestStep ==
  ASSUME IInv, Types', TakeRequest, shm.client_state = "HELLO" PROVE IInv'
<1> DEFINE x == [shm EXCEPT !.connect_req = FALSE]
<1>1. shm \in Sections /\ srv \in ServerWorkers /\ x \in Sections /\ srv.pc = "wait"
  BY SectionOps DEF IInv, TypeOK, Types, TakeRequest
<1>2. shm' = ServerReady(ResetRings(x)) /\ srv' = [srv EXCEPT !.pc = "ready"]
  BY <1>1 DEF TakeRequest, ServerMoves, Sections
<1>3. /\ shm'.c2s.msgs = <<>> /\ shm'.c2s.count = 0
      /\ shm'.connect_ack = shm.connect_ack /\ shm'.disconnect = shm.disconnect
  BY <1>1, <1>2 DEF ServerReady, ResetRings, ResetRing, Sections, Rings
<1>4. srv'.pc = "ready"
  BY <1>1, <1>2 DEF ServerWorkers
<1>5. cli' = cli /\ got' = got /\ sent' = sent /\ fault' = fault
  BY DEF TakeRequest
<1>a. Sound' => Sound
  BY <1>5 DEF Sound
<1>6. ShortQueues' /\ RingBound' /\ Working'
  BY <1>3, <1>4, <1>5, Parts, Limits DEF ShortQueues, RingBound, Working
<1>7. OneToken'
  BY <1>1, <1>3, <1>4, <1>5, <1>a, Parts DEF OneToken, SomeoneUp, Up, Disconnecting
<1>8. OneGeneration'
  BY <1>1, <1>3, <1>4, <1>5, <1>a, Parts DEF OneToken, OneGeneration, SomeoneUp, Up
<1>9. Counts'
  <2>1. Sound => ~Discarding'
    BY <1>1, <1>5, Parts DEF OneToken, SomeoneUp, Up, Discarding
  <2>2. QED
    BY <1>3, <1>4, <1>a, <2>1 DEF Counts, One
<1>10. Ordered'
  <2>1. ~\E i \in DOMAIN shm'.c2s.msgs : TRUE
    BY <1>3
  <2>2. InRing' /\ InHand'
    BY <1>4, <2>1 DEF InRing, InHand
  <2>3. ASSUME NEW k \in Clients PROVE OfClient(k)'
    <3>1. OfClient(k) /\ Waiting(k)' = Waiting(k)
      BY <1>5, Parts DEF Ordered, Waiting
    <3>2. QED
      BY <1>5, <2>1, <3>1 DEF OfClient
  <2>4. QED
    BY <2>2, <2>3 DEF Ordered
<1>11. QED
  BY <1>6, <1>7, <1>8, <1>9, <1>10, Assembled, PTL

LEMMA AckRequestStep ==
  ASSUME IInv, Types', AckRequest PROVE IInv'
<1>1. shm \in Sections /\ srv \in ServerWorkers /\ srv.pc = "ready"
  BY DEF IInv, TypeOK, Types, AckRequest
<1>2. KeepsContents /\ shm'.disconnect = shm.disconnect
  BY <1>1 DEF AckRequest, Acknowledge, ClientReady, KeepsContents, Sections
<1>3. srv'.pc = "pass"
  BY <1>1 DEF AckRequest, ServerMoves, ServerWorkers
<1>4. cli' = cli /\ got' = got /\ sent' = sent /\ fault' = fault
  BY DEF AckRequest
<1>5. Calm
  BY <1>2, <1>3, <1>4, SameParts, CalmParts DEF KeepsServer, KeepsRecord, KeepsFault, Sound
<1>6. OneToken'
  BY <1>1, <1>2, <1>3, <1>4, Parts DEF OneToken, Sound, SomeoneUp, Up, Disconnecting
<1>7. QED
  BY <1>5, <1>6, CalmKeeps, Assembled, PTL

LEMMA TakeAckStep ==
  ASSUME IInv, Types', NEW k \in Clients, TakeAck(k), shm.server_state = "READY" PROVE IInv'
<1> DEFINE w == [cli[k] EXCEPT !.pc = "top", !.generation = shm.generation]
<1>1. shm \in Sections /\ cli \in [Clients -> ClientWorkers] /\ cli[k] \in ClientWorkers
  BY DEF IInv, TypeOK, Types
<1>2. shm' = [shm EXCEPT !.connect_ack = FALSE] /\ shm.connect_ack
  BY <1>1 DEF TakeAck, Taking, Sections
<1>3. cli' = [cli EXCEPT ![k] = w] /\ cli[k].pc = "wait"
  BY <1>1 DEF TakeAck, Taking, Sections
<1>4. srv' = srv /\ got' = got /\ sent' = sent /\ fault' = fault
  BY DEF TakeAck, Taking
<1>5. /\ shm'.generation = shm.generation /\ KeepsRing /\ ~shm'.connect_ack
      /\ shm'.disconnect = shm.disconnect
  BY <1>1, <1>2 DEF KeepsRing, Sections
<1>6. \A j \in Clients : j # k => cli'[j] = cli[j]
  BY <1>3
<1>7. /\ cli'[k].pc = "top" /\ cli'[k].generation = shm.generation
      /\ cli'[k].queue = cli[k].queue /\ cli'[k].cmds = cli[k].cmds
  BY <1>1, <1>3 DEF ClientWorkers
<1>8. KeepsWriters /\ KeepsQueues
  BY <1>6, <1>7 DEF KeepsWriters, KeepsQueues
<1>9. KeepsHand /\ KeepsBatch /\ KeepsRecord /\ KeepsFault
  BY <1>4 DEF KeepsHand, KeepsBatch, KeepsRecord, KeepsFault, Sound
<1>10. ShortQueues' /\ RingBound' /\ Working' /\ Counts' /\ Ordered'
  BY <1>5, <1>8, <1>9, Parts, QueuesShort, BoundKept, WorkingKept, CountsKept, LineKept, QueuesKept, OrderKept
<1>11. \A j \in Clients : Up(j)' => j = k \/ Up(j)
  BY <1>6 DEF Up
<1>12. OneToken'
  BY <1>2, <1>4, <1>5, <1>11, Parts DEF OneToken, Sound, SomeoneUp, Disconnecting
<1>13. OneGeneration'
  <2>1. \A j \in Clients : Up(j)' /\ Up(j) => cli'[j].generation = cli[j].generation \/ j = k
    BY <1>6
  <2>2. QED
    BY <1>4, <1>5, <1>7, <1>11, <2>1, Parts DEF OneGeneration, Sound, KeepsRing
<1>14. QED
  BY <1>10, <1>12, <1>13, Assembled, PTL

LEMMA WakeStep ==
  ASSUME IInv, Types', Wake, shm.disconnect PROVE IInv'
<1>1. shm \in Sections /\ srv \in ServerWorkers /\ srv.pc = "pause"
  BY DEF IInv, TypeOK, Types, Wake
<1>2. KeepsContents /\ ~shm'.disconnect /\ shm'.connect_ack = shm.connect_ack
  BY <1>1 DEF Wake, MarkDisconnected, KeepsContents, Sections
<1>3. srv'.pc \in {"wait", "end"}
  BY <1>1 DEF Wake, ServerMoves, Waits, ServerWorkers
<1>4. cli' = cli /\ got' = got /\ sent' = sent /\ fault' = fault
  BY DEF Wake
<1>5. Calm
  BY <1>2, <1>3, <1>4, SameParts, CalmParts DEF KeepsServer, KeepsRecord, KeepsFault, Sound
<1>6. OneToken'
  BY <1>1, <1>2, <1>3, <1>4, Parts DEF OneToken, Sound, SomeoneUp, Up, Disconnecting
<1>7. QED
  BY <1>5, <1>6, CalmKeeps, Assembled, PTL

LEMMA ServerEndsStep ==
  ASSUME IInv, Types', ServerEnds, srv.pc = "top" PROVE IInv'
<1>1. shm \in Sections /\ srv \in ServerWorkers
  BY DEF IInv, TypeOK, Types
<1>2. KeepsContents /\ shm'.connect_ack = shm.connect_ack
  BY <1>1 DEF ServerEnds, DropServer, MarkDisconnected, KeepsContents, Sections
<1>3. srv'.pc = "done"
  BY <1>1 DEF ServerEnds, ServerMoves, ServerWorkers
<1>4. cli' = cli /\ got' = got /\ sent' = sent /\ fault' = fault
  BY DEF ServerEnds
<1>5. Calm
  BY <1>2, <1>3, <1>4, SameParts, CalmParts DEF KeepsServer, KeepsRecord, KeepsFault, Sound
<1>6. OneToken'
  BY <1>2, <1>3, <1>4, Parts DEF OneToken, Sound, SomeoneUp, Up, Disconnecting
<1>7. QED
  BY <1>5, <1>6, CalmKeeps, Assembled, PTL

LEMMA ClientLeavesStep ==
  ASSUME IInv, Types', NEW k \in Clients, ClientLeaves(k) PROVE IInv'
<1>1. shm \in Sections /\ cli \in [Clients -> ClientWorkers] /\ cli[k] \in ClientWorkers
  BY DEF IInv, TypeOK, Types
<1>2. KeepsContents /\ shm'.connect_ack = shm.connect_ack
  BY <1>1 DEF ClientLeaves, Leaving, DropClient, KeepsContents, Sections
<1>3. cli' = [cli EXCEPT ![k] = Blank("done")] /\ Up(k)
  BY DEF ClientLeaves, Leaving, Up
<1>4. srv' = srv /\ got' = got /\ sent' = sent /\ fault' = fault
  BY DEF ClientLeaves, Leaving
<1>5. cli'[k] = Blank("done") => KeepsClient(k)
  BY DEF KeepsClient, Up, Blank
<1>6. KeepsClients
  BY <1>1, <1>3, <1>5, ClientKept
<1>7. Calm
  BY <1>2, <1>4, <1>6, SameParts, CalmParts DEF KeepsRecord, KeepsFault, Sound
<1>8. ~Up(k)' /\ \A j \in Clients : Up(j)' => Up(j)
  <2>1. cli'[k].pc = "done"
    BY <1>1, <1>3 DEF Blank
  <2>2. QED
    BY <1>6, <2>1 DEF Up, KeepsClients, KeepsClient
<1>9. OneToken'
  BY <1>2, <1>3, <1>4, <1>8, Parts DEF OneToken, Sound, SomeoneUp, Disconnecting
<1>10. QED
  BY <1>7, <1>9, CalmKeeps, Assembled, PTL

(* After that only types and the order of the messages are promised.          *)
LEMMA CorruptedStep ==
  ASSUME IInv, Types', Followed, ReadCorrupted \/ TakeNothing \/ \E k \in Clients : ClientReadCorrupted(k)
  PROVE  IInv'
<1>1. shm \in Sections /\ srv \in ServerWorkers /\ cli \in [Clients -> ClientWorkers]
  BY DEF IInv, TypeOK, Types
<1>2. KeepsRing
  BY <1>1 DEF ReadCorrupted, TakeNothing, ClientReadCorrupted, MarkDisconnected, KeepsRing, Sections
<1>3. KeepsHand /\ KeepsBatch
  <2>1. CASE ReadCorrupted
    <3>1. srv'.pc \in {"wait", "end"}
      BY <1>1, <2>1 DEF ReadCorrupted, Waits, ServerWorkers
    <3>2. QED
      BY <3>1 DEF KeepsHand, KeepsBatch
  <2>2. CASE TakeNothing
    BY <1>1, <2>2 DEF TakeNothing, KeepsHand, KeepsBatch, ServerWorkers
  <2>3. CASE \E k \in Clients : ClientReadCorrupted(k)
    BY <2>3 DEF ClientReadCorrupted, KeepsHand, KeepsBatch
  <2>4. QED
    BY <2>1, <2>2, <2>3
<1>4. KeepsWriters /\ KeepsQueues
  <2>1. CASE ReadCorrupted \/ TakeNothing
    BY <2>1 DEF ReadCorrupted, TakeNothing, KeepsWriters, KeepsQueues
  <2>2. ASSUME NEW k \in Clients, ClientReadCorrupted(k) PROVE KeepsWriters /\ KeepsQueues
    <3>1. cli[k] \in ClientWorkers
      BY <1>1
    <3>2. cli' = [cli EXCEPT ![k] = [cli[k] EXCEPT !.pc = "delay", !.generation = 0, !.raced = FALSE]]
      BY <2>2 DEF ClientReadCorrupted, Disconnected
    <3>3. cli'[k].pc = "delay" /\ cli'[k].queue = cli[k].queue /\ cli'[k].cmds = cli[k].cmds
      BY <1>1, <3>1, <3>2 DEF ClientWorkers
    <3>4. \A j \in Clients : j # k => cli'[j] = cli[j]
      BY <3>2
    <3>5. QED
      BY <3>3, <3>4 DEF KeepsWriters, KeepsQueues
  <2>3. QED
    BY <2>1, <2>2
<1>5. KeepsRecord /\ fault' \in {"corrupt", "torn"}
  BY DEF ReadCorrupted, TakeNothing, ClientReadCorrupted, KeepsRecord
<1>6. ~Sound' /\ KeepsFault
  BY <1>5 DEF Sound, Followed, KeepsFault
<1>7. ShortQueues' /\ Working' /\ Ordered'
  BY <1>2, <1>3, <1>4, <1>5, <1>6, Parts, QueuesShort, WorkingKept, LineKept, QueuesKept, OrderKept
<1>8. RingBound' /\ OneToken' /\ OneGeneration' /\ Counts'
  BY <1>6 DEF RingBound, OneToken, OneGeneration, Counts
<1>9. QED
  BY <1>7, <1>8, Assembled, PTL

-----------------------------------------------------------------------------
(* The steps of a message: accepted, queued, written or discarded, taken, and *)
(* delivered.                                                                 *)
LEMMA PassStep ==
  ASSUME IInv, Types', Pass PROVE IInv'
<1>1. srv \in ServerWorkers
  BY DEF IInv, TypeOK, Types
<1>2. /\ srv'.pc = "read" /\ srv'.left = RecvBatch /\ srv.pc \notin {"wait", "ready", "end", "done", "took"}
  BY <1>1 DEF Pass, ServerWorkers
<1>3. shm' = shm /\ cli' = cli /\ got' = got /\ sent' = sent /\ fault' = fault
  BY DEF Pass
<1>4. /\ KeepsFault /\ KeepsToken /\ KeepsGeneration /\ KeepsRing /\ KeepsHand
      /\ KeepsWriters /\ KeepsQueues /\ KeepsRecord
  BY <1>2, <1>3 DEF KeepsFault, KeepsToken, KeepsGeneration, KeepsRing, KeepsHand, KeepsWriters,
                    KeepsQueues, KeepsRecord, Sound, Up
<1>5. Working'
  BY <1>2, <1>3, Parts, Limits DEF Working
<1>6. ShortQueues' /\ RingBound' /\ OneToken' /\ OneGeneration' /\ Counts'
  BY <1>4, Parts, QueuesShort, BoundKept, LineKept, TokenKept, GenerationKept, CountsKept
<1>7. Ordered'
  BY <1>4, Parts, LineKept, QueuesKept, OrderKept
<1>8. QED
  BY <1>5, <1>6, <1>7, Assembled, PTL

LEMMA AppendToConcat ==
  ASSUME NEW q \in Seq(Nat), NEW c \in Seq(Nat), NEW n \in Nat
  PROVE  q \o Append(c, n) = Append(q \o c, n)
<1>1. /\ Append(c, n) = c \o <<n>> /\ <<n>> \in Seq(Nat)
      /\ q \o c \in Seq(Nat) /\ Append(q \o c, n) = (q \o c) \o <<n>>
  <2>1. <<n>> \in Seq(Nat) /\ q \o c \in Seq(Nat)
    BY ConcatProperties
  <2>2. QED
    BY <2>1, AppendIsConcat
<1>2. (q \o c) \o <<n>> = q \o (c \o <<n>>)
  BY <1>1, ConcatAssociative
<1>3. QED
  BY <1>1, <1>2

LEMMA SendStep ==
  ASSUME IInv, Types', NEW k \in Clients, Send(k) PROVE IInv'
<1> DEFINE w == [cli[k] EXCEPT !.cmds = Append(@, sent + 1)]
<1>1. cli \in [Clients -> ClientWorkers] /\ cli[k] \in ClientWorkers /\ shm \in Sections
  BY DEF IInv, TypeOK, Types
<1>2. cli' = [cli EXCEPT ![k] = w] /\ sent' = sent + 1
  BY DEF Send
<1>3. shm' = shm /\ srv' = srv /\ got' = got /\ fault' = fault
  BY DEF Send
<1>4. /\ cli'[k].pc = cli[k].pc /\ cli'[k].generation = cli[k].generation
      /\ cli'[k].queue = cli[k].queue /\ cli'[k].cmds = Append(cli[k].cmds, sent + 1)
      /\ \A j \in Clients : j # k => cli'[j] = cli[j]
  BY <1>1, <1>2 DEF ClientWorkers
<1>5. \A j \in Clients : /\ cli'[j].pc = cli[j].pc /\ cli'[j].generation = cli[j].generation
                          /\ cli'[j].queue = cli[j].queue
  BY <1>4
<1>6. /\ KeepsFault /\ KeepsToken /\ KeepsGeneration /\ KeepsRing /\ KeepsHand /\ KeepsWriters
      /\ KeepsBatch
  BY <1>3, <1>5 DEF KeepsFault, KeepsToken, KeepsGeneration, KeepsRing, KeepsHand, KeepsWriters,
                    KeepsBatch, Sound, Up
<1>7. RingBound' /\ OneToken' /\ OneGeneration' /\ Counts'
  BY <1>6, Parts, BoundKept, LineKept, TokenKept, GenerationKept, CountsKept
<1>8. ShortQueues' /\ Working'
  BY <1>3, <1>5, Parts DEF ShortQueues, Working
<1>9. Ordered'
  <2> DEFINE s == Waiting(k)
             t == Waiting(k)'
  <2>1. s \in Seq(Nat) /\ t = Append(s, sent + 1) /\ sent \in Nat
    <3>1. cli[k].queue \in Seq(1..MaxSends) /\ cli[k].cmds \in Seq(1..MaxSends)
      BY <1>1 DEF ClientWorkers
    <3>2. sent + 1 \in Nat /\ sent \in Nat
      BY Parts, Limits DEF Types
    <3>3. cli[k].queue \in Seq(Nat) /\ cli[k].cmds \in Seq(Nat)
      <4>1. 1..MaxSends \subseteq Nat
        BY Limits
      <4>2. QED
        BY <3>1, <4>1, SeqMonotonic
    <3>4. cli[k].queue \o Append(cli[k].cmds, sent + 1) = Append(cli[k].queue \o cli[k].cmds, sent + 1)
      BY <3>2, <3>3, AppendToConcat, Zenon
    <3>5. QED
      BY <1>1, <1>4, <3>2, <3>4, WaitingTypes DEF Waiting
  <2>2. /\ Len(t) = Len(s) + 1 /\ t[Len(s) + 1] = sent + 1 /\ DOMAIN t = 1..Len(s) + 1
        /\ \A i \in 1..Len(s) : t[i] = s[i]
        /\ Len(s) \in Nat /\ DOMAIN s = 1..Len(s) /\ \A i \in DOMAIN s : s[i] \in Nat
    BY <2>1, AppendProperties
  <2> HIDE DEF s, t
  <2>3. ASSUME NEW n \in Nat, n <= sent, Above(n, s) PROVE Above(n, t)
    BY <2>1, <2>2, <2>3 DEF Above
  <2>4. /\ OfClient(k) /\ InRing /\ InHand
    BY Parts DEF Ordered
  <2>5. /\ got[k] \in Nat
        /\ \A i \in DOMAIN shm.c2s.msgs : shm.c2s.msgs[i].id \in Nat
        /\ srv.pc = "took" /\ fault # "torn" => srv.hand.from \in Clients /\ srv.hand.id \in Nat
    <3>1. \A m \in Messages : m.from \in Clients /\ m.id \in Nat
      BY Limits DEF Messages
    <3>2. QED
      BY <1>1, <3>1, Parts, RingTypes, Limits DEF Types, Working
  <2>6. OfClient(k)'
    <3>1. /\ Increasing(s) /\ Above(got[k], s) /\ got[k] <= sent /\ \A i \in DOMAIN s : s[i] <= sent
      BY <2>4 DEF OfClient, s
    <3>2. Increasing(t)
      BY <2>1, <2>2, <3>1 DEF Increasing
    <3>3. Above(got[k], t) /\ got[k] <= sent + 1
      BY <2>1, <2>3, <2>5, <3>1
    <3>4. \A i \in DOMAIN t : t[i] <= sent + 1
      BY <2>1, <2>2, <3>1
    <3>5. ASSUME NEW i \in DOMAIN shm.c2s.msgs, shm.c2s.msgs[i].from = k
          PROVE  /\ got[k] < shm.c2s.msgs[i].id /\ shm.c2s.msgs[i].id <= sent + 1
                 /\ Above(shm.c2s.msgs[i].id, t)
      <4>1. /\ got[k] < shm.c2s.msgs[i].id /\ shm.c2s.msgs[i].id <= sent
            /\ Above(shm.c2s.msgs[i].id, s)
        BY <2>4, <3>5 DEF OfClient, s
      <4>2. QED
        BY <2>1, <2>3, <2>5, <4>1
    <3>6. QED
      BY <1>2, <1>3, <3>2, <3>3, <3>4, <3>5 DEF OfClient, t
  <2>7. ASSUME NEW j \in Clients, j # k PROVE OfClient(j)'
    <3>1. OfClient(j) /\ Waiting(j)' = Waiting(j)
      BY <1>4, <2>7, Parts DEF Ordered, Waiting
    <3>2. \A i \in DOMAIN Waiting(j) : Waiting(j)[i] \in Nat
      <4>1. cli[j] \in ClientWorkers
        BY <1>1
      <4>2. Waiting(j) \in Seq(Nat)
        BY <4>1, WaitingTypes DEF Waiting
      <4>3. QED
        BY <4>2
    <3>3. \A i \in DOMAIN Waiting(j) : Waiting(j)[i] <= sent + 1
      BY <2>1, <3>1, <3>2 DEF OfClient
    <3>4. got[j] <= sent + 1
      BY <2>1, <3>1, Parts DEF OfClient, Types
    <3>5. \A i \in DOMAIN shm.c2s.msgs : shm.c2s.msgs[i].from = j => shm.c2s.msgs[i].id <= sent + 1
      BY <2>1, <2>5, <3>1 DEF OfClient
    <3>6. QED
      BY <1>2, <1>3, <3>1, <3>3, <3>4, <3>5 DEF OfClient
  <2>8. InHand'
    <3>1. SUFFICES ASSUME srv.pc = "took", fault # "torn" PROVE InHand'
      BY <1>3 DEF InHand
    <3>2. /\ got[srv.hand.from] < srv.hand.id /\ srv.hand.id <= sent
          /\ Above(srv.hand.id, Waiting(srv.hand.from))
      BY <2>4, <3>1 DEF InHand
    <3>3. Above(srv.hand.id, Waiting(srv.hand.from)')
      <4>1. CASE srv.hand.from = k
        BY <1>3, <2>3, <2>5, <3>1, <3>2, <4>1 DEF s, t
      <4>2. CASE srv.hand.from # k
        BY <1>3, <1>4, <2>5, <3>1, <3>2, <4>2 DEF Waiting
      <4>3. QED
        BY <4>1, <4>2
    <3>4. srv.hand.id <= sent + 1
      BY <2>1, <2>5, <3>1, <3>2
    <3>5. QED
      BY <1>2, <1>3, <2>4, <3>1, <3>2, <3>3, <3>4 DEF InHand
  <2>9. QED
    BY <1>3, <2>4, <2>6, <2>7, <2>8 DEF Ordered, InRing
<1>10. QED
  BY <1>7, <1>8, <1>9, Assembled, PTL

LEMMA TailIsSuffix ==
  ASSUME NEW S, NEW s \in Seq(S), s # <<>>
  PROVE  /\ Suffix(Tail(s), s) /\ Len(Tail(s)) = Len(s) - 1 /\ Len(s) \in Nat \ {0}
         /\ 1 \in DOMAIN s /\ Head(s) = s[1] /\ Tail(s) \in Seq(S)
         /\ \A i \in DOMAIN Tail(s) : i \in Nat /\ i + 1 \in DOMAIN s /\ Tail(s)[i] = s[i + 1]
<1>1. /\ Head(s) = s[1] /\ Tail(s) \in Seq(S) /\ Len(Tail(s)) = Len(s) - 1
      /\ \A i \in 1..Len(Tail(s)) : Tail(s)[i] = s[i + 1]
  BY HeadTailProperties
<1>2. Len(s) \in Nat /\ Len(s) # 0 /\ DOMAIN s = 1..Len(s)
  BY EmptySeq, LenProperties
<1>3. DOMAIN Tail(s) = 1..Len(s) - 1
  BY <1>1, LenProperties
<1>4. \A i \in DOMAIN Tail(s) : i \in Nat /\ i + 1 \in DOMAIN s /\ Tail(s)[i] = s[i + 1]
  BY <1>1, <1>2, <1>3
<1>5. Len(s) = Len(Tail(s)) + 1
  BY <1>1, <1>2
<1>6. Suffix(Tail(s), s)
  BY <1>4, <1>5 DEF Suffix
<1>7. QED
  BY <1>1, <1>2, <1>4, <1>6

LEMMA ClientPassStep ==
  ASSUME IInv, Types', NEW k \in Clients, ClientPass(k) PROVE IInv'
<1> DEFINE q == Enqueue(cli[k].queue, cli[k].cmds)
<1>1. cli \in [Clients -> ClientWorkers] /\ cli[k] \in ClientWorkers
  BY DEF IInv, TypeOK, Types
<1>2. q \in Seq(1..MaxSends) /\ Len(q) <= MaxSendQueue /\ Suffix(q, Waiting(k))
  <2>1. cli[k].queue \in Seq(1..MaxSends) /\ cli[k].cmds \in Seq(1..MaxSends)
    BY <1>1 DEF ClientWorkers
  <2>2. QED
    BY <2>1, EnqueueFacts DEF Waiting
<1> HIDE DEF q
<1>3. /\ cli'[k].pc = "send" /\ cli'[k].generation = cli[k].generation
      /\ cli'[k].queue = q /\ cli'[k].cmds = <<>> /\ Up(k)
      /\ \A j \in Clients : j # k => cli'[j] = cli[j]
  BY <1>1 DEF ClientPass, Drained, ClientWorkers, Up, q
<1>4. shm' = shm /\ srv' = srv /\ got' = got /\ sent' = sent /\ fault' = fault
  BY DEF ClientPass
<1>5. /\ KeepsFault /\ KeepsToken /\ KeepsGeneration /\ KeepsRing /\ KeepsHand /\ KeepsWriters
      /\ KeepsBatch /\ KeepsRecord
  <2>1. \A j \in Clients : /\ Up(j)' => Up(j) /\ cli'[j].generation = cli[j].generation
                           /\ cli'[j].pc \in {"write", "discard"} => cli'[j].pc = cli[j].pc
    BY <1>3 DEF Up
  <2>2. KeepsToken
    BY <1>4, <2>1 DEF KeepsToken, Up
  <2>3. KeepsGeneration /\ KeepsWriters
    BY <1>4, <2>1 DEF KeepsGeneration, KeepsWriters, Up
  <2>4. QED
    BY <1>4, <2>2, <2>3 DEF KeepsFault, KeepsRing, KeepsHand, KeepsBatch, KeepsRecord, Sound
<1>6. RingBound' /\ OneToken' /\ OneGeneration' /\ Counts'
  BY <1>5, Parts, BoundKept, LineKept, TokenKept, GenerationKept, CountsKept
<1>7. ShortQueues' /\ Working'
  BY <1>2, <1>3, <1>4, Parts DEF ShortQueues, Working
<1>8. ASSUME NEW j \in Clients PROVE Suffix(Waiting(j)', Waiting(j))
  <2>1. CASE j = k
    <3>1. q \o <<>> = q
      BY <1>2, ConcatEmptySeq
    <3>2. Waiting(k)' = q
      BY <1>3, <3>1 DEF Waiting
    <3>3. QED
      BY <1>2, <2>1, <3>2
  <2>2. CASE j # k
    <3>1. Waiting(j)' = Waiting(j)
      BY <1>3, <2>2 DEF Waiting
    <3>2. cli[j] \in ClientWorkers
      BY <1>1
    <3>3. Waiting(j) \in Seq(Nat)
      BY <3>2, WaitingTypes DEF Waiting
    <3>4. QED
      BY <3>1, <3>3, SuffixOfItself
  <2>3. QED
    BY <2>1, <2>2
<1>9. Ordered'
  BY <1>5, <1>8, Parts, LineKept, OrderKept
<1>10. QED
  BY <1>6, <1>7, <1>9, Assembled, PTL

(* Nobody discards but the one client that is connected.                      *)
LEMMA OnlyWriter ==
  ASSUME IInv, Sound, NEW k \in Clients, Up(k)
  PROVE  /\ Discarding <=> cli[k].pc = "discard"
         /\ ~shm.connect_ack /\ srv.pc # "ready"
         /\ \A j \in Clients : Up(j) => j = k
<1>1. \A j \in Clients : Up(j) => j = k
  BY Parts DEF OneToken
<1>2. \A j \in Clients : cli[j].pc = "discard" => Up(j)
  BY DEF Up
<1>3. QED
  BY <1>1, <1>2, Parts DEF OneToken, SomeoneUp, Discarding

LEMMA DiscardStep ==
  ASSUME IInv, Types', NEW k \in Clients, Discard(k) PROVE IInv'
<1> DEFINE msgs == shm.c2s.msgs
<1>1. /\ cli \in [Clients -> ClientWorkers] /\ cli[k] \in ClientWorkers
      /\ shm \in Sections /\ shm.c2s \in Rings
  BY DEF IInv, TypeOK, Types, Sections
<1>2. cli[k].pc = "write" /\ msgs # <<>> /\ cli[k].queue # <<>>
  BY Parts DEF Discard, Discards, Working
<1>3. srv' = srv /\ got' = got /\ sent' = sent /\ fault' = fault
  BY DEF Discard
<1>4. /\ cli'[k].pc = "discard" /\ cli'[k].generation = cli[k].generation
      /\ cli'[k].queue = cli[k].queue /\ cli'[k].cmds = cli[k].cmds
      /\ \A j \in Clients : j # k => cli'[j] = cli[j]
  BY <1>1 DEF Discard, ClientMoves, ClientWorkers
<1>5. /\ shm'.c2s.msgs = Tail(msgs) /\ shm'.c2s.count = shm.c2s.count
      /\ shm'.generation = shm.generation
      /\ shm'.connect_ack = shm.connect_ack /\ shm'.disconnect = shm.disconnect
  <2>1. shm' = [shm EXCEPT !.c2s = Taken(shm.c2s)]
    BY DEF Discard
  <2>2. Taken(shm.c2s).msgs = Tail(msgs) /\ Taken(shm.c2s).count = shm.c2s.count
    BY <1>1 DEF Taken, Rings
  <2>3. QED
    BY <1>1, <2>1, <2>2 DEF Sections
<1>6. /\ msgs \in Seq(Messages) /\ Suffix(Tail(msgs), msgs) /\ Len(Tail(msgs)) = Len(msgs) - 1
      /\ Len(msgs) \in Nat /\ shm.c2s.count \in Nat
  BY <1>1, <1>2, RingTypes, TailIsSuffix
<1> HIDE DEF msgs
<1>7. KeepsLine
  BY <1>5, <1>6 DEF KeepsLine, msgs
<1>8. /\ KeepsFault /\ KeepsToken /\ KeepsGeneration /\ KeepsHand /\ KeepsBatch /\ KeepsQueues
      /\ KeepsRecord
  <2>1. \A j \in Clients : /\ Up(j)' => Up(j) /\ cli'[j].generation = cli[j].generation
                           /\ cli'[j].queue = cli[j].queue /\ cli'[j].cmds = cli[j].cmds
    BY <1>2, <1>4 DEF Up
  <2>2. KeepsToken
    BY <1>3, <1>5, <2>1 DEF KeepsToken, Up
  <2>3. KeepsGeneration /\ KeepsQueues
    BY <1>5, <2>1 DEF KeepsGeneration, KeepsQueues, Up
  <2>4. QED
    BY <1>3, <2>2, <2>3 DEF KeepsFault, KeepsHand, KeepsBatch, KeepsRecord, Sound
<1>9. ShortQueues' /\ OneToken' /\ OneGeneration' /\ Ordered'
  BY <1>7, <1>8, Parts, QueuesShort, TokenKept, GenerationKept, QueuesKept, OrderKept
<1>10. Working'
  BY <1>2, <1>3, <1>4, Parts DEF Working
<1>11. RingBound'
  BY <1>3, <1>5, Parts DEF RingBound, Sound
<1>12. Counts'
  <2> SUFFICES ASSUME Sound PROVE Counts'
    BY <1>3 DEF Counts, Sound
  <2>1. One(Discarding) = 0 /\ One(Discarding)' = 1
    BY <1>2, <1>4, OnlyWriter DEF Up, Discarding, One
  <2>2. shm.c2s.count >= Len(msgs) + One(srv.pc = "took") + One(Discarding)
    BY Parts DEF Counts, msgs
  <2>3. One(srv.pc = "took") \in Nat /\ One(srv.pc = "took")' = One(srv.pc = "took")
    BY <1>3 DEF One
  <2>4. shm'.c2s.count >= Len(Tail(msgs)) + One(srv.pc = "took") + 1
    BY <1>5, <1>6, <2>1, <2>2, <2>3
  <2>5. QED
    BY <1>5, <2>1, <2>3, <2>4 DEF Counts
<1>13. QED
  BY <1>9, <1>10, <1>11, <1>12, Assembled, PTL

(* The count after a subtraction that was owed.                               *)
LEMMA SubtractedCount ==
  ASSUME NEW r \in Rings
  PROVE  /\ Subtracted(r).msgs = r.msgs
         /\ r.count >= 1 => Subtracted(r).count = r.count - 1
<1>1. Subtracted(r) = [r EXCEPT !.count = IF r.count = 0 THEN 2 * RingMax + 1 ELSE r.count - 1]
  BY DEF Subtracted
<1>2. QED
  BY <1>1 DEF Rings

LEMMA DiscountStep ==
  ASSUME IInv, Types', NEW k \in Clients, Discount(k) PROVE IInv'
<1>1. /\ cli \in [Clients -> ClientWorkers] /\ cli[k] \in ClientWorkers
      /\ shm \in Sections /\ shm.c2s \in Rings
  BY DEF IInv, TypeOK, Types, Sections
<1>2. cli[k].pc = "discard" /\ Up(k)
  BY DEF Discount, Up
<1>3. srv' = srv /\ got' = got /\ sent' = sent /\ fault' = fault
  BY DEF Discount
<1>4. /\ cli'[k].pc = "write" /\ cli'[k].generation = cli[k].generation
      /\ cli'[k].queue = cli[k].queue /\ cli'[k].cmds = cli[k].cmds
      /\ \A j \in Clients : j # k => cli'[j] = cli[j]
  BY <1>1 DEF Discount, Looks, ClientWorkers
<1>5. /\ shm'.c2s.msgs = shm.c2s.msgs /\ shm'.generation = shm.generation
      /\ shm'.connect_ack = shm.connect_ack /\ shm'.disconnect = shm.disconnect
      /\ shm'.c2s = Subtracted(shm.c2s)
  BY <1>1, SubtractedCount DEF Discount, Sections
<1>6. shm.c2s.msgs \in Seq(Messages) /\ Len(shm.c2s.msgs) \in Nat /\ shm.c2s.count \in Nat /\ RingMax \in Nat
  BY <1>1, RingTypes, Limits
<1>7. KeepsLine
  BY <1>5, <1>6, SuffixOfItself DEF KeepsLine
<1>8. /\ KeepsFault /\ KeepsToken /\ KeepsGeneration /\ KeepsHand /\ KeepsBatch /\ KeepsQueues
      /\ KeepsWriters /\ KeepsRecord
  <2>1. \A j \in Clients : /\ Up(j)' => Up(j) /\ cli'[j].generation = cli[j].generation
                           /\ cli'[j].queue = cli[j].queue /\ cli'[j].cmds = cli[j].cmds
                           /\ cli'[j].pc = cli[j].pc \/ (cli'[j].pc = "write" /\ cli[j].pc = "discard")
    BY <1>2, <1>4 DEF Up
  <2>2. KeepsToken
    BY <1>3, <1>5, <2>1 DEF KeepsToken, Up
  <2>3. KeepsGeneration /\ KeepsQueues /\ KeepsWriters
    BY <1>5, <2>1 DEF KeepsGeneration, KeepsQueues, KeepsWriters, Up
  <2>4. QED
    BY <1>3, <2>2, <2>3 DEF KeepsFault, KeepsHand, KeepsBatch, KeepsRecord, Sound
<1>9. ShortQueues' /\ Working' /\ OneToken' /\ OneGeneration' /\ Ordered'
  BY <1>7, <1>8, Parts, QueuesShort, WorkingKept, TokenKept, GenerationKept, QueuesKept, OrderKept
<1>10. ASSUME Sound
       PROVE  /\ shm'.c2s.count <= RingMax
              /\ shm'.c2s.count >= Len(shm.c2s.msgs) + One(srv.pc = "took") + 0
  <2>1. One(Discarding) = 1 /\ One(srv.pc = "took") \in Nat
    BY <1>2 DEF Discarding, One
  <2>2. shm.c2s.count >= Len(shm.c2s.msgs) + One(srv.pc = "took") + One(Discarding)
    BY <1>10, Parts DEF Counts
  <2>3. shm.c2s.count >= 1
    BY <1>6, <2>1, <2>2
  <2>4. shm'.c2s.count = shm.c2s.count - 1
    BY <1>1, <1>5, <2>3, SubtractedCount
  <2>5. shm.c2s.count <= RingMax
    BY <1>10, Parts DEF RingBound
  <2>6. QED
    BY <1>6, <2>1, <2>2, <2>4, <2>5
<1>11. RingBound'
  BY <1>3, <1>10 DEF RingBound, Sound
<1>12. Counts'
  <2> SUFFICES ASSUME Sound PROVE Counts'
    BY <1>3 DEF Counts, Sound
  <2>1. One(Discarding)' = 0
    <3>1. \A j \in Clients : cli[j].pc = "discard" => j = k
      BY <1>2, OnlyWriter DEF Up
    <3>2. QED
      BY <1>4, <3>1 DEF Discarding, One
  <2>2. One(srv.pc = "took")' = One(srv.pc = "took")
    BY <1>3 DEF One
  <2>3. QED
    BY <1>5, <1>10, <2>1, <2>2 DEF Counts
<1>13. QED
  BY <1>9, <1>11, <1>12, Assembled, PTL

LEMMA TailOfConcat ==
  ASSUME NEW S, NEW q \in Seq(S), NEW c \in Seq(S), q # <<>>
  PROVE  q \o c # <<>> /\ Head(q \o c) = Head(q) /\ Tail(q \o c) = Tail(q) \o c
<1>1. Len(q) \in Nat /\ Len(c) \in Nat /\ Len(q) # 0
  BY EmptySeq, LenProperties
<1>2. /\ q \o c \in Seq(S) /\ Len(q \o c) = Len(q) + Len(c)
      /\ \A i \in 1..Len(q) + Len(c) : (q \o c)[i] = IF i <= Len(q) THEN q[i] ELSE c[i - Len(q)]
  BY ConcatProperties
<1>3. q \o c # <<>>
  BY <1>1, <1>2, EmptySeq
<1>4. Head(q \o c) = Head(q)
  BY <1>1, <1>2, <1>3, HeadTailProperties
<1>5. /\ Tail(q) \in Seq(S) /\ Len(Tail(q)) = Len(q) - 1
      /\ \A i \in 1..Len(Tail(q)) : Tail(q)[i] = q[i + 1]
  BY HeadTailProperties
<1>6. /\ Tail(q) \o c \in Seq(S) /\ Len(Tail(q) \o c) = Len(q) - 1 + Len(c)
      /\ \A i \in 1..Len(q) - 1 + Len(c) :
           (Tail(q) \o c)[i] = IF i <= Len(q) - 1 THEN Tail(q)[i] ELSE c[i - (Len(q) - 1)]
  BY <1>5, ConcatProperties
<1>7. /\ Tail(q \o c) \in Seq(S) /\ Len(Tail(q \o c)) = Len(q) + Len(c) - 1
      /\ \A i \in 1..Len(Tail(q \o c)) : Tail(q \o c)[i] = (q \o c)[i + 1]
  BY <1>2, <1>3, HeadTailProperties
<1>8. Len(Tail(q \o c)) = Len(Tail(q) \o c)
  BY <1>1, <1>6, <1>7
<1>9. ASSUME NEW i \in 1..Len(Tail(q \o c)) PROVE Tail(q \o c)[i] = (Tail(q) \o c)[i]
  <2>1. i \in 1..Len(q) - 1 + Len(c) /\ i + 1 \in 1..Len(q) + Len(c)
    BY <1>1, <1>7, <1>9
  <2>2. Tail(q \o c)[i] = IF i + 1 <= Len(q) THEN q[i + 1] ELSE c[i + 1 - Len(q)]
    BY <1>2, <1>7, <2>1
  <2>3. CASE i + 1 <= Len(q)
    <3>1. i \in 1..Len(Tail(q)) /\ i <= Len(q) - 1
      BY <1>1, <1>5, <2>1, <2>3
    <3>2. (Tail(q) \o c)[i] = q[i + 1]
      BY <1>5, <1>6, <2>1, <3>1
    <3>3. QED
      BY <2>2, <2>3, <3>2
  <2>4. CASE ~(i + 1 <= Len(q))
    <3>1. ~(i <= Len(q) - 1) /\ i - (Len(q) - 1) = i + 1 - Len(q)
      BY <1>1, <2>1, <2>4
    <3>2. (Tail(q) \o c)[i] = c[i + 1 - Len(q)]
      BY <1>6, <2>1, <3>1
    <3>3. QED
      BY <2>2, <2>4, <3>2
  <2>5. QED
    BY <2>3, <2>4
<1>10. Tail(q \o c) = Tail(q) \o c
  BY <1>6, <1>7, <1>8, <1>9, SeqEqual
<1>11. QED
  BY <1>3, <1>4, <1>10

LEMMA TakeStep ==
  ASSUME IInv, Types', Take PROVE IInv'
<1> DEFINE msgs == shm.c2s.msgs
<1>1. shm \in Sections /\ shm.c2s \in Rings /\ srv \in ServerWorkers /\ srv.pc = "take"
  BY DEF IInv, TypeOK, Types, Sections, Take
<1>2. msgs \in Seq(Messages) /\ msgs # <<>> /\ shm.c2s.count \in Nat
  BY <1>1, RingTypes DEF Take, Phantom
<1>3. srv'.pc = "took" /\ srv'.hand = Head(msgs) /\ srv'.left = srv.left
  BY <1>1 DEF Take, ServerWorkers
<1>4. /\ shm'.c2s.msgs = Tail(msgs) /\ shm'.c2s.count = shm.c2s.count
      /\ shm'.generation = shm.generation
      /\ shm'.connect_ack = shm.connect_ack /\ shm'.disconnect = shm.disconnect
  <2>1. shm' = [shm EXCEPT !.c2s = Taken(shm.c2s)]
    BY DEF Take
  <2>2. Taken(shm.c2s).msgs = Tail(msgs) /\ Taken(shm.c2s).count = shm.c2s.count
    BY <1>1 DEF Taken, Rings
  <2>3. QED
    BY <1>1, <2>1, <2>2 DEF Sections
<1>5. cli' = cli /\ got' = got /\ sent' = sent /\ fault' = fault
  BY DEF Take
<1>6. /\ Suffix(Tail(msgs), msgs) /\ Len(Tail(msgs)) = Len(msgs) - 1 /\ Len(msgs) \in Nat \ {0}
      /\ 1 \in DOMAIN msgs /\ Head(msgs) = msgs[1]
      /\ \A i \in DOMAIN Tail(msgs) :
           i \in Nat /\ i + 1 \in DOMAIN msgs /\ Tail(msgs)[i] = msgs[i + 1]
  BY <1>2, TailIsSuffix
<1>7. msgs[1] \in Messages /\ msgs[1].from \in Clients
  BY <1>1, <1>6, RingTypes
<1> HIDE DEF msgs
<1>8. KeepsFault /\ KeepsToken /\ KeepsQueues
  BY <1>1, <1>3, <1>4, <1>5 DEF KeepsFault, KeepsToken, KeepsQueues, Sound, Up
<1>9. ShortQueues' /\ RingBound' /\ OneToken'
  BY <1>4, <1>5, <1>8, Parts, QueuesShort, TokenKept DEF RingBound, Sound
<1>10. Working'
  BY <1>1, <1>3, <1>5, <1>6, <1>7, Parts DEF Working
<1>11. OneGeneration'
  BY <1>3, <1>4, <1>5, <1>6, Parts DEF OneGeneration, Sound, Up, msgs
<1>12. Counts'
  <2> SUFFICES ASSUME Sound PROVE Counts'
    BY <1>5 DEF Counts, Sound
  <2>1. One(srv.pc = "took") = 0 /\ One(srv.pc = "took")' = 1
    BY <1>1, <1>3 DEF One
  <2>2. One(Discarding) \in Nat /\ One(Discarding)' = One(Discarding)
    BY <1>5 DEF Discarding, One
  <2>3. shm.c2s.count >= Len(msgs) + One(srv.pc = "took") + One(Discarding)
    BY Parts DEF Counts, msgs
  <2>4. shm'.c2s.count >= Len(Tail(msgs)) + 1 + One(Discarding)
    BY <1>2, <1>4, <1>6, <2>1, <2>2, <2>3
  <2>5. QED
    BY <1>4, <2>1, <2>2, <2>4 DEF Counts
<1>13. Ordered'
  <2>1. InRing /\ \A k \in Clients : OfClient(k)
    BY Parts DEF Ordered
  <2>2. InRing'
    <3>1. ASSUME NEW i \in DOMAIN Tail(msgs), NEW j \in DOMAIN Tail(msgs), i < j,
                 Tail(msgs)[i].from = Tail(msgs)[j].from
          PROVE  Tail(msgs)[i].id < Tail(msgs)[j].id
      <4>1. /\ i + 1 \in DOMAIN msgs /\ j + 1 \in DOMAIN msgs /\ i + 1 < j + 1
            /\ Tail(msgs)[i] = msgs[i + 1] /\ Tail(msgs)[j] = msgs[j + 1]
        BY <1>6, <3>1
      <4>2. QED
        BY <2>1, <3>1, <4>1 DEF InRing, msgs
    <3>2. QED
      BY <1>4, <3>1 DEF InRing
  <2>3. \A k \in Clients : Waiting(k)' = Waiting(k)
    BY <1>5 DEF Waiting
  <2>4. ASSUME NEW k \in Clients PROVE OfClient(k)'
    <3>1. OfClient(k) /\ Waiting(k)' = Waiting(k)
      BY <2>1, <2>3
    <3>2. \A i \in DOMAIN Tail(msgs) : Tail(msgs)[i].from = k =>
            /\ got[k] < Tail(msgs)[i].id /\ Tail(msgs)[i].id <= sent
            /\ Above(Tail(msgs)[i].id, Waiting(k))
      BY <1>6, <3>1 DEF OfClient, msgs
    <3>3. QED
      BY <1>4, <1>5, <3>1, <3>2 DEF OfClient
  <2>5. InHand'
    <3> DEFINE m == msgs[1]
    <3>1. OfClient(m.from)
      BY <1>7, <2>1
    <3>2. got[m.from] < m.id /\ m.id <= sent /\ Above(m.id, Waiting(m.from))
      BY <1>6, <3>1 DEF OfClient, msgs
    <3>3. ASSUME NEW i \in DOMAIN Tail(msgs), Tail(msgs)[i].from = m.from
          PROVE  m.id < Tail(msgs)[i].id
      <4>1. i + 1 \in DOMAIN msgs /\ Tail(msgs)[i] = msgs[i + 1] /\ 1 < i + 1
        <5>1. i # 0
          BY <1>2, TailIsSuffix, LenProperties
        <5>2. QED
          BY <1>6, <5>1
      <4>2. QED
        BY <1>6, <2>1, <3>3, <4>1 DEF InRing, msgs
    <3>4. srv'.hand = m
      BY <1>3, <1>6
    <3>5. Waiting(srv.hand.from)' = Waiting(m.from)
      BY <1>5, <3>4 DEF Waiting
    <3> HIDE DEF m
    <3>6. QED
      BY <1>4, <1>5, <3>2, <3>3, <3>4, <3>5 DEF InHand
  <2>6. QED
    BY <2>2, <2>4, <2>5 DEF Ordered
<1>14. QED
  BY <1>9, <1>10, <1>11, <1>12, <1>13, Assembled, PTL

LEMMA OnMessageStep ==
  ASSUME IInv, Types', OnMessage, Followed PROVE IInv'
<1> DEFINE h == srv.hand
<1>1. /\ shm \in Sections /\ shm.c2s \in Rings /\ srv \in ServerWorkers
      /\ srv.pc = "took" /\ h \in Messages /\ srv.left >= 1
  BY DEF IInv, TypeOK, Types, Sections, Working, OnMessage, Followed
<1>2. h.from \in Clients /\ h.id \in Nat /\ got \in [Clients -> 0..MaxSends]
  BY <1>1, Parts, Limits DEF Messages, Types
<1>3. srv'.pc \in {"top", "read"} /\ (srv'.pc = "read" => srv'.left >= 1)
  <2>1. srv.left \in Nat
    BY <1>1, Limits DEF ServerWorkers
  <2>2. srv'.left = srv.left - 1 /\ srv'.pc = IF srv.left = 1 THEN "top" ELSE "read"
    BY <1>1 DEF OnMessage, ServerWorkers
  <2>3. QED
    BY <1>1, <2>1, <2>2
<1>4. /\ shm'.c2s.msgs = shm.c2s.msgs
      /\ shm'.c2s.count = IF shm.c2s.count = 0 THEN 2 * RingMax + 1 ELSE shm.c2s.count - 1
      /\ shm'.generation = shm.generation
      /\ shm'.connect_ack = shm.connect_ack /\ shm'.disconnect = shm.disconnect
  <2>1. shm' = [shm EXCEPT !.c2s = Subtracted(shm.c2s)]
    BY DEF OnMessage
  <2>2. /\ Subtracted(shm.c2s).msgs = shm.c2s.msgs
        /\ Subtracted(shm.c2s).count = IF shm.c2s.count = 0 THEN 2 * RingMax + 1
                                                            ELSE shm.c2s.count - 1
    BY <1>1 DEF Subtracted, Rings
  <2>3. QED
    BY <1>1, <2>1, <2>2 DEF Sections
<1>5. /\ cli' = cli /\ sent' = sent /\ fault' = fault
      /\ got'[h.from] = h.id /\ \A k \in Clients : k # h.from => got'[k] = got[k]
  BY <1>2 DEF OnMessage
<1>6. \A k \in Clients : Waiting(k)' = Waiting(k)
  BY <1>5 DEF Waiting
<1>7. KeepsFault /\ KeepsToken /\ KeepsQueues /\ KeepsGeneration /\ KeepsHand /\ KeepsLine
  <2>1. KeepsFault /\ KeepsToken /\ KeepsQueues /\ KeepsGeneration /\ KeepsHand
    BY <1>1, <1>3, <1>4, <1>5
    DEF KeepsFault, KeepsToken, KeepsQueues, KeepsGeneration, KeepsHand, Sound, Up
  <2>2. shm.c2s.msgs \in Seq(Messages)
    BY <1>1 DEF Rings
  <2>3. QED
    BY <1>4, <2>1, <2>2, SuffixOfItself DEF KeepsLine
<1>8. ShortQueues' /\ OneToken' /\ OneGeneration'
  BY <1>7, Parts, QueuesShort, TokenKept, GenerationKept
<1> HIDE DEF h
<1>9. Working'
  BY <1>3, <1>5, Parts DEF Working
<1>10. ASSUME Sound
       PROVE  /\ shm'.c2s.count <= RingMax
              /\ shm'.c2s.count >= Len(shm.c2s.msgs) + One(Discarding)
  <2>1. shm.c2s.count \in Nat /\ Len(shm.c2s.msgs) \in Nat /\ RingMax \in Nat
    BY <1>1, RingTypes, Limits
  <2>2. One(Discarding) \in Nat /\ One(srv.pc = "took") = 1
    BY <1>1 DEF One
  <2>3. shm.c2s.count <= RingMax
    BY <1>10, Parts DEF RingBound
  <2>4. shm.c2s.count >= Len(shm.c2s.msgs) + One(srv.pc = "took") + One(Discarding)
    BY <1>10, Parts DEF Counts
  <2>5. shm.c2s.count >= Len(shm.c2s.msgs) + 1 + One(Discarding)
    BY <2>2, <2>4
  <2>6. shm'.c2s.count = shm.c2s.count - 1
    BY <1>4, <2>1, <2>2, <2>5
  <2>7. QED
    BY <2>1, <2>2, <2>3, <2>5, <2>6
<1>11. RingBound'
  BY <1>5, <1>10 DEF RingBound, Sound
<1>12. Counts'
  <2> SUFFICES ASSUME Sound PROVE Counts'
    BY <1>5 DEF Counts, Sound
  <2>1. One(srv.pc = "took")' = 0
    BY <1>3 DEF One
  <2>2. One(Discarding) \in Nat /\ One(Discarding)' = One(Discarding)
    BY <1>5 DEF Discarding, One
  <2>3. Len(shm.c2s.msgs) \in Nat /\ shm'.c2s.count >= Len(shm.c2s.msgs) + One(Discarding)
    BY <1>1, <1>10, RingTypes
  <2>4. shm'.c2s.count >= Len(shm.c2s.msgs) + 0 + One(Discarding)
    BY <2>2, <2>3
  <2>5. QED
    BY <1>4, <2>1, <2>2, <2>4 DEF Counts
<1>13. Ordered'
  <2>1. /\ InRing /\ \A k \in Clients : OfClient(k)
        /\ h.id <= sent /\ Above(h.id, Waiting(h.from))
        /\ \A i \in DOMAIN shm.c2s.msgs :
             shm.c2s.msgs[i].from = h.from => h.id < shm.c2s.msgs[i].id
    BY <1>1, Parts DEF Ordered, InHand, Followed, h
  <2>2. InRing' /\ InHand'
    BY <1>3, <1>4, <2>1 DEF InRing, InHand
  <2>3. ASSUME NEW k \in Clients PROVE OfClient(k)'
    <3>1. OfClient(k) /\ Waiting(k)' = Waiting(k)
      BY <1>6, <2>1
    <3>2. /\ Above(got'[k], Waiting(k)) /\ got'[k] <= sent
          /\ \A i \in DOMAIN shm.c2s.msgs :
               shm.c2s.msgs[i].from = k => got'[k] < shm.c2s.msgs[i].id
      <4>1. CASE k = h.from
        BY <1>5, <2>1, <4>1
      <4>2. CASE k # h.from
        BY <1>5, <3>1, <4>2 DEF OfClient
      <4>3. QED
        BY <4>1, <4>2
    <3>3. QED
      BY <1>4, <1>5, <3>1, <3>2 DEF OfClient
  <2>4. QED
    BY <2>2, <2>3 DEF Ordered
<1>14. QED
  BY <1>8, <1>9, <1>11, <1>12, <1>13, Assembled, PTL

LEMMA WriteStep ==
  ASSUME IInv, Types', NEW k \in Clients, Write(k) PROVE IInv'
<1> DEFINE msgs == shm.c2s.msgs
           n == Head(cli[k].queue)
           m == [from |-> k, id |-> n, generation |-> cli[k].generation]
           w == [cli[k] EXCEPT !.pc = "signal", !.queue = Tail(cli[k].queue),
                               !.was_empty = WasEmpty(shm.c2s)]
           s == Waiting(k)
<1>1. /\ cli \in [Clients -> ClientWorkers] /\ cli[k] \in ClientWorkers
      /\ shm \in Sections /\ shm.c2s \in Rings
  BY DEF IInv, TypeOK, Types, Sections
<1>2. /\ cli[k].pc = "write" /\ ~(shm.c2s.count >= RingMax) /\ cli[k].queue # <<>>
      /\ cli[k].queue \in Seq(1..MaxSends) /\ cli[k].cmds \in Seq(1..MaxSends)
  BY <1>1, Parts DEF Write, Writing, Full, Working, ClientWorkers
<1>3. cli' = [cli EXCEPT ![k] = w] /\ srv' = srv /\ got' = got /\ sent' = sent /\ fault' = fault
  BY DEF Write, Writing
<1>4. /\ cli'[k].pc = "signal" /\ cli'[k].generation = cli[k].generation
      /\ cli'[k].queue = Tail(cli[k].queue) /\ cli'[k].cmds = cli[k].cmds
      /\ \A j \in Clients : j # k => cli'[j] = cli[j]
  BY <1>1, <1>3 DEF ClientWorkers
<1> HIDE DEF w
<1>5. /\ shm'.c2s.msgs = Append(msgs, m) /\ shm'.c2s.count = shm.c2s.count + 1
      /\ shm'.generation = shm.generation
      /\ shm'.connect_ack = shm.connect_ack /\ shm'.disconnect = shm.disconnect
  <2>1. shm' = [shm EXCEPT !.c2s = Counted(shm.c2s, m)]
    BY DEF Write, Writing, Message
  <2>2. Counted(shm.c2s, m).msgs = Append(msgs, m) /\ Counted(shm.c2s, m).count = shm.c2s.count + 1
    BY <1>1 DEF Counted, Rings
  <2>3. QED
    BY <1>1, <2>1, <2>2 DEF Sections
<1>6. n \in 1..MaxSends /\ n \in Nat /\ m \in Messages /\ msgs \in Seq(Messages)
      /\ m.from = k /\ m.id = n /\ m.generation = cli[k].generation
  <2>1. n \in 1..MaxSends /\ msgs \in Seq(Messages)
    BY <1>1, <1>2, HeadTailProperties DEF Rings
  <2>2. QED
    BY <1>1, <2>1, Limits DEF Messages, ClientWorkers
<1> HIDE DEF n, m
<1>7. /\ Len(Append(msgs, m)) = Len(msgs) + 1 /\ Len(msgs) \in Nat
      /\ DOMAIN Append(msgs, m) = 1..Len(msgs) + 1 /\ DOMAIN msgs = 1..Len(msgs)
      /\ \A i \in DOMAIN msgs : Append(msgs, m)[i] = msgs[i]
      /\ Append(msgs, m)[Len(msgs) + 1] = m
  <2>1. /\ Append(msgs, m) \in Seq(Messages) /\ Len(Append(msgs, m)) = Len(msgs) + 1
        /\ \A i \in 1..Len(msgs) : Append(msgs, m)[i] = msgs[i]
        /\ Append(msgs, m)[Len(msgs) + 1] = m
    BY <1>6, AppendProperties
  <2>2. QED
    BY <1>6, <2>1, LenProperties
<1>8. \A i \in DOMAIN msgs : msgs[i].id \in Nat
  BY <1>1, RingTypes
<1> DEFINE new == Append(msgs, m)
<1> HIDE DEF msgs, new
<1>9. \A j \in Clients : /\ Up(j)' <=> Up(j)
                         /\ cli'[j].generation = cli[j].generation
                         /\ cli'[j].pc = "discard" <=> cli[j].pc = "discard"
                         /\ cli'[j].pc = "write" => j # k /\ cli[j].pc = "write"
  BY <1>2, <1>4 DEF Up
<1>10. OneToken' /\ RingBound'
  <2>1. KeepsToken /\ KeepsFault
    BY <1>3, <1>5, <1>9 DEF KeepsToken, KeepsFault, Sound, Up
  <2>2. shm.c2s.count \in Nat /\ RingMax \in Nat /\ shm.c2s.count + 1 <= RingMax
    BY <1>1, <1>2, RingTypes, Limits
  <2>3. QED
    BY <1>5, <2>1, <2>2, Parts, TokenKept DEF RingBound
<1>11. ShortQueues' /\ Working'
  <2>1. Len(cli[k].queue) \in Nat /\ Len(Tail(cli[k].queue)) = Len(cli[k].queue) - 1
        /\ Len(cli[k].queue) <= MaxSendQueue
    BY <1>2, Parts, HeadTailProperties, LenProperties DEF ShortQueues
  <2>2. Len(cli'[k].queue) <= MaxSendQueue
    BY <1>4, <2>1, Limits
  <2>3. QED
    BY <1>3, <1>4, <2>2, Parts DEF ShortQueues, Working
<1>12. OneGeneration'
  <2> SUFFICES ASSUME Sound PROVE OneGeneration'
    BY <1>3 DEF OneGeneration, Sound
  <2>1. Up(k) /\ cli[k].generation = shm.generation
    BY <1>2, Parts DEF OneGeneration, Up
  <2>2. ASSUME NEW i \in DOMAIN new PROVE new[i].generation = shm.generation
    <3>1. i \in DOMAIN msgs \/ i = Len(msgs) + 1
      BY <1>7, <2>2 DEF new
    <3>2. QED
      BY <1>6, <1>7, <2>1, <3>1, Parts DEF OneGeneration, msgs, new
  <2>3. \A j \in Clients : Up(j)' => cli'[j].generation = shm.generation
    BY <1>9, Parts DEF OneGeneration
  <2>4. srv'.pc = "took" => srv'.hand.generation = shm.generation
    BY <1>3, Parts DEF OneGeneration
  <2>5. QED
    BY <1>5, <2>2, <2>3, <2>4 DEF OneGeneration, new
<1>13. Counts'
  <2> SUFFICES ASSUME Sound PROVE Counts'
    BY <1>3 DEF Counts, Sound
  <2>1. One(Discarding) \in Nat /\ One(Discarding)' = One(Discarding)
    BY <1>9 DEF Discarding, One
  <2>2. One(srv.pc = "took") \in Nat /\ One(srv.pc = "took")' = One(srv.pc = "took")
    BY <1>3 DEF One
  <2>3. shm.c2s.count \in Nat /\ shm.c2s.count >= Len(msgs) + One(srv.pc = "took") + One(Discarding)
    BY <1>1, Parts, RingTypes DEF Counts, msgs
  <2>4. shm.c2s.count + 1 >= Len(msgs) + 1 + One(srv.pc = "took") + One(Discarding)
    BY <1>7, <2>1, <2>2, <2>3
  <2>5. QED
    BY <1>5, <1>7, <2>1, <2>2, <2>4 DEF Counts
<1>14. /\ Waiting(k)' = Tail(s) /\ s \in Seq(Nat) /\ s # <<>> /\ Head(s) = n
  <2>1. cli[k].queue \o cli[k].cmds # <<>>
        /\ Head(cli[k].queue \o cli[k].cmds) = Head(cli[k].queue)
        /\ Tail(cli[k].queue \o cli[k].cmds) = Tail(cli[k].queue) \o cli[k].cmds
    BY <1>2, TailOfConcat
  <2>2. cli[k].queue \o cli[k].cmds \in Seq(Nat)
    BY <1>1, WaitingTypes
  <2>3. QED
    BY <1>4, <2>1, <2>2 DEF Waiting, n
<1>15. /\ 1 \in DOMAIN s /\ n = s[1] /\ Suffix(Tail(s), s) /\ Tail(s) \in Seq(Nat)
       /\ \A i \in DOMAIN Tail(s) : i \in Nat \ {0} /\ i + 1 \in DOMAIN s /\ Tail(s)[i] = s[i + 1]
  <2>1. \A i \in DOMAIN Tail(s) : i # 0
    BY <1>14, TailIsSuffix, LenProperties
  <2>2. QED
    BY <1>14, <2>1, TailIsSuffix
<1>16. /\ \A b \in Nat : Above(b, s) => Above(b, Tail(s)) /\ b < n
       /\ Increasing(s) => Increasing(Tail(s)) /\ Above(n, Tail(s))
       /\ \A b \in Nat : (\A i \in DOMAIN s : s[i] <= b) => n <= b /\ \A i \in DOMAIN Tail(s) : Tail(s)[i] <= b
  <2>1. /\ \A b \in Nat : Above(b, s) => Above(b, Tail(s))
        /\ Increasing(s) => Increasing(Tail(s))
        /\ \A b \in Nat : (\A i \in DOMAIN s : s[i] <= b) => \A i \in DOMAIN Tail(s) : Tail(s)[i] <= b
    BY <1>14, <1>15, SuffixKeeps
  <2>2. Increasing(s) => Above(n, Tail(s))
    BY <1>15 DEF Increasing, Above
  <2>3. \A b \in Nat : Above(b, s) => b < n
    BY <1>15 DEF Above
  <2>4. \A b \in Nat : (\A i \in DOMAIN s : s[i] <= b) => n <= b
    BY <1>15
  <2>5. QED
    BY <2>1, <2>2, <2>3, <2>4
<1>17. /\ InRing /\ InHand /\ OfClient(k)
       /\ sent \in Nat /\ got[k] \in Nat
       /\ srv.pc = "took" /\ fault # "torn" => srv.hand.id \in Nat /\ srv.hand.from \in Clients
  <2>1. \A x \in Messages : x.from \in Clients /\ x.id \in Nat
    BY Limits DEF Messages
  <2>2. QED
    BY <2>1, Parts, Limits DEF Ordered, Types, Working
<1>18. /\ got[k] < n /\ n <= sent /\ Increasing(Tail(s)) /\ Above(n, Tail(s))
       /\ Above(got[k], Tail(s)) /\ \A i \in DOMAIN Tail(s) : Tail(s)[i] <= sent
  BY <1>16, <1>17 DEF OfClient
<1>19. \A i \in DOMAIN msgs : msgs[i].from = k =>
         /\ got[k] < msgs[i].id /\ msgs[i].id <= sent /\ msgs[i].id < n
         /\ Above(msgs[i].id, Tail(s))
  BY <1>8, <1>16, <1>17 DEF OfClient, msgs
<1>20. InRing'
  <2>1. ASSUME NEW i \in DOMAIN new, NEW j \in DOMAIN new, i < j, new[i].from = new[j].from
        PROVE  new[i].id < new[j].id
    <3>1. i \in DOMAIN msgs
      BY <1>7, <2>1 DEF new
    <3>2. CASE j \in DOMAIN msgs
      BY <1>7, <1>17, <2>1, <3>1, <3>2 DEF InRing, msgs, new
    <3>3. CASE j = Len(msgs) + 1
      BY <1>6, <1>7, <1>19, <2>1, <3>1, <3>3 DEF new
    <3>4. QED
      BY <1>7, <2>1, <3>2, <3>3 DEF new
  <2>2. QED
    BY <1>5, <2>1 DEF InRing, new
<1>21. InHand'
  <2> SUFFICES ASSUME srv.pc = "took", fault # "torn" PROVE InHand'
    BY <1>3 DEF InHand
  <2> DEFINE h == srv.hand
  <2>1. /\ got[h.from] < h.id /\ h.id <= sent /\ Above(h.id, Waiting(h.from))
        /\ \A i \in DOMAIN msgs : msgs[i].from = h.from => h.id < msgs[i].id
    BY <1>17 DEF InHand, msgs
  <2>2. Above(h.id, Waiting(srv.hand.from)') /\ (h.from = k => h.id < n)
    <3>1. CASE h.from = k
      <4>1. Waiting(srv.hand.from)' = Tail(s)
        BY <1>3, <1>14, <3>1
      <4>2. QED
        BY <1>16, <1>17, <2>1, <3>1, <4>1
    <3>2. CASE h.from # k
      <4>1. Waiting(srv.hand.from)' = Waiting(h.from)
        BY <1>3, <1>4, <1>17, <3>2 DEF Waiting
      <4>2. QED
        BY <2>1, <3>2, <4>1
    <3>3. QED
      BY <3>1, <3>2
  <2>3. ASSUME NEW i \in DOMAIN new, new[i].from = h.from PROVE h.id < new[i].id
    <3>1. i \in DOMAIN msgs \/ i = Len(msgs) + 1
      BY <1>7, <2>3 DEF new
    <3>2. QED
      BY <1>6, <1>7, <2>1, <2>2, <2>3, <3>1 DEF new
  <2>4. QED
    BY <1>3, <1>5, <2>1, <2>2, <2>3 DEF InHand, new
<1>22. ASSUME NEW j \in Clients PROVE OfClient(j)'
  <2>1. CASE j = k
    <3>1. ASSUME NEW i \in DOMAIN new, new[i].from = k
          PROVE  /\ got[k] < new[i].id /\ new[i].id <= sent /\ Above(new[i].id, Tail(s))
      <4>1. i \in DOMAIN msgs \/ i = Len(msgs) + 1
        BY <1>7, <3>1 DEF new
      <4>2. QED
        BY <1>6, <1>7, <1>18, <1>19, <3>1, <4>1 DEF new
    <3>2. got[k] <= sent
      BY <1>17 DEF OfClient
    <3>3. OfClient(k)'
      BY <1>3, <1>5, <1>14, <1>18, <3>1, <3>2 DEF OfClient, new
    <3>4. QED
      BY <2>1, <3>3
  <2>2. CASE j # k
    <3>1. OfClient(j) /\ Waiting(j)' = Waiting(j)
      BY <1>4, <2>2, Parts DEF Ordered, Waiting
    <3>2. ASSUME NEW i \in DOMAIN new, new[i].from = j
          PROVE  /\ got[j] < new[i].id /\ new[i].id <= sent /\ Above(new[i].id, Waiting(j))
      <4>1. i \in DOMAIN msgs
        BY <1>6, <1>7, <2>2, <3>2 DEF new
      <4>2. QED
        BY <1>7, <3>1, <3>2, <4>1 DEF OfClient, msgs, new
    <3>3. QED
      BY <1>3, <1>5, <3>1, <3>2 DEF OfClient, new
  <2>3. QED
    BY <2>1, <2>2
<1>23. Ordered'
  BY <1>20, <1>21, <1>22 DEF Ordered
<1>24. QED
  BY <1>10, <1>11, <1>12, <1>13, <1>23, Assembled, PTL

-----------------------------------------------------------------------------
(* The invariant of every step, and what follows from it.                     *)
LEMMA NextInv == IInv /\ [Next]_vars => IInv'
<1> SUFFICES ASSUME IInv, [Next]_vars PROVE IInv'
  OBVIOUS
<1>1. Types'
  BY Parts, TypesStep
<1>2. CASE ServerStep \/ (Followed /\ (ServerStops \/ ReadCorrupted))
  <2>0. Followed
    BY <1>2 DEF ServerStep
  <2>1. CASE TakeRequest
    BY <1>1, <2>1, QuietServer, QuietKeeps, TakeRequestStep
  <2>2. CASE AckRequest \/ Pass \/ Take \/ OnMessage \/ TakeNothing \/ ReadCorrupted
    BY <1>1, <2>0, <2>2, AckRequestStep, PassStep, TakeStep, OnMessageStep, CorruptedStep
  <2>3. CASE Read \/ LookAgain
    BY <1>1, <2>3, QuietServer, QuietKeeps
  <2>4. CASE Wake
    BY <1>1, <2>4, QuietServer, QuietKeeps, WakeStep
  <2>5. CASE ServerEnds
    BY <1>1, <2>5, QuietServer, QuietKeeps, ServerEndsStep
  <2>6. CASE ServerStops
    BY <1>1, <2>6, QuietServer, QuietKeeps
  <2>7. QED
    BY <1>2, <2>1, <2>2, <2>3, <2>4, <2>5, <2>6 DEF ServerStep
<1>3. ASSUME NEW k \in Clients,
             \/ ClientStep(k)
             \/ Followed /\ (TimesOutEarly(k) \/ ClientReadCorrupted(k) \/ Crash(k))
             \/ Followed /\ (Start(k) \/ Send(k) \/ Stop(k) \/ DropHandle(k))
      PROVE  IInv'
  <2>0. Followed
    BY <1>3 DEF ClientStep
  <2>1. CASE TakeAck(k)
    BY <1>1, <2>1, QuietClient, QuietKeeps, TakeAckStep
  <2>2. CASE ClientPass(k) \/ Write(k) \/ Discard(k) \/ Discount(k) \/ ClientLeaves(k) \/ Send(k)
    BY <1>1, <2>2, ClientPassStep, WriteStep, DiscardStep, DiscountStep, ClientLeavesStep, SendStep
  <2>3. CASE ClientReadCorrupted(k)
    BY <1>1, <2>0, <2>3, CorruptedStep
  <2>4. CASE \/ Start(k) \/ Stop(k) \/ DropHandle(k) \/ Crash(k) \/ Open(k) \/ SetRequest(k)
             \/ TimesOut(k) \/ TimesOutEarly(k) \/ Load(k) \/ Refuse(k) \/ Signal(k)
             \/ ClientWake(k) \/ DelayEnds(k)
    BY <1>1, <2>4, QuietClient, QuietKeeps
  <2>5. QED
    BY <1>3, <2>1, <2>2, <2>3, <2>4 DEF ClientStep
<1>4. CASE UNCHANGED vars
  <2>1. shm' = shm /\ srv' = srv /\ cli' = cli /\ got' = got /\ sent' = sent /\ fault' = fault
    BY <1>4 DEF vars
  <2>2. Quiet
    BY <2>1, SameParts, QuietParts DEF KeepsRecord, KeepsFault, Sound
  <2>3. QED
    BY <1>1, <2>2, QuietKeeps
<1>5. QED
  BY <1>2, <1>3, <1>4 DEF Next

(* The invariant of AutoInvariant: in every state of server_worker and the    *)
(* client workers (auto/mod.rs) the connection is one token, one generation   *)
(* is in use, message_count covers the ring, and the messages of a client are *)
(* in the order of its sends from on_message back to the command channel.     *)
THEOREM Invariance == Spec => []IInv
<1>1. Init => IInv
  BY InitInv
<1>2. IInv /\ [Next]_vars => IInv'
  BY NextInv
<1>3. QED
  BY <1>1, <1>2, PTL DEF Spec

(* The workers keep the types of their state, no queue outgrows               *)
(* max_send_queue - drain_commands drops the oldest message - and             *)
(* message_count stays within MAX_MESSAGES, also where a reset of the rings,  *)
(* a discard and a late subtraction meet.                                     *)
THEOREM TypeCorrect == Spec => []TypeOK
<1>1. IInv => TypeOK
  BY DEF IInv
<1>2. QED
  BY <1>1, Invariance, PTL

(* A ring has one writer: connect and wait_for_client never leave two clients *)
(* connected, whatever acknowledgement, request or disconnect of an earlier   *)
(* attempt is still signalled.                                                *)
THEOREM OneWriter == Spec => []OneClientUp
<1>1. IInv => OneClientUp
  <2> SUFFICES ASSUME IInv, Sound PROVE Cardinality({k \in Clients : Up(k)}) <= 1
    BY DEF OneClientUp
  <2> DEFINE up == {k \in Clients : Up(k)}
  <2>1. \A j, k \in up : j = k
    BY DEF IInv, OneToken
  <2>2. CASE up = {}
    BY <2>2, FS_EmptySet
  <2>3. CASE up # {}
    <3>1. PICK k : k \in up
      BY <2>3
    <3>2. up = {k}
      BY <2>1, <3>1
    <3>3. Cardinality({k}) = 1
      BY FS_Singleton
    <3>4. QED
      BY <3>2, <3>3
  <2>4. QED
    BY <2>2, <2>3
<1>2. QED
  BY <1>1, Invariance, PTL

(* Clean start: what server_worker hands to on_message was sent on the        *)
(* connection it is in; reset_rings in wait_for_client leaves nothing of an   *)
(* earlier client, and no earlier client still writes.                        *)
THEOREM NothingStale == Spec => []CleanStart
<1>1. IInv => CleanStart
  BY DEF IInv, OneGeneration, CleanStart
<1>2. QED
  BY <1>1, Invariance, PTL

(* The messages of a client reach on_message in the order of its sends, and   *)
(* none twice, across overflowing queues, discards, failed writes,            *)
(* reconnections and resets, and even after a corruption.                     *)
THEOREM InOrderDelivery == Spec => InOrder
<1>1. ASSUME IInv, Next, srv.pc = "took" PROVE srv.hand.id > got[srv.hand.from]
  <2>0. fault # "torn"
    BY <1>1 DEF Next, ServerStep, ClientStep, Followed
  <2>1. srv.hand \in Messages /\ got \in [Clients -> 0..MaxSends]
    BY <1>1, <2>0, Parts DEF Working, Types
  <2>2. srv.hand.id \in Nat /\ got[srv.hand.from] \in Nat
    BY <2>1, Limits DEF Messages
  <2>3. got[srv.hand.from] < srv.hand.id
    BY <1>1, <2>0, Parts DEF Ordered, InHand
  <2>4. QED
    BY <2>2, <2>3
<1>2. IInv /\ [Next]_vars => [srv.pc = "took" /\ srv'.pc # "took" => srv.hand.id > got[srv.hand.from]]_vars
  BY <1>1
<1>3. QED
  BY <1>2, Invariance, PTL DEF Spec, InOrder

-----------------------------------------------------------------------------
(* stop().  First message_count, when nothing is left over.                   *)
LEMMA LeftoverKept ==
  ASSUME NoLeftover, KeepsFault, KeepsRing, srv'.pc = "took" <=> srv.pc = "took",
         Sound' /\ Expected' => Expected /\ (Discarding' <=> Discarding)
  PROVE  NoLeftover'
<1> SUFFICES ASSUME Sound', Expected' PROVE NoLeftover'
  BY DEF NoLeftover
<1>1. shm.c2s.count <= Len(shm.c2s.msgs) + One(srv.pc = "took") + One(Discarding)
  BY DEF NoLeftover, KeepsFault
<1>2. One(srv.pc = "took")' = One(srv.pc = "took") /\ One(Discarding)' = One(Discarding)
  BY DEF One
<1>3. QED
  BY <1>1, <1>2 DEF NoLeftover, KeepsRing

(* The server's steps.                                                        *)
LEMMA LeftoverServer ==
  ASSUME IInv, NoLeftover,
         \/ ServerStops \/ TakeRequest \/ AckRequest \/ Pass \/ Read \/ LookAgain \/ Take \/ OnMessage
         \/ Wake \/ ServerEnds
  PROVE  NoLeftover'
<1>1. /\ shm \in Sections /\ shm.c2s \in Rings /\ srv \in ServerWorkers
      /\ shm.c2s.count \in Nat /\ shm.c2s.msgs \in Seq(Messages) /\ Len(shm.c2s.msgs) \in Nat
  BY RingTypes DEF IInv, TypeOK, Types, Sections
<1>2. /\ cli' = cli /\ fault' = fault /\ (Discarding' <=> Discarding) /\ (SomeoneUp' <=> SomeoneUp)
      /\ KeepsFault
  BY DEF ServerStops, TakeRequest, AckRequest, Pass, Read, LookAgain, Take, OnMessage, Wake, ServerEnds,
         Discarding, SomeoneUp, Up, KeepsFault, Sound
<1>3. One(srv.pc = "took") \in Nat /\ One(Discarding) \in Nat /\ One(srv.pc = "took")' \in Nat
      /\ One(Discarding)' = One(Discarding)
  BY <1>2 DEF One
<1>a. Sound' => Sound
  BY <1>2 DEF Sound
<1>4. CASE ServerStops \/ Pass \/ Read \/ LookAgain
  <2>1. shm' = shm /\ (srv'.pc = "took" <=> srv.pc = "took") /\ (srv'.pc = "ready" <=> srv.pc = "ready")
    BY <1>1, <1>4 DEF ServerStops, Pass, Read, LookAgain, Drains, ServerMoves, ServerWorkers
  <2>2. QED
    BY <1>2, <2>1, LeftoverKept DEF Expected, KeepsRing
<1>5. CASE TakeRequest
  <2>1. CASE shm.client_state = "HELLO"
    <3>1. shm' = ServerReady(ResetRings([shm EXCEPT !.connect_req = FALSE]))
      BY <1>5, <2>1 DEF TakeRequest, Sections
    <3>2. shm'.c2s.msgs = <<>> /\ shm'.c2s.count = 0
      BY <1>1, <3>1 DEF ServerReady, ResetRings, ResetRing, Sections, Rings
    <3>3. QED
      BY <1>3, <3>2 DEF NoLeftover
  <2>2. CASE shm.client_state # "HELLO"
    <3>1. /\ shm' = [shm EXCEPT !.connect_req = FALSE]
          /\ srv.pc = "wait" /\ srv'.pc \in {"wait", "end"}
      BY <1>1, <1>5, <2>2 DEF TakeRequest, ServerMoves, Waits, Sections, ServerWorkers
    <3>2. KeepsRing /\ shm'.connect_ack = shm.connect_ack
      BY <1>1, <3>1 DEF KeepsRing, Sections
    <3>3. QED
      BY <1>2, <3>1, <3>2, LeftoverKept DEF Expected
  <2>3. QED
    BY <2>1, <2>2
<1>6. CASE AckRequest
  <2>1. srv.pc = "ready" /\ srv'.pc = "pass" /\ KeepsRing
    BY <1>1, <1>6 DEF AckRequest, ServerMoves, Acknowledge, ClientReady, KeepsRing, Sections, ServerWorkers
  <2>2. QED
    BY <1>2, <2>1, LeftoverKept DEF Expected
<1>7. CASE Take
  <2>1. srv.pc = "take" /\ srv'.pc = "took"
    BY <1>1, <1>7 DEF Take, ServerWorkers
  <2>2. /\ shm'.c2s.msgs = Tail(shm.c2s.msgs) /\ shm'.c2s.count = shm.c2s.count
        /\ shm'.connect_ack = shm.connect_ack
    <3>1. shm' = [shm EXCEPT !.c2s = Taken(shm.c2s)]
      BY <1>7 DEF Take
    <3>2. Taken(shm.c2s).msgs = Tail(shm.c2s.msgs) /\ Taken(shm.c2s).count = shm.c2s.count
      BY <1>1 DEF Taken, Rings
    <3>3. QED
      BY <1>1, <3>1, <3>2 DEF Sections
  <2>3. Len(Tail(shm.c2s.msgs)) = Len(shm.c2s.msgs) - 1
    BY <1>1, <1>7, TailIsSuffix DEF Take, Phantom
  <2>4. One(srv.pc = "took") = 0 /\ One(srv.pc = "took")' = 1
    BY <2>1 DEF One
  <2>5. Expected' => Expected
    BY <1>2, <2>1, <2>2 DEF Expected
  <2>6. Sound /\ Expected => shm.c2s.count <= Len(shm.c2s.msgs) + 0 + One(Discarding)
    BY <2>4 DEF NoLeftover
  <2>7. Sound /\ Expected => shm.c2s.count <= Len(shm.c2s.msgs) - 1 + 1 + One(Discarding)
    BY <1>1, <1>3, <2>6
  <2>8. QED
    BY <1>a, <1>3, <2>2, <2>3, <2>4, <2>5, <2>7 DEF NoLeftover
<1>8. CASE OnMessage
  <2>1. srv.pc = "took" /\ srv'.pc \in {"top", "read"} /\ shm' = [shm EXCEPT !.c2s = Subtracted(shm.c2s)]
    BY <1>1, <1>8 DEF OnMessage, ServerWorkers
  <2>2. One(srv.pc = "took") = 1 /\ One(srv.pc = "took")' = 0
    BY <2>1 DEF One
  <2>3. Sound => shm.c2s.count >= 1
    <3>1. Sound => shm.c2s.count >= Len(shm.c2s.msgs) + 1 + One(Discarding)
      BY <2>2, Parts DEF Counts
    <3>2. QED
      BY <1>1, <1>3, <3>1
  <2>4. /\ shm'.connect_ack = shm.connect_ack /\ shm'.c2s.msgs = shm.c2s.msgs
        /\ Sound => shm'.c2s.count = shm.c2s.count - 1
    BY <1>1, <2>1, <2>3, SubtractedCount DEF Sections
  <2>5. Expected' => Expected
    BY <1>2, <2>1, <2>4 DEF Expected
  <2>6. Sound /\ Expected => shm.c2s.count <= Len(shm.c2s.msgs) + 1 + One(Discarding)
    BY <2>2 DEF NoLeftover
  <2>7. Sound /\ Expected => shm.c2s.count - 1 <= Len(shm.c2s.msgs) + 0 + One(Discarding)
    BY <1>1, <1>3, <2>6
  <2>8. QED
    BY <1>a, <1>3, <2>2, <2>4, <2>5, <2>7 DEF NoLeftover
<1>9. CASE Wake \/ ServerEnds
  <2>1. /\ srv.pc \in {"pause", "wait", "top", "end"} /\ srv'.pc \in {"wait", "top", "end", "done"}
    BY <1>1, <1>9 DEF Wake, ServerEnds, ServerMoves, Waits, ServerWorkers
  <2>2. KeepsRing /\ shm'.connect_ack = shm.connect_ack
    <3>1. CASE Wake
      <4>1. CASE shm.disconnect
        BY <1>1, <3>1, <4>1 DEF Wake, MarkDisconnected, KeepsRing, Sections
      <4>2. CASE ~shm.disconnect
        BY <1>1, <3>1, <4>2 DEF Wake, KeepsRing, Sections, Rings
      <4>3. QED
        BY <4>1, <4>2
    <3>2. CASE ServerEnds
      BY <1>1, <3>2 DEF ServerEnds, DropServer, MarkDisconnected, KeepsRing, Sections
    <3>3. QED
      BY <1>9, <3>1, <3>2
  <2>3. QED
    BY <1>2, <2>1, <2>2, LeftoverKept DEF Expected
<1>10. QED
  BY <1>4, <1>5, <1>6, <1>7, <1>8, <1>9

(* The clients' steps.  A step of one client leaves the others alone.         *)
StepOf(k) ==
  \/ ClientStep(k) \/ TimesOutEarly(k) \/ ClientReadCorrupted(k) \/ Crash(k)
  \/ Start(k) \/ Send(k) \/ Stop(k) \/ DropHandle(k)

LEMMA StepsAlone ==
  ASSUME Types, Followed, NEW k \in Clients, StepOf(k)
  PROVE  srv' = srv /\ KeepsFault /\ \A j \in Clients : j # k => cli'[j] = cli[j]
<1>1. cli \in [Clients -> ClientWorkers]
  BY DEF Types
<1>2. CASE Open(k) \/ SetRequest(k) \/ TakeAck(k) \/ TimesOut(k) \/ TimesOutEarly(k) \/ ClientReadCorrupted(k)
  BY <1>1, <1>2 DEF Open, SetRequest, TakeAck, Taking, TimesOut, TimesOutEarly, AckTimeout,
                    ClientReadCorrupted, ClientMoves, Disconnected, KeepsFault, Sound, Followed
<1>3. CASE ClientPass(k) \/ Load(k) \/ Write(k) \/ Discard(k) \/ Discount(k)
  BY <1>1, <1>3 DEF ClientPass, Load, Write, Writing, Discard, Discount, Looks, ClientMoves, KeepsFault, Sound
<1>4. CASE Refuse(k) \/ Signal(k) \/ ClientWake(k) \/ DelayEnds(k) \/ ClientLeaves(k)
  BY <1>1, <1>4 DEF Refuse, Signal, ClientWake, Waking, DelayEnds, ClientLeaves, Leaving, ClientMoves,
                    Disconnected, KeepsFault, Sound
<1>5. CASE Crash(k) \/ Start(k) \/ Send(k) \/ Stop(k) \/ DropHandle(k)
  BY <1>1, <1>5 DEF Crash, Start, Send, Stop, DropHandle, ClientMoves, KeepsFault, Sound
<1>6. QED
  BY <1>2, <1>3, <1>4, <1>5 DEF StepOf, ClientStep

LEMMA LeftoverClient ==
  ASSUME IInv, NoLeftover, Followed, NEW k \in Clients, StepOf(k) PROVE NoLeftover'
<1>1. /\ shm \in Sections /\ shm.c2s \in Rings /\ cli \in [Clients -> ClientWorkers] /\ cli[k] \in ClientWorkers
      /\ shm.c2s.count \in Nat /\ shm.c2s.msgs \in Seq(Messages) /\ Len(shm.c2s.msgs) \in Nat
  BY RingTypes DEF IInv, TypeOK, Types, Sections
<1>2. srv' = srv /\ KeepsFault /\ \A j \in Clients : j # k => cli'[j] = cli[j]
  BY Parts, StepsAlone
<1>3. One(srv.pc = "took") \in Nat /\ One(srv.pc = "took")' = One(srv.pc = "took")
  BY <1>2 DEF One
<1>4. ASSUME KeepsRing, shm'.connect_ack => shm.connect_ack, Up(k)' => Up(k) \/ shm.connect_ack,
             cli'[k].pc = "discard" <=> cli[k].pc = "discard"
      PROVE  NoLeftover'
  <2>1. Discarding' <=> Discarding
    BY <1>2, <1>4 DEF Discarding
  <2>2. Expected' => Expected
    BY <1>2, <1>4 DEF Expected, SomeoneUp, Up
  <2>3. QED
    BY <1>2, <1>4, <2>1, <2>2, LeftoverKept
<1>5. CASE Open(k) \/ SetRequest(k) \/ TakeAck(k) \/ TimesOut(k) \/ TimesOutEarly(k) \/ Start(k)
  <2>1. KeepsRing /\ (shm'.connect_ack => shm.connect_ack)
    BY <1>1, <1>5 DEF Open, SetRequest, TakeAck, Taking, TimesOut, TimesOutEarly, AckTimeout, Start,
                      Hello, Request, GiveUp, Sections, KeepsRing
  <2>2. /\ Up(k)' => shm.connect_ack
        /\ cli[k].pc # "discard" /\ cli'[k].pc # "discard"
    BY <1>1, <1>5 DEF Open, SetRequest, TakeAck, Taking, TimesOut, TimesOutEarly, AckTimeout, Start,
                      ClientMoves, Blank, Up, ClientWorkers
  <2>3. QED
    BY <1>4, <2>1, <2>2
<1>6. CASE ClientPass(k) \/ Load(k) \/ Refuse(k) \/ Signal(k) \/ ClientWake(k)
  <2>1. KeepsRing /\ shm'.connect_ack = shm.connect_ack
    <3>1. \A b \in BOOLEAN : Signalled(shm.c2s, b).msgs = shm.c2s.msgs /\ Signalled(shm.c2s, b).count = shm.c2s.count
      BY <1>1 DEF Signalled, Rings
    <3>2. QED
      BY <1>1, <1>6, <3>1 DEF ClientPass, Load, Refuse, Signal, ClientWake, Waking, Sections, KeepsRing, ClientWorkers
  <2>2. Up(k) /\ cli[k].pc # "discard"
    BY <1>6 DEF ClientPass, Load, Refuse, Signal, ClientWake, Paused, Up
  <2>3. cli'[k].pc # "discard"
    <3>1. CASE ClientPass(k)
      <4>1. cli'[k] = Drained(cli[k], "send")
        BY <1>1, <3>1 DEF ClientPass
      <4>2. QED
        BY <1>1, <4>1 DEF Drained, ClientWorkers
    <3>2. CASE Load(k) \/ Refuse(k) \/ Signal(k)
      BY <1>1, <3>2 DEF Load, Looks, Refuse, Signal, ClientWorkers
    <3>3. CASE ClientWake(k)
      BY <1>1, <3>3 DEF ClientWake, Waking, ClientMoves, Disconnected, ClientWorkers
    <3>4. QED
      BY <1>6, <3>1, <3>2, <3>3
  <2>4. QED
    BY <1>4, <2>1, <2>2, <2>3
<1>7. CASE ClientReadCorrupted(k) \/ DelayEnds(k) \/ ClientLeaves(k) \/ (Crash(k) /\ cli[k].pc # "discard")
  <2>1. KeepsRing /\ shm'.connect_ack = shm.connect_ack
    BY <1>1, <1>7 DEF ClientReadCorrupted, DelayEnds, ClientLeaves, Leaving, DropClient, Crash, Sections, KeepsRing
  <2>2. ~Up(k)' /\ cli[k].pc # "discard" /\ cli'[k].pc # "discard"
    BY <1>1, <1>7 DEF ClientReadCorrupted, Paused, DelayEnds, ClientMoves, Disconnected, ClientLeaves, Leaving,
                      Crash, Blank, Up, ClientWorkers
  <2>3. QED
    BY <1>4, <2>1, <2>2
<1>8. CASE Send(k) \/ Stop(k) \/ DropHandle(k)
  <2>1. shm' = shm /\ cli'[k].pc = cli[k].pc
    BY <1>1, <1>8 DEF Send, Stop, DropHandle, ClientWorkers
  <2>2. QED
    BY <1>4, <2>1 DEF KeepsRing, Up
<1>9. CASE Crash(k) /\ cli[k].pc = "discard"
  <2> SUFFICES ASSUME Sound PROVE ~Expected'
    BY <1>2 DEF KeepsFault, NoLeftover
  <2>1. shm' = shm /\ cli'[k].pc = "dead" /\ Up(k)
    BY <1>1, <1>9 DEF Crash, Blank, Up
  <2>2. QED
    BY <1>2, <2>1, OnlyWriter DEF Expected, SomeoneUp, Up
<1>10. CASE Write(k)
  <2> SUFFICES ASSUME Sound PROVE NoLeftover'
    BY <1>2 DEF KeepsFault, NoLeftover
  <2>1. cli[k].pc = "write" /\ cli'[k].pc = "signal" /\ Up(k)
    BY <1>1, <1>10 DEF Write, Writing, Up, ClientWorkers
  <2>2. \A j \in Clients : cli'[j].pc # "discard"
    BY <1>2, <2>1, OnlyWriter DEF Up
  <2>3. One(Discarding) = 0 /\ One(Discarding)' = 0
    BY <2>1, <2>2, OnlyWriter DEF Discarding, One
  <2>4. shm.c2s.count <= Len(shm.c2s.msgs) + One(srv.pc = "took") + 0
    BY <2>1, <2>3 DEF NoLeftover, Expected, SomeoneUp
  <2>5. PICK m : shm'.c2s.msgs = Append(shm.c2s.msgs, m) /\ shm'.c2s.count = shm.c2s.count + 1
    <3>1. shm'.c2s = Counted(shm.c2s, Message(k))
      BY <1>1, <1>10 DEF Write, Writing, Sections
    <3>2. QED
      BY <1>1, <3>1 DEF Counted, Rings
  <2>6. Len(Append(shm.c2s.msgs, m)) = Len(shm.c2s.msgs) + 1
    BY <1>1
  <2>7. shm'.c2s.count <= Len(shm'.c2s.msgs) + One(srv.pc = "took") + 0
    BY <1>1, <1>3, <2>4, <2>5, <2>6
  <2>8. QED
    BY <1>3, <2>3, <2>7 DEF NoLeftover
<1>11. CASE Discard(k)
  <2> SUFFICES ASSUME Sound PROVE NoLeftover'
    BY <1>2 DEF KeepsFault, NoLeftover
  <2>1. cli[k].pc = "write" /\ cli'[k].pc = "discard" /\ Up(k) /\ shm.c2s.msgs # <<>>
    BY <1>1, <1>11 DEF Discard, Discards, ClientMoves, Up, ClientWorkers
  <2>2. One(Discarding) = 0 /\ One(Discarding)' = 1
    BY <2>1, OnlyWriter DEF Discarding, One
  <2>3. shm.c2s.count <= Len(shm.c2s.msgs) + One(srv.pc = "took") + 0
    BY <2>1, <2>2 DEF NoLeftover, Expected, SomeoneUp
  <2>4. shm'.c2s.count = shm.c2s.count /\ shm'.c2s.msgs = Tail(shm.c2s.msgs)
    <3>1. shm'.c2s = Taken(shm.c2s)
      BY <1>1, <1>11 DEF Discard, Sections
    <3>2. QED
      BY <1>1, <3>1 DEF Taken, Rings
  <2>5. Len(Tail(shm.c2s.msgs)) = Len(shm.c2s.msgs) - 1
    BY <1>1, <2>1, TailIsSuffix
  <2>6. shm'.c2s.count <= Len(shm'.c2s.msgs) + One(srv.pc = "took") + 1
    BY <1>1, <1>3, <2>3, <2>4, <2>5
  <2>7. QED
    BY <1>3, <2>2, <2>6 DEF NoLeftover
<1>12. CASE Discount(k)
  <2> SUFFICES ASSUME Sound PROVE NoLeftover'
    BY <1>2 DEF KeepsFault, NoLeftover
  <2>1. cli[k].pc = "discard" /\ cli'[k].pc = "write" /\ Up(k)
    BY <1>1, <1>12 DEF Discount, Looks, Up, ClientWorkers
  <2>2. \A j \in Clients : cli'[j].pc # "discard"
    BY <1>2, <2>1, OnlyWriter DEF Up
  <2>3. One(Discarding) = 1 /\ One(Discarding)' = 0
    BY <2>1, <2>2 DEF Discarding, One
  <2>4. shm.c2s.count <= Len(shm.c2s.msgs) + One(srv.pc = "took") + 1
    BY <2>1, <2>3 DEF NoLeftover, Expected, SomeoneUp
  <2>5. shm.c2s.count >= Len(shm.c2s.msgs) + One(srv.pc = "took") + 1
    BY <2>3, Parts DEF Counts
  <2>6. shm'.c2s.count = shm.c2s.count - 1 /\ shm'.c2s.msgs = shm.c2s.msgs
    <3>1. shm'.c2s = Subtracted(shm.c2s) /\ shm.c2s.count >= 1
      BY <1>1, <1>3, <1>12, <2>5 DEF Discount, Sections
    <3>2. QED
      BY <1>1, <3>1, SubtractedCount
  <2>7. shm'.c2s.count <= Len(shm'.c2s.msgs) + One(srv.pc = "took") + 0
    BY <1>1, <1>3, <2>4, <2>6
  <2>8. QED
    BY <1>3, <2>3, <2>7 DEF NoLeftover
<1>13. QED
  BY <1>5, <1>6, <1>7, <1>8, <1>9, <1>10, <1>11, <1>12 DEF StepOf, ClientStep

(* A message that fits is refused only where the write raced with the server  *)
(* for the last message of a full ring.                                       *)
LEMMA RefusedRaced ==
  ASSUME IInv, NoLeftover, Sound, NEW k \in Clients, Refuse(k)
  PROVE  cli[k].tight \/ srv.pc = "took"
<1> SUFFICES ASSUME ~cli[k].tight, srv.pc # "took" PROVE FALSE
  OBVIOUS
<1>1. /\ shm.c2s.count \in Nat /\ shm.c2s.msgs \in Seq(Messages) /\ RingMax \in Nat \ {0}
  BY RingTypes, Limits DEF IInv, TypeOK, Types, Sections
<1>2. cli[k].pc = "write" /\ Up(k)
  BY DEF Refuse, Up
<1>3. One(Discarding) = 0 /\ One(srv.pc = "took") = 0
  BY <1>2, OnlyWriter DEF One
<1>4. shm.c2s.count <= Len(shm.c2s.msgs) + 0 + 0
  BY <1>2, <1>3 DEF NoLeftover, Expected, SomeoneUp
<1>5. shm.c2s.count >= RingMax /\ (shm.c2s.count = 0 \/ shm.c2s.msgs = <<>>)
  BY DEF Refuse, Refuses, Discards, Full
<1>6. shm.c2s.msgs = <<>> => Len(shm.c2s.msgs) = 0
  OBVIOUS
<1>7. QED
  BY <1>1, <1>4, <1>5, <1>6

LEMMA ObedientStep ==
  ASSUME IInv, NoLeftover, Sound, NEW k \in Clients, Obedient(k),
         StepOf(k), ~ClientReadCorrupted(k)
  PROVE  Obedient(k)'
<1>1. cli \in [Clients -> ClientWorkers] /\ cli[k] \in ClientWorkers
  BY DEF IInv, TypeOK, Types
<1>2. CASE Start(k) \/ SetRequest(k) \/ TakeAck(k) \/ TimesOut(k) \/ TimesOutEarly(k) \/ DelayEnds(k)
  <2>1. /\ cli'[k].asked = cli[k].asked /\ cli'[k].running = cli[k].running
        /\ cli'[k].shutdown = cli[k].shutdown
        /\ cli[k].pc \in {"idle", "req", "wait"} \/ cli'[k].pc = "open"
    BY <1>1, <1>2
    DEF Start, SetRequest, TakeAck, Taking, TimesOut, TimesOutEarly, AckTimeout, DelayEnds,
        ClientMoves, ClientWorkers
  <2>2. QED
    BY <2>1 DEF Obedient, Up
<1>3. CASE Open(k)
  <2>1. CASE cli[k].running
    <3>1. cli' = [cli EXCEPT ![k] = [cli[k] EXCEPT !.pc = "req"]]
      BY <1>3, <2>1 DEF Open, ClientMoves
    <3>2. /\ cli'[k].asked = cli[k].asked /\ cli'[k].running = cli[k].running
          /\ cli'[k].shutdown = cli[k].shutdown
      BY <1>1, <3>1 DEF ClientWorkers
    <3>3. QED
      BY <2>1, <3>2 DEF Obedient
  <2>2. CASE ~cli[k].running
    <3>1. cli'[k] = Blank("done")
      BY <1>1, <1>3, <2>2 DEF Open
    <3>2. QED
      BY <3>1 DEF Obedient, Blank
  <2>3. QED
    BY <2>1, <2>2
<1>4. CASE ClientLeaves(k) \/ Crash(k)
  <2>1. \E pc : cli'[k] = Blank(pc)
    BY <1>1, <1>4 DEF ClientLeaves, Leaving, Crash
  <2>2. QED
    BY <2>1 DEF Obedient, Blank
<1>5. CASE Send(k) \/ Stop(k) \/ DropHandle(k)
  <2>1. CASE Send(k)
    <3>1. /\ cli[k].running /\ cli'[k].running /\ cli'[k].asked = cli[k].asked
          /\ cli'[k].shutdown = cli[k].shutdown
      BY <1>1, <2>1 DEF Send, ClientWorkers
    <3>2. QED
      BY <3>1 DEF Obedient
  <2>2. CASE Stop(k)
    <3>1. cli[k].asked = "no" /\ cli'[k].asked = "stop" /\ cli'[k].running = cli[k].running
      BY <1>1, <2>2 DEF Stop, ClientWorkers
    <3>2. QED
      BY <3>1 DEF Obedient
  <2>3. CASE DropHandle(k)
    <3>1. cli'[k].asked = "drop"
      BY <1>1, <2>3 DEF DropHandle, ClientWorkers
    <3>2. QED
      BY <3>1 DEF Obedient
  <2>4. QED
    BY <1>5, <2>1, <2>2, <2>3
<1>6. CASE ClientPass(k)
  <2>1. cli' = [cli EXCEPT ![k] = Drained(cli[k], "send")]
    BY <1>6 DEF ClientPass
  <2>2. /\ cli'[k].pc = "send" /\ cli'[k].asked = cli[k].asked /\ ~cli'[k].shutdown
        /\ cli'[k].running = (cli[k].running /\ ~cli[k].shutdown)
    BY <1>1, <2>1 DEF Drained, ClientWorkers
  <2>3. QED
    BY <2>2 DEF Obedient, Up
<1>7. CASE Load(k) \/ Write(k) \/ Discard(k) \/ Discount(k) \/ Signal(k)
  <2>1. /\ cli'[k].pc \in {"send", "write", "discard", "signal"} /\ cli'[k].asked = cli[k].asked
        /\ cli'[k].running = cli[k].running /\ cli'[k].shutdown = cli[k].shutdown
    <3>1. CASE Load(k) \/ Discount(k)
      BY <1>1, <3>1 DEF Load, Discount, Looks, ClientWorkers
    <3>2. CASE Write(k) \/ Discard(k) \/ Signal(k)
      BY <1>1, <3>2 DEF Write, Writing, Discard, Signal, ClientMoves, ClientWorkers
    <3>3. QED
      BY <1>7, <3>1, <3>2
  <2>2. QED
    BY <2>1 DEF Obedient, Up
<1>8. CASE ClientWake(k)
  <2>1. /\ cli'[k].pc = "delay" \/ (cli'[k].pc = "top" /\ cli'[k].raced = cli[k].raced)
        /\ cli'[k].asked = cli[k].asked
        /\ cli'[k].running = cli[k].running /\ cli'[k].shutdown = cli[k].shutdown
        /\ cli'[k].queue = cli[k].queue
    BY <1>1, <1>8 DEF ClientWake, Waking, ClientMoves, Disconnected, ClientWorkers
  <2>2. cli[k].pc = "pause" \/ Flushed(k)
    BY <1>8 DEF ClientWake, Paused, Sendable, Flushed
  <2>3. QED
    BY <2>1, <2>2 DEF Obedient, Flushed, Up
<1>a. CASE Refuse(k)
  <2>1. /\ cli'[k].pc = "pause" /\ cli'[k].asked = cli[k].asked
        /\ cli'[k].running = cli[k].running /\ cli'[k].shutdown = cli[k].shutdown
        /\ cli'[k].raced = (cli[k].tight \/ srv.pc = "took")
    BY <1>1, <1>a DEF Refuse, ClientWorkers
  <2>2. cli'[k].raced
    BY <1>a, <2>1, RefusedRaced
  <2>3. QED
    BY <2>1, <2>2 DEF Obedient, Flushed, Up
<1>9. QED
  BY <1>2, <1>3, <1>4, <1>5, <1>6, <1>7, <1>8, <1>a DEF StepOf, ClientStep

LEMMA FlushingStep ==
  ASSUME IInv, Flushing, [Next]_vars PROVE Flushing'
<1>1. CASE (ServerStep /\ ~TakeNothing) \/ ServerStops
  <2>1. cli' = cli /\ fault' = fault
    BY <1>1 DEF ServerStep, ServerStops, TakeRequest, AckRequest, Pass, Read, Take, LookAgain, OnMessage,
                Wake, ServerEnds
  <2>2. NoLeftover'
    BY <1>1, LeftoverServer DEF ServerStep, Flushing
  <2>3. QED
    BY <2>1, <2>2 DEF Flushing, Obedient, Flushed, Up, Sound
<1>2. CASE ReadCorrupted \/ TakeNothing
  BY <1>2 DEF ReadCorrupted, TakeNothing, Flushing, NoLeftover, Sound
<1>3. ASSUME NEW k \in Clients, Followed, StepOf(k) PROVE Flushing'
  <2>1. NoLeftover'
    BY <1>3, LeftoverClient DEF Flushing
  <2>2. SUFFICES ASSUME Sound' PROVE \A j \in Clients : Obedient(j)'
    BY <2>1 DEF Flushing
  <2>3. Sound /\ \A j \in Clients : j # k => cli'[j] = cli[j]
    BY <1>3, <2>2, Parts, StepsAlone DEF KeepsFault
  <2>4. ~ClientReadCorrupted(k)
    BY <2>2 DEF ClientReadCorrupted, Sound
  <2>5. Obedient(k)'
    BY <1>3, <2>3, <2>4, ObedientStep DEF Flushing
  <2>6. \A j \in Clients : j # k => Obedient(j)'
    BY <2>3 DEF Flushing, Obedient, Flushed, Up
  <2>7. QED
    BY <2>5, <2>6
<1>4. CASE UNCHANGED vars
  BY <1>4 DEF vars, Flushing, Obedient, Flushed, NoLeftover, Expected, SomeoneUp, Up, Discarding, One, Sound
<1>5. QED
  BY <1>1, <1>2, <1>3, <1>4 DEF Next, StepOf, ServerStep, ClientStep

(* Whoever leaves its loop has seen running cleared.                          *)
LEMMA LeavesStopped ==
  ASSUME Types, [Next]_vars, NEW k \in Clients, cli[k].pc = "top", cli'[k].pc = "done"
  PROVE  ~cli[k].running
<1>1. cli \in [Clients -> ClientWorkers] /\ cli[k] \in ClientWorkers /\ cli'[k] # cli[k]
  BY DEF Types
<1>2. cli' # cli
  BY <1>1
<1>3. ~ServerStep /\ ~ServerStops /\ ~ReadCorrupted /\ ~UNCHANGED vars
  BY <1>2 DEF vars, ServerStep, ServerStops, ReadCorrupted, TakeRequest, AckRequest, Pass, Read, Take,
              LookAgain, TakeNothing, OnMessage, Wake, ServerEnds
<1>4. PICK j \in Clients : Followed /\ StepOf(j)
  BY <1>3 DEF Next, StepOf, ClientStep
<1>5. j = k
  BY <1>1, <1>4, StepsAlone
<1>6. ClientPass(k) \/ ClientLeaves(k) \/ Crash(k) \/ Send(k) \/ Stop(k) \/ DropHandle(k)
  BY <1>4, <1>5
  DEF StepOf, ClientStep, Open, SetRequest, TakeAck, Taking, TimesOut, AckTimeout, Load, Write, Writing,
      Discard, Discount, Refuse, Signal, ClientWake, Paused, DelayEnds, TimesOutEarly,
      ClientReadCorrupted, Start
<1>7. ASSUME ClientPass(k) PROVE FALSE
  <2>1. cli'[k] = Drained(cli[k], "send")
    BY <1>1, <1>7 DEF ClientPass
  <2>2. QED
    BY <1>1, <2>1 DEF Drained, ClientWorkers
<1>8. ~Crash(k)
  BY <1>1 DEF Crash, Blank
<1>9. ~Send(k) /\ ~Stop(k) /\ ~DropHandle(k)
  <2>1. Send(k) \/ Stop(k) \/ DropHandle(k) => cli'[k].pc = cli[k].pc
    BY <1>1 DEF Send, Stop, DropHandle, ClientWorkers
  <2>2. QED
    BY <2>1
<1>10. QED
  BY <1>6, <1>7, <1>8, <1>9 DEF ClientLeaves, Leaving

(* AutoClient::stop: Shutdown lets out what was accepted before it, however   *)
(* the rounds of the two workers interleave, through reconnections and a      *)
(* crash, as long as no ring is found corrupted: what stays behind fits no    *)
(* ring, or its last write raced with the server for the last message of a    *)
(* full one (write_message fails, ring.rs).                                   *)
THEOREM StopIsObeyed == Spec => StopFlushes
<1>1. Init => Flushing
  <2> SUFFICES ASSUME Init PROVE Flushing
    OBVIOUS
  <2>1. shm.c2s.count = 0 /\ Len(shm.c2s.msgs) = 0
    BY DEF Init, Fresh, EmptyRing
  <2>2. NoLeftover
    BY <2>1 DEF NoLeftover, One
  <2>3. \A k \in Clients : cli[k] = Blank("idle")
    BY DEF Init
  <2>4. QED
    BY <2>2, <2>3 DEF Flushing, Obedient, Blank
<1>2. IInv /\ Flushing /\ [Next]_vars => Flushing'
  BY FlushingStep
<1>3. IInv /\ Flushing /\ [Next]_vars =>
        [\A k \in Clients :
           Sound /\ cli[k].asked = "stop" /\ cli[k].pc = "top" /\ cli'[k].pc = "done"
              => cli[k].queue = <<>> \/ Head(cli[k].queue) \in TooLarge \/ cli[k].raced]_vars
  <2> SUFFICES ASSUME IInv, Flushing, [Next]_vars, NEW k \in Clients, cli[k].pc = "top",
                      cli'[k].pc = "done", cli[k].asked = "stop", Sound
               PROVE  cli[k].queue = <<>> \/ Head(cli[k].queue) \in TooLarge \/ cli[k].raced
    OBVIOUS
  <2>1. ~cli[k].running
    BY Parts, LeavesStopped
  <2>2. Obedient(k)
    BY DEF Flushing
  <2>3. QED
    BY <2>1, <2>2 DEF Obedient, Flushed
<1>4. QED
  BY <1>1, <1>2, <1>3, Invariance, PTL DEF Spec, StopFlushes
=============================================================================
