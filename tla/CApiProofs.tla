----------------------------- MODULE CApiProofs -----------------------------
(* Proofs about module CApi: its type correctness, and that each direction is *)
(* the queue of LossyFifo, for any number of messages, lengths and calls.     *)
EXTENDS CApiInvariant, SequenceTheorems, TLAPS

LEMMA EndFacts ==
  /\ Ends = {"server", "client"} /\ "server" \in Ends /\ "client" \in Ends
  /\ \A e \in Ends : /\ Peer(e) \in Ends /\ Peer(Peer(e)) = e /\ Peer(e) # e
                     /\ \A d \in Ends : d # e <=> d = Peer(e)
  BY DEF Ends, Peer

LEMMA Limits ==
  /\ MaxSends \in Nat /\ MaxTries \in Nat /\ EarlyTimeouts \in Nat /\ Lens \subseteq Nat
  /\ RingMax \in Nat \ {0} /\ Generations \in Nat \ {0, 1}
  BY ChannelAssumption, CApiAssumption

-----------------------------------------------------------------------------
(* Rings and sections.                                                        *)
LEMMA RingOps ==
  ASSUME NEW r \in Rings
  PROVE  /\ \A m \in Messages : Counted(r, m) \in Rings
         /\ r.msgs # <<>> => Taken(r) \in Rings /\ Head(r.msgs) \in Messages
         /\ Subtracted(r) \in Rings
         /\ \A b \in BOOLEAN : [r EXCEPT !.data = b] \in Rings
<1> USE Limits DEF Rings
<1>1. Subtracted(r) \in Rings
  <2>1. (IF r.count = 0 THEN 2 * RingMax + 1 ELSE r.count - 1) \in Nat
    OBVIOUS
  <2>2. QED
    BY <2>1 DEF Subtracted
<1>2. ASSUME NEW m \in Messages PROVE Counted(r, m) \in Rings
  <2>1. Append(r.msgs, m) \in Seq(Messages) /\ r.count + 1 \in Nat
    OBVIOUS
  <2>2. QED
    BY <2>1 DEF Counted
<1>3. ASSUME r.msgs # <<>> PROVE Taken(r) \in Rings /\ Head(r.msgs) \in Messages
  <2>1. Tail(r.msgs) \in Seq(Messages) /\ Head(r.msgs) \in Messages
    BY <1>3
  <2>2. QED
    BY <2>1 DEF Taken
<1>4. \A b \in BOOLEAN : [r EXCEPT !.data = b] \in Rings
  OBVIOUS
<1>5. QED
  BY <1>1, <1>2, <1>3, <1>4

LEMMA RingTypes ==
  ASSUME shm \in Sections, NEW e \in Ends
  PROVE  /\ In(e) \in Rings /\ In(e).count \in Nat /\ In(e).msgs \in Seq(Messages)
         /\ Len(In(e).msgs) \in Nat /\ DOMAIN In(e).msgs = 1..Len(In(e).msgs)
         /\ \A i \in DOMAIN In(e).msgs : In(e).msgs[i] \in Messages /\ In(e).msgs[i].id \in Nat
<1>1. In(e) \in Rings
  <2>1. shm.c2s \in Rings /\ shm.s2c \in Rings
    BY DEF Sections
  <2>2. QED
    BY <2>1 DEF In, RingTo
<1>2. In(e).count \in Nat /\ In(e).msgs \in Seq(Messages)
  BY <1>1 DEF Rings
<1>3. \A i \in DOMAIN In(e).msgs : In(e).msgs[i] \in Messages
  BY <1>2
<1>4. \A m \in Messages : m.id \in Nat
  BY DEF Messages
<1>5. QED
  BY <1>1, <1>2, <1>3, <1>4, LenProperties

LEMMA CacheTypes ==
  ASSUME cache \in [Ends -> Caches], NEW e \in Ends
  PROVE  /\ cache[e].buffer \in Messages \cup {NoMessage} /\ cache[e].buffer.id \in Nat
         /\ cache[e].pending \in BOOLEAN
<1>1. \A m \in Messages \cup {NoMessage} : m.id \in Nat
  BY DEF Messages, NoMessage
<1>2. \A c \in Caches : c.buffer \in Messages \cup {NoMessage} /\ c.pending \in BOOLEAN
  BY DEF Caches
<1>3. QED
  BY <1>1, <1>2

(* One ring is replaced.                                                      *)
LEMMA RingUpdated ==
  ASSUME shm \in Sections, NEW e \in Ends, NEW r \in Rings, shm' = [shm EXCEPT ![RingTo(e)] = r]
  PROVE  /\ shm' \in Sections /\ In(e)' = r /\ In(Peer(e))' = In(Peer(e))
         /\ shm'.connect_ack = shm.connect_ack /\ shm'.client_state = shm.client_state
<1>1. CASE e = "server"
  <2>1. shm' = [shm EXCEPT !.c2s = r]
    BY <1>1 DEF RingTo
  <2>2. QED
    BY <1>1, <2>1 DEF Sections, In, RingTo, Peer
<1>2. CASE e = "client"
  <2>1. shm' = [shm EXCEPT !.s2c = r]
    BY <1>2 DEF RingTo
  <2>2. QED
    BY <1>2, <2>1 DEF Sections, In, RingTo, Peer
<1>3. QED
  BY <1>1, <1>2, EndFacts

(* The rest of the section is changed, or rings are reset that are empty.     *)
LEMMA SectionOps ==
  ASSUME NEW x \in Sections
  PROVE  /\ {ServerReady(x), ResetRings(x), ClientReady(x), Acknowledge(x), Hello(x), Request(x),
             GiveUp(x), DropClient(x), [x EXCEPT !.connect_req = FALSE],
             [x EXCEPT !.connect_ack = FALSE]} \subseteq Sections
         /\ \A b \in BOOLEAN : DropServer(x, b) \in Sections
<1>1. ResetRings(x) \in Sections
  <2>1. x.c2s \in Rings /\ x.s2c \in Rings /\ <<>> \in Seq(Messages)
    BY DEF Sections
  <2>2. ResetRing(x.c2s) \in Rings /\ ResetRing(x.s2c) \in Rings
    BY <2>1 DEF ResetRing, Rings
  <2>3. QED
    BY <2>2 DEF Sections, ResetRings
<1>2. ServerReady(x) \in Sections
  <2>1. (x.generation + 1) % Generations \in 0..(Generations - 1)
    BY Limits DEF Sections
  <2>2. QED
    BY <2>1 DEF Sections, ServerReady
<1>3. {ClientReady(x), Acknowledge(x), Hello(x), Request(x), GiveUp(x)} \subseteq Sections
  BY DEF Sections, ClientReady, Acknowledge, Hello, Request, GiveUp
<1>4. {DropClient(x), [x EXCEPT !.connect_req = FALSE], [x EXCEPT !.connect_ack = FALSE]} \subseteq Sections
  BY DEF Sections, DropClient
<1>5. \A b \in BOOLEAN : DropServer(x, b) \in Sections
  BY DEF Sections, DropServer, MarkDisconnected
<1>6. QED
  BY <1>1, <1>2, <1>3, <1>4, <1>5

-----------------------------------------------------------------------------
(* A direction as the queue of LossyFifo sees it, and the moves of that queue.*)
Queue(e)   == In(e).msgs
Total(e)   == accepted[Peer(e)]
Busy(e) == tx[Peer(e)].pc # "idle"

Moves(e) ==
  \/ UNCHANGED <<Queue(e), Total(e), Received(e), Busy(e)>>
  \/ ~Busy(e) /\ Busy(e)' /\ UNCHANGED <<Queue(e), Total(e), Received(e)>>
  \/ /\ \E len \in Lens : Queue(e)' = Append(Queue(e), [id |-> Total(e) + 1, len |-> len])
     /\ Busy(e) /\ Busy(e)' /\ Len(Queue(e)) < RingMax /\ Total(e)' = Total(e) + 1
     /\ UNCHANGED Received(e)
  \/ /\ Busy(e) /\ Busy(e)' /\ Queue(e) # <<>> /\ Queue(e)' = Tail(Queue(e))
     /\ UNCHANGED <<Total(e), Received(e)>>
  \/ Busy(e) /\ ~Busy(e)' /\ UNCHANGED <<Queue(e), Total(e), Received(e)>>
  \/ /\ Queue(e) # <<>> /\ Received(e) = NoMessage
     /\ Received(e)' = Head(Queue(e)) /\ Queue(e)' = Tail(Queue(e))
     /\ UNCHANGED <<Total(e), Busy(e)>>
  \/ /\ Received(e) # NoMessage /\ Received(e)' = NoMessage
     /\ UNCHANGED <<Queue(e), Total(e), Busy(e)>>

(* What a direction does that is torn already, or now, is not followed.       *)
Follows(e) == (torn[e] => torn'[e]) /\ (~torn'[e] => Moves(e))

LEMMA FollowsAreSteps ==
  ASSUME Types, Types'
  PROVE  /\ Follows("server") => [C2S!FifoNext]_C2S!fifo
         /\ Follows("client") => [S2C!FifoNext]_S2C!fifo
<1> USE DEF Moves, Queue, Total, Busy, In, RingTo, Peer, NoMessage, Intact
<1>1. ASSUME Follows("server") PROVE [C2S!FifoNext]_C2S!fifo
  <2>1. torn["server"] \in BOOLEAN /\ torn'["server"] \in BOOLEAN
    BY EndFacts DEF Types
  <2>2. CASE torn["server"]
    BY <1>1, <2>1, <2>2 DEF Follows, C2S!fifo
  <2>3. CASE ~torn["server"] /\ torn'["server"]
    BY <2>1, <2>3 DEF C2S!FifoNext, C2S!Break, C2S!NoMessage
  <2>4. CASE ~torn["server"] /\ ~torn'["server"]
    <3>1. Moves("server") /\ torn["server"] = FALSE /\ torn'["server"] = FALSE
      BY <1>1, <2>1, <2>4 DEF Follows
    <3>2. QED
      BY <3>1
      DEF C2S!FifoNext, C2S!fifo, C2S!BeginWrite, C2S!Accept, C2S!Drop, C2S!EndWrite,
          C2S!Receive, C2S!Return, C2S!NoMessage
  <2>5. QED
    BY <2>1, <2>2, <2>3, <2>4
<1>2. ASSUME Follows("client") PROVE [S2C!FifoNext]_S2C!fifo
  <2>1. torn["client"] \in BOOLEAN /\ torn'["client"] \in BOOLEAN
    BY EndFacts DEF Types
  <2>2. CASE torn["client"]
    BY <1>2, <2>1, <2>2 DEF Follows, S2C!fifo
  <2>3. CASE ~torn["client"] /\ torn'["client"]
    BY <2>1, <2>3 DEF S2C!FifoNext, S2C!Break, S2C!NoMessage
  <2>4. CASE ~torn["client"] /\ ~torn'["client"]
    <3>1. Moves("client") /\ torn["client"] = FALSE /\ torn'["client"] = FALSE
      BY <1>2, <2>1, <2>4 DEF Follows
    <3>2. QED
      BY <3>1
      DEF S2C!FifoNext, S2C!fifo, S2C!BeginWrite, S2C!Accept, S2C!Drop, S2C!EndWrite,
          S2C!Receive, S2C!Return, S2C!NoMessage
  <2>5. QED
    BY <2>1, <2>2, <2>3, <2>4
<1>3. QED
  BY <1>1, <1>2

LEMMA InitInv == Init => IInv /\ C2S!FifoInit /\ S2C!FifoInit
<1> SUFFICES ASSUME Init PROVE IInv /\ C2S!FifoInit /\ S2C!FifoInit
  OBVIOUS
<1> USE EndFacts, Limits
<1>0. <<>> \in Seq(Messages) /\ Len(<<>>) = 0
  OBVIOUS
<1>1. EmptyRing \in Rings
  BY <1>0 DEF EmptyRing, Rings
<1>2. shm \in Sections
  BY <1>1 DEF Init, Started, Fresh, Sections
<1>3. Types
  <2>1. anonymous \in BOOLEAN /\ tries \in 0..MaxTries /\ early \in 0..EarlyTimeouts
    BY DEF Init, Started
  <2>2. /\ ctl \in [Ends -> {"none", "wait", "ready", "stopped", "out", "req"}]
        /\ ctl["server"] = "none" /\ ctl["client"] = "out"
    BY DEF Init
  <2>3. /\ up \in [Ends -> BOOLEAN] /\ tx \in [Ends -> Senders]
        /\ rx \in [Ends -> {"idle", "take", "subtract", "give", "poll", "poll forever"}]
        /\ torn \in [Ends -> BOOLEAN] /\ cache \in [Ends -> Caches]
        /\ accepted \in [Ends -> Nat] /\ given \in [Ends -> Nat]
    BY DEF Init, Senders, Caches, NoSend
  <2>4. QED
    BY <1>2, <2>1, <2>2, <2>3 DEF Types
<1>4. ASSUME NEW e \in Ends
      PROVE  /\ In(e) = EmptyRing /\ In(e).msgs = <<>> /\ In(e).count = 0
             /\ ~up[e] /\ tx[e].pc = "idle" /\ rx[e] = "idle"
             /\ cache[e].buffer = NoMessage /\ cache[e].buffer.id = 0 /\ ~cache[e].pending
             /\ accepted[e] = 0 /\ given[e] = 0 /\ torn[e] = FALSE
  BY DEF Init, Started, Fresh, EmptyRing, In, RingTo, NoSend, NoMessage
<1>5. Calls
  BY <1>4 DEF Calls
<1>6. Unanswered
  BY <1>4 DEF Unanswered, Init, Started, Fresh
<1>7. Budget
  BY <1>4 DEF Budget, One, Writing
<1>8. ASSUME NEW e \in Ends PROVE Direction(e)
  <2>1. /\ In(e).msgs = <<>> /\ In(e).count = 0 /\ Len(In(e).msgs) = 0
        /\ rx[e] = "idle" /\ tx[Peer(e)].pc = "idle" /\ ~cache[e].pending
        /\ cache[e].buffer.id = 0 /\ given[e] = 0 /\ accepted[Peer(e)] = 0
    BY <1>0, <1>4
  <2>2. Hand(e) /\ Line(e)
    BY <2>1 DEF Hand, Line, HasMessage
  <2>3. Counts(e)
    BY <2>1 DEF Counts, One
  <2>4. QED
    BY <2>2, <2>3 DEF Direction
<1>9. IInv
  BY <1>3, <1>5, <1>6, <1>7, <1>8 DEF IInv
<1>10. C2S!FifoInit
  <2>1. shm.c2s.msgs = <<>>
    BY <1>4 DEF In, RingTo
  <2>2. Received("server") = NoMessage /\ tx["client"].pc = "idle" /\ accepted["client"] = 0
        /\ torn["server"] = FALSE
    BY <1>4 DEF Received
  <2>3. QED
    BY <2>1, <2>2 DEF C2S!FifoInit, C2S!NoMessage, NoMessage, Intact
<1>11. S2C!FifoInit
  <2>1. shm.s2c.msgs = <<>>
    BY <1>4 DEF In, RingTo
  <2>2. Received("client") = NoMessage /\ tx["server"].pc = "idle" /\ accepted["server"] = 0
        /\ torn["client"] = FALSE
    BY <1>4 DEF Received
  <2>3. QED
    BY <2>1, <2>2 DEF S2C!FifoInit, S2C!NoMessage, NoMessage, Intact
<1>12. QED
  BY <1>9, <1>10, <1>11

-----------------------------------------------------------------------------
(* A direction that a step leaves alone: its queue stutters, and its part of  *)
(* the invariant stays.                                                       *)
Still(e) ==
  /\ In(e)'.msgs = In(e).msgs /\ In(e)'.count = In(e).count
  /\ tx'[Peer(e)].pc = tx[Peer(e)].pc /\ torn'[e] = torn[e]
  /\ cache'[e] = cache[e] /\ given'[e] = given[e] /\ accepted'[Peer(e)] = accepted[Peer(e)]
  /\ \/ rx'[e] = rx[e]
     \/ {rx[e], rx'[e]} \subseteq {"idle", "take", "poll", "poll forever"} /\ rx'[e] # "take"

LEMMA StillKeeps ==
  ASSUME NEW e \in Ends, Direction(e), Still(e)
  PROVE  Direction(e)' /\ Follows(e)
<1>1. Moves(e) /\ torn'[e] = torn[e]
  BY DEF Still, Moves, Queue, Total, Busy, Received
<1>2. ASSUME ~torn[e] PROVE Hand(e)' /\ Line(e)' /\ Counts(e)'
  <2>1. Hand(e)'
    BY <1>2 DEF Direction, Hand, Still, HasMessage
  <2>2. Line(e)'
    BY <1>2 DEF Direction, Line, Still
  <2>3. Counts(e)'
    <3>1. One(rx[e] = "subtract")' = One(rx[e] = "subtract")
          /\ One(tx[Peer(e)].pc = "discarded")' = One(tx[Peer(e)].pc = "discarded")
      BY DEF Still, One
    <3>2. QED
      BY <1>2, <3>1 DEF Direction, Counts, Still
  <2>4. QED
    BY <2>1, <2>2, <2>3
<1>3. QED
  BY <1>1, <1>2 DEF Direction, Follows

(* How the following lemmas end.                                              *)
LEMMA Followed ==
  ASSUME NEW e \in Ends, torn' = torn,
         ~torn[e] => Hand(e)' /\ Line(e)' /\ Counts(e)' /\ Moves(e)
  PROVE  Direction(e)' /\ Follows(e)
  BY DEF Direction, Follows

(* The steps that connect an end, of which the directions know nothing: the   *)
(* rings are reset when they are empty.                                       *)
Connecting ==
  \/ WaitForClient \/ TakeRequest \/ SeeHello \/ AckRequest \/ WaitTimesOut
  \/ Connect \/ SetRequest \/ TakeAck \/ SeeReady \/ ConnectTimesOut
SameData ==
  tx' = tx /\ rx' = rx /\ torn' = torn /\ cache' = cache /\ accepted' = accepted /\ given' = given

LEMMA ConnectingFrame == Connecting => SameData /\ anonymous' = anonymous
  BY DEF Connecting, SameData, WaitForClient, TakeRequest, SeeHello, AckRequest, WaitTimesOut,
         Connect, SetRequest, TakeAck, SeeReady, ConnectTimesOut, Connected

KeepsRings == \A e \in Ends : In(e)'.msgs = In(e).msgs /\ In(e)'.count = In(e).count

LEMMA SameSection == shm' = shm => KeepsRings
  BY DEF KeepsRings, In

LEMMA SameRings == shm'.c2s = shm.c2s /\ shm'.s2c = shm.s2c => KeepsRings
  BY EndFacts DEF KeepsRings, In, RingTo

LEMMA ResetKeeps ==
  ASSUME NEW x \in Sections, shm \in Sections, x.c2s = shm.c2s, x.s2c = shm.s2c,
         \A e \in Ends : In(e).count = 0 /\ In(e).msgs = <<>>,
         shm' = ServerReady(ResetRings(x))
  PROVE  KeepsRings /\ shm'.connect_ack = x.connect_ack /\ shm'.client_state = x.client_state
<1>1. /\ shm'.c2s = ResetRing(x.c2s) /\ shm'.s2c = ResetRing(x.s2c)
      /\ shm'.connect_ack = x.connect_ack /\ shm'.client_state = x.client_state
  BY DEF ServerReady, ResetRings, Sections
<1>2. x.c2s \in Rings /\ x.s2c \in Rings
  BY DEF Sections
<1>3. \A r \in Rings : ResetRing(r).count = 0 /\ ResetRing(r).msgs = <<>>
  BY DEF ResetRing, Rings
<1>4. \A e \in Ends : In(e)'.count = 0 /\ In(e)'.msgs = <<>>
  BY <1>1, <1>2, <1>3, EndFacts DEF In, RingTo
<1>5. QED
  BY <1>1, <1>4 DEF KeepsRings

LEMMA ConnectingTypes ==
  ASSUME Types, Connecting PROVE Types'
<1>1. /\ shm \in Sections /\ anonymous \in BOOLEAN
      /\ ctl \in [Ends -> {"none", "wait", "ready", "stopped", "out", "req"}]
      /\ ctl["server"] \in {"none", "wait", "ready", "stopped"}
      /\ ctl["client"] \in {"out", "req", "wait", "none"}
      /\ up \in [Ends -> BOOLEAN] /\ tries \in 0..MaxTries /\ early \in 0..EarlyTimeouts
  BY DEF Types
<1>2. shm' \in Sections
  <2>1. CASE TakeRequest
    <3> DEFINE x == [shm EXCEPT !.connect_req = FALSE]
    <3>1. x \in Sections
      BY <1>1, SectionOps
    <3>2. ResetRings(x) \in Sections
      BY <3>1, SectionOps
    <3>3. shm' \in {x, ServerReady(ResetRings(x))}
      BY <2>1 DEF TakeRequest, Accepts
    <3>4. QED
      BY <3>1, <3>2, <3>3, SectionOps
  <2>2. CASE SeeHello
    <3>1. ResetRings(shm) \in Sections
      BY <1>1, SectionOps
    <3>2. QED
      BY <2>2, <3>1, SectionOps DEF SeeHello, Accepts
  <2>3. CASE AckRequest
    <3>1. ClientReady(shm) \in Sections
      BY <1>1, SectionOps
    <3>2. QED
      BY <2>3, <3>1, SectionOps DEF AckRequest
  <2>4. CASE TakeAck
    <3> DEFINE x == [shm EXCEPT !.connect_ack = FALSE]
    <3>1. x \in Sections /\ shm' \in {x, GiveUp(x)}
      BY <1>1, <2>4, SectionOps DEF TakeAck
    <3>2. QED
      BY <3>1, SectionOps
  <2>5. CASE Connect \/ SetRequest \/ ConnectTimesOut
    BY <1>1, <2>5, SectionOps DEF Connect, SetRequest, ConnectTimesOut
  <2>6. CASE WaitForClient \/ WaitTimesOut \/ SeeReady
    BY <1>1, <2>6 DEF WaitForClient, WaitTimesOut, SeeReady
  <2>7. QED
    BY <2>1, <2>2, <2>3, <2>4, <2>5, <2>6 DEF Connecting
<1>3. /\ ctl' \in [Ends -> {"none", "wait", "ready", "stopped", "out", "req"}]
      /\ ctl'["server"] \in {"none", "wait", "ready", "stopped"}
      /\ ctl'["client"] \in {"out", "req", "wait", "none"}
  <2>1. /\ \A pc \in {"none", "wait", "ready"} : At("server", pc) => ctl' = [ctl EXCEPT !["server"] = pc]
        /\ \A pc \in {"none", "wait", "req", "out"} : At("client", pc) => ctl' = [ctl EXCEPT !["client"] = pc]
    BY DEF At
  <2>2. \/ ctl' = ctl
        \/ \E pc \in {"none", "wait", "ready"} : ctl' = [ctl EXCEPT !["server"] = pc]
        \/ \E pc \in {"none", "wait", "req", "out"} : ctl' = [ctl EXCEPT !["client"] = pc]
    BY <2>1 DEF Connecting, WaitForClient, TakeRequest, SeeHello, AckRequest, WaitTimesOut, Accepts,
                Connect, SetRequest, TakeAck, SeeReady, ConnectTimesOut, Connected
  <2>3. QED
    BY <1>1, <2>2, EndFacts
<1>4. up' \in [Ends -> BOOLEAN]
  <2>1. up' = up \/ \E e \in Ends : up' = [up EXCEPT ![e] = TRUE]
    BY EndFacts
    DEF Connecting, WaitForClient, TakeRequest, SeeHello, AckRequest, WaitTimesOut,
        Connect, SetRequest, TakeAck, SeeReady, ConnectTimesOut, Connected
  <2>2. QED
    BY <1>1, <2>1
<1>5. tries' \in 0..MaxTries
  <2>1. tries' = tries \/ (tries < MaxTries /\ tries' = tries + 1)
    BY DEF Connecting, WaitForClient, TakeRequest, SeeHello, AckRequest, WaitTimesOut,
           Connect, SetRequest, TakeAck, SeeReady, ConnectTimesOut, Connected
  <2>2. QED
    BY <1>1, <2>1, Limits
<1>6. early' \in 0..EarlyTimeouts
  <2>1. early' = early \/ (early < EarlyTimeouts /\ early' = early + 1)
    BY DEF Connecting, WaitForClient, TakeRequest, SeeHello, AckRequest, WaitTimesOut,
           Connect, SetRequest, TakeAck, SeeReady, ConnectTimesOut, Connected
  <2>2. QED
    BY <1>1, <2>1, Limits
<1>7. QED
  BY <1>1, <1>2, <1>3, <1>4, <1>5, <1>6, ConnectingFrame DEF SameData, Types

(* While the server has let nobody in, nobody is connected: its first answer  *)
(* is what a client waits for.                                                *)
LEMMA ConnectingStep ==
  ASSUME Types, Calls, Unanswered, Connecting PROVE Calls' /\ Unanswered' /\ KeepsRings
<1>1. /\ shm \in Sections /\ ctl \in [Ends -> {"none", "wait", "ready", "stopped", "out", "req"}]
      /\ up \in [Ends -> BOOLEAN] /\ tx' = tx /\ rx' = rx
  BY ConnectingFrame DEF Types, SameData
<1>2. /\ up["server"] => ctl["server"] = "none"
      /\ up["client"] => ctl["client"] = "none"
      /\ \A e \in Ends : ~up[e] => tx[e].pc = "idle" /\ rx[e] = "idle"
  BY EndFacts DEF Calls
<1>3. CASE WaitForClient \/ WaitTimesOut
  <2>1. /\ shm' = shm /\ up' = up /\ ~up["server"] /\ ctl'["client"] = ctl["client"]
        /\ ctl["server"] # "stopped"
    BY <1>1, <1>2, <1>3, EndFacts DEF WaitForClient, WaitTimesOut, At, Idle
  <2>2. Calls'
    BY <1>1, <1>2, <2>1, EndFacts DEF Calls
  <2>3. QED
    BY <2>1, <2>2, SameSection DEF Unanswered, In
<1>4. CASE TakeRequest
  <2> DEFINE x == [shm EXCEPT !.connect_req = FALSE]
  <2>1. /\ ~up["server"] /\ up' = up /\ ctl["server"] = "wait" /\ ctl'["client"] = ctl["client"]
        /\ x \in Sections /\ x.c2s = shm.c2s /\ x.s2c = shm.s2c
        /\ x.connect_ack = shm.connect_ack /\ x.client_state = shm.client_state
    <3>1. ~up["server"] /\ up' = up /\ ctl["server"] = "wait"
      BY <1>1, <1>2, <1>4, EndFacts DEF TakeRequest
    <3>2. ctl'["client"] = ctl["client"]
      BY <1>1, <1>4, EndFacts DEF TakeRequest, Accepts, At
    <3>3. x \in Sections
      BY <1>1, SectionOps
    <3>4. /\ x.c2s = shm.c2s /\ x.s2c = shm.s2c
          /\ x.connect_ack = shm.connect_ack /\ x.client_state = shm.client_state
      BY <1>1 DEF Sections
    <3>5. QED
      BY <3>1, <3>2, <3>3, <3>4
  <2>2. /\ ~up["client"] /\ ~shm.connect_ack /\ shm.client_state # "READY"
        /\ \A e \in Ends : In(e).count = 0 /\ In(e).msgs = <<>>
    BY <2>1 DEF Unanswered
  <2>3. shm' = x \/ shm' = ServerReady(ResetRings(x))
    BY <1>4 DEF TakeRequest, Accepts
  <2>4. KeepsRings /\ shm'.connect_ack = shm.connect_ack /\ shm'.client_state = shm.client_state
    <3>1. CASE shm' = x
      BY <2>1, <3>1, SameRings
    <3>2. CASE shm' = ServerReady(ResetRings(x))
      BY <1>1, <2>1, <2>2, <3>2, ResetKeeps
    <3>3. QED
      BY <2>3, <3>1, <3>2
  <2>5. Calls'
    BY <1>1, <1>2, <2>1, EndFacts DEF Calls
  <2>6. Unanswered'
    BY <2>1, <2>2, <2>4 DEF Unanswered, KeepsRings
  <2>7. QED
    BY <2>4, <2>5, <2>6
<1>5. CASE SeeHello
  <2>1. /\ ~up["server"] /\ up' = up /\ ctl["server"] = "wait" /\ ctl'["client"] = ctl["client"]
        /\ shm' = ServerReady(ResetRings(shm))
    BY <1>1, <1>2, <1>5, EndFacts DEF SeeHello, Accepts, At
  <2>2. /\ ~up["client"] /\ ~shm.connect_ack /\ shm.client_state # "READY"
        /\ \A e \in Ends : In(e).count = 0 /\ In(e).msgs = <<>>
    BY <2>1 DEF Unanswered
  <2>3. KeepsRings /\ shm'.connect_ack = shm.connect_ack /\ shm'.client_state = shm.client_state
    BY <1>1, <2>1, <2>2, ResetKeeps
  <2>4. Calls'
    BY <1>1, <1>2, <2>1, EndFacts DEF Calls
  <2>5. Unanswered'
    BY <2>1, <2>2, <2>3 DEF Unanswered, KeepsRings
  <2>6. QED
    BY <2>3, <2>4, <2>5
<1>6. CASE AckRequest
  <2>1. /\ up'["server"] /\ ctl'["server"] = "none" /\ up'["client"] = up["client"]
        /\ ctl'["client"] = ctl["client"] /\ shm'.c2s = shm.c2s /\ shm'.s2c = shm.s2c
    BY <1>1, <1>6, EndFacts DEF AckRequest, At, ClientReady, Acknowledge, Sections
  <2>2. Calls'
    BY <1>1, <1>2, <2>1, EndFacts DEF Calls
  <2>3. QED
    BY <2>1, <2>2, SameRings DEF Unanswered
<1>7. CASE Connect \/ SetRequest \/ ConnectTimesOut
  <2>1. /\ up' = up /\ ctl'["server"] = ctl["server"] /\ ~up["client"]
        /\ shm'.c2s = shm.c2s /\ shm'.s2c = shm.s2c /\ shm'.connect_ack = shm.connect_ack
        /\ shm'.client_state \in {shm.client_state, "HELLO", "IDLE"}
    BY <1>1, <1>2, <1>7, EndFacts
    DEF Connect, SetRequest, ConnectTimesOut, At, Hello, Request, GiveUp, Sections
  <2>2. Calls'
    BY <1>1, <1>2, <2>1, EndFacts DEF Calls
  <2>3. KeepsRings
    BY <2>1, SameRings
  <2>4. QED
    BY <2>1, <2>2, <2>3 DEF Unanswered, KeepsRings
<1>8. CASE TakeAck \/ SeeReady
  <2>1. /\ up'["server"] = up["server"] /\ ctl'["server"] = ctl["server"]
        /\ up'["client"] => ctl'["client"] = "none"
        /\ shm'.c2s = shm.c2s /\ shm'.s2c = shm.s2c
        /\ shm.connect_ack \/ shm.client_state = "READY"
        /\ up["client"] => up'["client"]
    <3>1. ctl["client"] = "wait" /\ ~up["client"]
      BY <1>2, <1>8 DEF TakeAck, SeeReady
    <3>2. \/ up' = up /\ ctl' = [ctl EXCEPT !["client"] = "out"]
          \/ up' = [up EXCEPT !["client"] = TRUE] /\ ctl' = [ctl EXCEPT !["client"] = "none"]
      BY <1>8 DEF TakeAck, SeeReady, Connected, At
    <3>3. /\ up'["server"] = up["server"] /\ ctl'["server"] = ctl["server"]
          /\ up'["client"] => ctl'["client"] = "none"
      BY <1>1, <3>1, <3>2, EndFacts
    <3>4. shm.connect_ack \/ shm.client_state = "READY"
      BY <1>8 DEF TakeAck, SeeReady
    <3>5. shm'.c2s = shm.c2s /\ shm'.s2c = shm.s2c
      BY <1>1, <1>8 DEF TakeAck, SeeReady, GiveUp, Sections
    <3>6. QED
      BY <3>1, <3>3, <3>4, <3>5
  <2>2. up["server"] \/ ctl["server"] = "stopped"
    BY <2>1 DEF Unanswered
  <2>3. Calls'
    BY <1>1, <1>2, <2>1, EndFacts DEF Calls
  <2>4. QED
    BY <2>1, <2>2, <2>3, SameRings DEF Unanswered
<1>9. QED
  BY <1>3, <1>4, <1>5, <1>6, <1>7, <1>8 DEF Connecting

-----------------------------------------------------------------------------
(* What the rest of the invariant needs from a step.                          *)
KeepsBudget ==
  /\ accepted' = accepted
  /\ \A e \in Ends : Writing(e)' => Writing(e)

LEMMA BudgetKept == Types /\ Budget /\ KeepsBudget => Budget'
<1> SUFFICES ASSUME Types, Budget, KeepsBudget PROVE Budget'
  OBVIOUS
<1> DEFINE s == One(Writing("server"))
           c == One(Writing("client"))
<1>1. s' <= s /\ c' <= c
  BY EndFacts DEF KeepsBudget, One
<1>2. {s, s', c, c'} \subseteq Nat
  BY DEF One
<1>3. accepted["server"] \in Nat /\ accepted["client"] \in Nat
  BY EndFacts DEF Types
<1>4. accepted["server"] + accepted["client"] + s + c <= MaxSends
  BY DEF Budget
<1> HIDE DEF s, c
<1>5. accepted["server"] + accepted["client"] + s' + c' <= MaxSends
  BY <1>1, <1>2, <1>3, <1>4, Limits
<1>6. QED
  BY <1>5 DEF Budget, KeepsBudget, s, c

LEMMA Parts ==
  IInv => /\ Types /\ Calls /\ Unanswered /\ Budget
          /\ \A e \in Ends : Direction(e) /\ (~torn[e] => Hand(e) /\ Line(e) /\ Counts(e))
  BY DEF IInv, Direction

(* A call of a connected end makes no difference to who is connected.         *)
LEMMA CallKeeps ==
  ASSUME Calls, Unanswered, NEW e \in Ends, up[e], ctl' = ctl, up' = up,
         \A d \in Ends : d # e => tx'[d] = tx[d] /\ rx'[d] = rx[d]
  PROVE  Calls' /\ Unanswered'
<1>1. Calls'
  BY DEF Calls
<1>2. up["server"] \/ ctl["server"] = "stopped"
  BY EndFacts DEF Unanswered
<1>3. QED
  BY <1>1, <1>2 DEF Unanswered

(* A handle is closed: the message it kept is gone, as if it had been given.  *)
Closing(e) == (e = "server" /\ StopServer) \/ (e = "client" /\ Disconnect)

LEMMA ClosingStep ==
  ASSUME IInv, NEW e \in Ends, Closing(e)
  PROVE  IInv' /\ \A d \in Ends : Follows(d)
<1>1. /\ shm \in Sections /\ up \in [Ends -> BOOLEAN] /\ cache \in [Ends -> Caches]
      /\ given \in [Ends -> Nat] /\ accepted \in [Ends -> Nat]
      /\ ctl \in [Ends -> {"none", "wait", "ready", "stopped", "out", "req"}]
      /\ ctl["server"] \in {"none", "wait", "ready", "stopped"}
      /\ ctl["client"] \in {"out", "req", "wait", "none"}
      /\ anonymous \in BOOLEAN
  BY Parts DEF Types
<1>2. /\ up' = [up EXCEPT ![e] = FALSE] /\ cache' = [cache EXCEPT ![e].pending = FALSE]
      /\ given' = [given EXCEPT ![e] = cache[e].buffer.id]
      /\ anonymous' = anonymous /\ tx' = tx /\ rx' = rx /\ torn' = torn /\ accepted' = accepted
      /\ tries' = tries /\ early' = early
      /\ tx[e].pc = "idle" /\ rx[e] = "idle"
  BY DEF Closing, StopServer, Disconnect, Closes, Idle
<1>3. /\ shm' \in Sections /\ shm'.c2s = shm.c2s /\ shm'.s2c = shm.s2c
      /\ shm'.connect_ack = shm.connect_ack /\ shm'.client_state \in {shm.client_state, "IDLE"}
  <2>1. CASE StopServer
    <3>1. (up["server"] /\ ~anonymous) \in BOOLEAN
      BY <1>1
    <3>2. PICK b \in BOOLEAN : shm' = DropServer(shm, b)
      BY <2>1, <3>1 DEF StopServer
    <3>3. shm' \in Sections
      BY <1>1, <3>2, SectionOps
    <3>4. /\ shm'.c2s = shm.c2s /\ shm'.s2c = shm.s2c
          /\ shm'.connect_ack = shm.connect_ack /\ shm'.client_state \in {shm.client_state, "IDLE"}
      BY <1>1, <3>2 DEF DropServer, MarkDisconnected, Sections
    <3>5. QED
      BY <3>3, <3>4
  <2>2. CASE Disconnect
    <3>1. shm' = GiveUp(shm) \/ shm' = DropClient(shm)
      BY <2>2 DEF Disconnect
    <3>2. shm' \in Sections
      BY <1>1, <3>1, SectionOps
    <3>3. QED
      BY <1>1, <3>1, <3>2 DEF GiveUp, DropClient, Sections
  <2>3. QED
    BY <2>1, <2>2 DEF Closing
<1>4. KeepsRings
  BY <1>3, SameRings
<1>5. /\ cache[e].buffer \in Messages \cup {NoMessage} /\ cache[e].buffer.id \in Nat
      /\ cache'[e].buffer = cache[e].buffer /\ ~cache'[e].pending
      /\ given'[e] = cache[e].buffer.id
      /\ \A d \in Ends : d # e => cache'[d] = cache[d] /\ given'[d] = given[d] /\ up'[d] = up[d]
  <2>1. \A c \in Caches : c.buffer \in Messages \cup {NoMessage} /\ c.buffer.id \in Nat
    BY DEF Caches, Messages, NoMessage
  <2>2. QED
    BY <1>1, <1>2, <2>1 DEF Caches
<1>6. \/ e = "server" /\ ctl' = [ctl EXCEPT !["server"] = "stopped"]
      \/ e = "client" /\ ctl' = [ctl EXCEPT !["client"] = "out"]
  BY DEF Closing, StopServer, Disconnect, At
<1>7. Types'
  <2>1. /\ ctl' \in [Ends -> {"none", "wait", "ready", "stopped", "out", "req"}]
        /\ ctl'["server"] \in {"none", "wait", "ready", "stopped"}
        /\ ctl'["client"] \in {"out", "req", "wait", "none"}
    BY <1>1, <1>6, EndFacts
  <2>2. up' \in [Ends -> BOOLEAN] /\ given' \in [Ends -> Nat]
    BY <1>1, <1>2, <1>5
  <2>3. cache' \in [Ends -> Caches]
    <3>1. [cache[e] EXCEPT !.pending = FALSE] \in Caches
      BY <1>1 DEF Caches
    <3>2. cache' = [cache EXCEPT ![e] = [cache[e] EXCEPT !.pending = FALSE]]
      BY <1>2
    <3>3. QED
      BY <1>1, <3>1, <3>2
  <2>4. QED
    BY <1>2, <1>3, <2>1, <2>2, <2>3, Parts DEF Types
<1>8. Calls'
  <2>1. ~up'[e] /\ \A d \in Ends : d # e => up'[d] = up[d] /\ ctl'[d] = ctl[d]
    BY <1>1, <1>2, <1>6
  <2>2. QED
    BY <1>2, <2>1, Parts DEF Calls
<1>9. Unanswered'
  <2>1. CASE e = "server"
    BY <1>1, <1>6, <2>1, EndFacts DEF Unanswered
  <2>2. CASE e = "client"
    <3>1. ~up'["client"] /\ up'["server"] = up["server"] /\ ctl'["server"] = ctl["server"]
      BY <1>1, <1>2, <1>6, <2>2, EndFacts
    <3>2. QED
      BY <1>3, <1>4, <3>1, Parts DEF Unanswered, KeepsRings
  <2>3. QED
    BY <2>1, <2>2, EndFacts
<1>10. Budget'
  BY <1>2, Parts, BudgetKept DEF KeepsBudget, Writing
<1>11. ASSUME NEW d \in Ends PROVE Direction(d)' /\ Follows(d)
  <2>1. CASE d # e
    <3>1. Still(d)
      BY <1>2, <1>4, <1>5, <2>1, EndFacts DEF Still, KeepsRings
    <3>2. QED
      BY <3>1, Parts, StillKeeps
  <2>2. CASE d = e
    <3>1. /\ In(e)'.msgs = In(e).msgs /\ In(e)'.count = In(e).count
          /\ accepted'[Peer(e)] = accepted[Peer(e)] /\ tx'[Peer(e)].pc = tx[Peer(e)].pc
          /\ rx'[e] = "idle"
      BY <1>2, <1>4 DEF KeepsRings
    <3>2. ASSUME ~torn[e] PROVE Hand(e)' /\ Line(e)' /\ Counts(e)'
      <4>1. Hand(e)' /\ Line(e)'
        BY <1>5, <3>1, <3>2, Parts DEF Hand, Line, HasMessage
      <4>2. One(rx[e] = "subtract")' = One(rx[e] = "subtract")
            /\ One(tx[Peer(e)].pc = "discarded")' = One(tx[Peer(e)].pc = "discarded")
        BY <1>2, <3>1 DEF One
      <4>3. QED
        BY <3>1, <3>2, <4>1, <4>2, Parts DEF Counts
    <3>3. Received(e)' = NoMessage
      BY <1>5 DEF Received
    <3>4. Moves(e)
      <4>1. Queue(e)' = Queue(e) /\ Total(e)' = Total(e) /\ Busy(e)' = Busy(e)
        BY <3>1 DEF Queue, Total, Busy
      <4>2. QED
        BY <3>3, <4>1 DEF Moves
    <3>5. QED
      BY <1>2, <2>2, <3>2, <3>4, Followed
  <2>3. QED
    BY <2>1, <2>2
<1>12. QED
  BY <1>7, <1>8, <1>9, <1>10, <1>11 DEF IInv

-----------------------------------------------------------------------------
(* The steps of a sending thread.  They disturb the direction to the peer.    *)
LEMMA SenderFrame ==
  ASSUME IInv, NEW p \in Ends, up[p], NEW s \in Senders, tx' = [tx EXCEPT ![p] = s],
         UNCHANGED <<anonymous, ctl, up, rx, torn, cache, given, tries, early>>,
         shm' \in Sections, In(p)'.msgs = In(p).msgs, In(p)'.count = In(p).count,
         accepted' \in [Ends -> Nat], accepted'[Peer(p)] = accepted[Peer(p)],
         Budget', Direction(Peer(p))' /\ Follows(Peer(p))
  PROVE  IInv' /\ \A d \in Ends : Follows(d)
<1>1. tx \in [Ends -> Senders]
  BY Parts DEF Types
<1>2. Types'
  BY <1>1, Parts DEF Types
<1>3. Calls' /\ Unanswered'
  <2>1. \A d \in Ends : d # p => tx'[d] = tx[d] /\ rx'[d] = rx[d]
    BY <1>1
  <2>2. QED
    BY <2>1, Parts, CallKeeps
<1>4. Direction(p)' /\ Follows(p)
  <2>1. tx'[Peer(p)] = tx[Peer(p)]
    BY <1>1, EndFacts
  <2>2. Still(p)
    BY <2>1 DEF Still
  <2>3. QED
    BY <2>2, Parts, StillKeeps
<1>5. \A d \in Ends : Direction(d)' /\ Follows(d)
  BY <1>4, EndFacts
<1>6. QED
  BY <1>2, <1>3, <1>5 DEF IInv

(* The two ends in either order.                                              *)
LEMMA BudgetOfBoth ==
  ASSUME NEW p \in Ends, \A d \in Ends : accepted'[d] \in Nat,
         accepted'[p] + accepted'[Peer(p)] + One(Writing(p))'
           + One(Writing(Peer(p)))' <= MaxSends
  PROVE  Budget'
<1> DEFINE b(d) == One(Writing(d))'
<1>1. \A d \in Ends : b(d) \in Nat
  BY DEF One
<1>2. /\ "server" \in Ends /\ "client" \in Ends /\ Peer("server") = "client"
      /\ Peer("client") = "server" /\ (p = "server" \/ p = "client")
  BY DEF Ends, Peer
<1>3. accepted'[p] + accepted'[Peer(p)] + b(p) + b(Peer(p)) <= MaxSends
  OBVIOUS
<1> HIDE DEF b
<1>4. accepted'["server"] + accepted'["client"] + b("server") + b("client") <= MaxSends
  BY <1>1, <1>2, <1>3
<1>5. QED
  BY <1>4 DEF Budget, b

(* The positions are loaded.                                                  *)
LEMMA Looking ==
  ASSUME tx \in [Ends -> Senders], NEW p \in Ends, Looks(p)
  PROVE  \E s \in Senders : s.pc = "test" /\ tx' = [tx EXCEPT ![p] = s]
<1>1. PICK tight \in BOOLEAN : tx' = [tx EXCEPT ![p].pc = "test", ![p].tight = tight]
  BY DEF Looks, Loads
<1>2. tx[p] \in Senders
  OBVIOUS
<1>3. /\ [tx[p] EXCEPT !.pc = "test", !.tight = tight] \in Senders
      /\ [tx[p] EXCEPT !.pc = "test", !.tight = tight].pc = "test"
  BY <1>2 DEF Senders
<1>4. tx' = [tx EXCEPT ![p] = [tx[p] EXCEPT !.pc = "test", !.tight = tight]]
  BY <1>1
<1>5. QED
  BY <1>3, <1>4

LEMMA SendStarts ==
  ASSUME IInv, NEW p \in Ends, Send(p)
  PROVE  IInv' /\ \A d \in Ends : Follows(d)
<1> DEFINE e == Peer(p)
<1>1. /\ e \in Ends /\ Peer(e) = p /\ p # e
      /\ tx \in [Ends -> Senders] /\ accepted \in [Ends -> Nat] /\ shm \in Sections
  BY EndFacts, Parts DEF Types
<1>2. /\ up[p] /\ tx[p].pc = "idle" /\ Looks(p)
      /\ UNCHANGED <<shm, anonymous, ctl, up, rx, torn, cache, accepted, given, tries, early>>
      /\ accepted[p] + accepted[e] + One(Writing(e)) < MaxSends
  BY DEF Send, Sends, ensure_connected, One
<1>3. PICK s \in Senders : s.pc = "test" /\ tx' = [tx EXCEPT ![p] = s]
  BY <1>1, <1>2, Looking
<1>4. tx'[p].pc = "test" /\ tx'[e] = tx[e]
  BY <1>1, <1>3
<1>5. In(p)' = In(p) /\ In(e)' = In(e)
  BY <1>2 DEF In
<1>6. Budget'
  <2>1. One(Writing(e))' = One(Writing(e)) /\ One(Writing(e)) \in Nat /\ One(Writing(p))' = 1
    BY <1>4 DEF One, Writing
  <2>2. accepted' = accepted /\ \A d \in Ends : accepted'[d] \in Nat
    BY <1>1, <1>2
  <2>3. accepted'[p] + accepted'[e] + One(Writing(p))' + One(Writing(e))' <= MaxSends
    BY <1>1, <1>2, <2>1, <2>2, Limits
  <2>4. QED
    BY <1>1, <2>2, <2>3, BudgetOfBoth
<1>7. ASSUME ~torn[e] PROVE Hand(e)' /\ Line(e)' /\ Counts(e)'
  <2>1. One(tx[p].pc = "discarded")' = 0 /\ One(tx[p].pc = "discarded") = 0
        /\ One(rx[e] = "subtract")' = One(rx[e] = "subtract")
    BY <1>2, <1>4 DEF One
  <2>2. Counts(e)'
    BY <1>1, <1>5, <1>7, <2>1, Parts DEF Counts
  <2>3. Hand(e)' /\ Line(e)'
    BY <1>1, <1>2, <1>5, <1>7, Parts DEF Hand, Line, HasMessage
  <2>4. QED
    BY <2>2, <2>3
<1>8. Moves(e)
  <2>1. ~Busy(e) /\ Busy(e)'
    BY <1>1, <1>2, <1>4 DEF Busy
  <2>2. UNCHANGED <<Queue(e), Total(e), Received(e)>>
    BY <1>2, <1>5 DEF Queue, Total, Received
  <2>3. QED
    BY <2>1, <2>2 DEF Moves
<1>9. Direction(e)' /\ Follows(e)
  BY <1>1, <1>2, <1>7, <1>8, Followed
<1>10. QED
  BY <1>1, <1>2, <1>3, <1>5, <1>6, <1>9, SenderFrame

LEMMA SendRefused ==
  ASSUME IInv, NEW p \in Ends, Refuse(p)
  PROVE  IInv' /\ \A d \in Ends : Follows(d)
<1> DEFINE e == Peer(p)
<1>1. /\ e \in Ends /\ Peer(e) = p /\ p # e
      /\ tx \in [Ends -> Senders] /\ accepted \in [Ends -> Nat] /\ shm \in Sections
  BY EndFacts, Parts DEF Types
<1>2. /\ tx[p].pc = "test" /\ up[p] /\ tx' = [tx EXCEPT ![p] = NoSend]
      /\ UNCHANGED <<shm, anonymous, ctl, up, rx, torn, cache, accepted, given, tries, early>>
  BY Parts DEF Refuse, Calls, Sent
<1>3. NoSend \in Senders /\ NoSend.pc = "idle"
  BY DEF NoSend, Senders
<1>4. tx'[p].pc = "idle" /\ In(p)' = In(p) /\ In(e)' = In(e)
  BY <1>1, <1>2, <1>3 DEF In
<1>5. Budget'
  <2>1. KeepsBudget
    BY <1>1, <1>2, <1>3 DEF KeepsBudget, Writing
  <2>2. QED
    BY <2>1, Parts, BudgetKept
<1>6. ASSUME ~torn[e] PROVE Hand(e)' /\ Line(e)' /\ Counts(e)'
  <2>1. One(tx[p].pc = "discarded")' = 0 /\ One(tx[p].pc = "discarded") = 0
        /\ One(rx[e] = "subtract")' = One(rx[e] = "subtract")
    BY <1>2, <1>4 DEF One
  <2>2. Counts(e)'
    BY <1>1, <1>4, <1>6, <2>1, Parts DEF Counts
  <2>3. Hand(e)' /\ Line(e)'
    BY <1>1, <1>2, <1>4, <1>6, Parts DEF Hand, Line, HasMessage
  <2>4. QED
    BY <2>2, <2>3
<1>7. Moves(e)
  BY <1>1, <1>2, <1>4 DEF Moves, Busy, Queue, Total, Received
<1>8. Direction(e)' /\ Follows(e)
  BY <1>1, <1>2, <1>6, <1>7, Followed
<1>9. QED
  BY <1>1, <1>2, <1>3, <1>4, <1>5, <1>8, SenderFrame

(* A line of messages that has lost its first one is a line still.            *)
LEMMA LineOfTail ==
  ASSUME shm \in Sections, NEW e \in Ends, Line(e), In(e).msgs # <<>>,
         In(e)'.msgs = Tail(In(e).msgs), UNCHANGED <<cache, accepted>>
  PROVE  Line(e)'
<1> DEFINE q == In(e).msgs
<1>1. q \in Seq(Messages) /\ q # <<>> /\ In(e)'.msgs = Tail(q)
  BY RingTypes
<1>2. /\ \A i \in DOMAIN q : cache[e].buffer.id < q[i].id /\ q[i].id <= accepted[Peer(e)]
      /\ \A i, j \in DOMAIN q : i < j => q[i].id < q[j].id
  BY DEF Line
<1> HIDE DEF q
<1>3. DOMAIN Tail(q) = 1..(Len(q) - 1) /\ DOMAIN q = 1..Len(q) /\ Len(q) \in Nat
  BY <1>1
<1>4. ASSUME NEW i \in DOMAIN Tail(q) PROVE Tail(q)[i] = q[i + 1] /\ i + 1 \in DOMAIN q /\ i \in Nat
  BY <1>1, <1>3, <1>4
<1>5. \A i, j \in DOMAIN Tail(q) : i < j => Tail(q)[i].id < Tail(q)[j].id
  BY <1>2, <1>4
<1>6. \A i \in DOMAIN Tail(q) : cache[e].buffer.id < Tail(q)[i].id /\ Tail(q)[i].id <= accepted[Peer(e)]
  BY <1>2, <1>4
<1>7. QED
  BY <1>1, <1>5, <1>6 DEF Line

(* The writer takes the oldest message away, of which the count learns later. *)
LEMMA SendDiscards ==
  ASSUME IInv, NEW p \in Ends, Discard(p)
  PROVE  IInv' /\ \A d \in Ends : Follows(d)
<1> DEFINE e == Peer(p)
           r == In(e)
<1>1. /\ e \in Ends /\ Peer(e) = p /\ p # e
      /\ tx \in [Ends -> Senders] /\ accepted \in [Ends -> Nat] /\ shm \in Sections
  BY EndFacts, Parts DEF Types
<1>2. /\ tx[p].pc = "test" /\ up[p] /\ r.msgs # <<>>
      /\ UNCHANGED <<anonymous, ctl, up, rx, torn, cache, accepted, given, tries, early>>
      /\ shm' = [shm EXCEPT ![RingTo(e)] = Taken(r)]
      /\ tx' = [tx EXCEPT ![p].pc = "discarded", ![p].tight = FALSE]
  BY Parts DEF Discard, Discards, Calls, Ring, Out, In
<1>3. r \in Rings /\ r.count \in Nat /\ r.msgs \in Seq(Messages) /\ Len(r.msgs) \in Nat
  BY <1>1, RingTypes
<1>4. shm' \in Sections /\ In(e)' = Taken(r) /\ In(p)' = In(p)
  <2>1. Taken(r) \in Rings
    BY <1>2, <1>3, RingOps
  <2>2. QED
    BY <1>1, <1>2, <2>1, RingUpdated
<1>5. In(e)'.msgs = Tail(r.msgs) /\ In(e)'.count = r.count /\ Len(Tail(r.msgs)) = Len(r.msgs) - 1
  BY <1>2, <1>3, <1>4, HeadTailProperties DEF Taken, Rings
<1>6. PICK s \in Senders : s.pc = "discarded" /\ tx' = [tx EXCEPT ![p] = s]
  <2>1. tx[p] \in Senders
    BY <1>1
  <2>2. /\ [tx[p] EXCEPT !.pc = "discarded", !.tight = FALSE] \in Senders
        /\ [tx[p] EXCEPT !.pc = "discarded", !.tight = FALSE].pc = "discarded"
    BY <2>1 DEF Senders
  <2>3. tx' = [tx EXCEPT ![p] = [tx[p] EXCEPT !.pc = "discarded", !.tight = FALSE]]
    BY <1>2
  <2>4. QED
    BY <2>2, <2>3
<1>7. tx'[p].pc = "discarded" /\ tx'[e] = tx[e]
  BY <1>1, <1>6
<1>8. Budget'
  <2>1. KeepsBudget
    BY <1>1, <1>2, <1>7, EndFacts DEF KeepsBudget, Writing
  <2>2. QED
    BY <2>1, Parts, BudgetKept
<1>9. ASSUME ~torn[e] PROVE Hand(e)' /\ Line(e)' /\ Counts(e)'
  <2>1. One(rx[e] = "subtract")' = One(rx[e] = "subtract") /\ One(rx[e] = "subtract") \in {0, 1}
        /\ One(tx[p].pc = "discarded") = 0 /\ One(tx[p].pc = "discarded")' = 1
    BY <1>2, <1>7 DEF One
  <2>2. r.count <= RingMax /\ r.count >= Len(r.msgs) + One(rx[e] = "subtract") + 0
    BY <1>1, <1>9, <2>1, Parts DEF Counts
  <2>3. Counts(e)'
    BY <1>1, <1>3, <1>5, <2>1, <2>2 DEF Counts
  <2>4. Line(e)'
    BY <1>1, <1>2, <1>5, <1>9, Parts, LineOfTail
  <2>5. Hand(e)'
    BY <1>1, <1>2, <1>9, Parts DEF Hand, HasMessage
  <2>6. QED
    BY <2>3, <2>4, <2>5
<1>10. Moves(e)
  BY <1>1, <1>2, <1>5, <1>7 DEF Moves, Busy, Queue, Total, Received
<1>11. Direction(e)' /\ Follows(e)
  BY <1>1, <1>2, <1>9, <1>10, Followed
<1>12. QED
  BY <1>1, <1>2, <1>4, <1>6, <1>8, <1>11, SenderFrame

LEMMA SendDiscounts ==
  ASSUME IInv, NEW p \in Ends, Discount(p)
  PROVE  IInv' /\ \A d \in Ends : Follows(d)
<1> DEFINE e == Peer(p)
           r == In(e)
<1>1. /\ e \in Ends /\ Peer(e) = p /\ p # e
      /\ tx \in [Ends -> Senders] /\ accepted \in [Ends -> Nat] /\ shm \in Sections
  BY EndFacts, Parts DEF Types
<1>2. /\ tx[p].pc = "discarded" /\ up[p] /\ Looks(p)
      /\ UNCHANGED <<anonymous, ctl, up, rx, torn, cache, accepted, given, tries, early>>
      /\ shm' = [shm EXCEPT ![RingTo(e)] = Subtracted(r)]
  BY Parts DEF Discount, Calls, Ring, Out, In
<1>3. r \in Rings /\ r.count \in Nat /\ Len(r.msgs) \in Nat
  BY <1>1, RingTypes
<1>4. shm' \in Sections /\ In(e)' = Subtracted(r) /\ In(p)' = In(p)
  <2>1. Subtracted(r) \in Rings
    BY <1>3, RingOps
  <2>2. QED
    BY <1>1, <1>2, <2>1, RingUpdated
<1>5. PICK s \in Senders : s.pc = "test" /\ tx' = [tx EXCEPT ![p] = s]
  BY <1>1, <1>2, Looking
<1>6. tx'[p].pc = "test" /\ tx'[e] = tx[e] /\ In(e)'.msgs = r.msgs
  BY <1>1, <1>3, <1>4, <1>5 DEF Subtracted, Rings
<1>7. Budget'
  <2>1. KeepsBudget
    BY <1>1, <1>2, <1>6, EndFacts DEF KeepsBudget, Writing
  <2>2. QED
    BY <2>1, Parts, BudgetKept
<1>8. ASSUME ~torn[e] PROVE Hand(e)' /\ Line(e)' /\ Counts(e)'
  <2>1. One(rx[e] = "subtract")' = One(rx[e] = "subtract") /\ One(rx[e] = "subtract") \in {0, 1}
        /\ One(tx[p].pc = "discarded") = 1 /\ One(tx[p].pc = "discarded")' = 0
    BY <1>2, <1>6 DEF One
  <2>2. r.count <= RingMax /\ r.count >= Len(r.msgs) + One(rx[e] = "subtract") + 1
    BY <1>1, <1>8, <2>1, Parts DEF Counts
  <2>3. In(e)'.count = r.count - 1
    <3>1. r.count # 0
      BY <1>3, <2>1, <2>2
    <3>2. QED
      BY <1>3, <1>4, <3>1 DEF Subtracted, Rings
  <2>4. r.count - 1 <= RingMax
    BY <1>3, <2>2, Limits
  <2>5. r.count - 1 >= Len(r.msgs) + One(rx[e] = "subtract") + 0
    BY <1>3, <2>1, <2>2
  <2>6. Counts(e)'
    BY <1>1, <1>6, <2>1, <2>3, <2>4, <2>5 DEF Counts
  <2>7. Hand(e)' /\ Line(e)'
    BY <1>1, <1>2, <1>6, <1>8, Parts DEF Hand, Line, HasMessage
  <2>8. QED
    BY <2>6, <2>7
<1>9. Moves(e)
  BY <1>1, <1>2, <1>6 DEF Moves, Busy, Queue, Total, Received
<1>10. Direction(e)' /\ Follows(e)
  BY <1>1, <1>2, <1>8, <1>9, Followed
<1>11. QED
  BY <1>1, <1>2, <1>4, <1>5, <1>7, <1>10, SenderFrame

(* A message that is newer than all the others joins the line.                *)
LEMMA LineOfAppend ==
  ASSUME Types, NEW e \in Ends, Line(e), Hand(e), NEW m \in Messages,
         In(e)'.msgs = Append(In(e).msgs, m), m.id = accepted[Peer(e)] + 1,
         accepted'[Peer(e)] = accepted[Peer(e)] + 1, cache' = cache
  PROVE  Line(e)'
<1> DEFINE q == In(e).msgs
           n == accepted[Peer(e)]
           b == cache[e].buffer.id
<1>1. q \in Seq(Messages) /\ In(e)'.msgs = Append(q, m) /\ m.id = n + 1 /\ n \in Nat /\ b \in Nat
      /\ \A i \in DOMAIN q : q[i].id \in Nat
  BY RingTypes, CacheTypes, EndFacts DEF Types
<1>2. /\ \A i \in DOMAIN q : b < q[i].id /\ q[i].id <= n
      /\ \A i, j \in DOMAIN q : i < j => q[i].id < q[j].id
      /\ b <= n
  BY DEF Line, Hand
<1>3. b' = b /\ n' = n + 1
  OBVIOUS
<1> HIDE DEF q, n, b
<1>4. DOMAIN Append(q, m) = 1..(Len(q) + 1) /\ DOMAIN q = 1..Len(q) /\ Len(q) \in Nat
  BY <1>1
<1>5. /\ \A i \in DOMAIN q : Append(q, m)[i] = q[i]
      /\ Append(q, m)[Len(q) + 1] = m
      /\ \A i \in DOMAIN Append(q, m) : i \in DOMAIN q \/ i = Len(q) + 1
  BY <1>1, <1>4
<1>6. \A i \in DOMAIN Append(q, m) : b < Append(q, m)[i].id /\ Append(q, m)[i].id <= n + 1
  BY <1>1, <1>2, <1>5
<1>7. ASSUME NEW i \in DOMAIN Append(q, m), NEW j \in DOMAIN Append(q, m), i < j
      PROVE  Append(q, m)[i].id < Append(q, m)[j].id
  <2>1. i \in DOMAIN q
    BY <1>4, <1>7
  <2>2. CASE j \in DOMAIN q
    BY <1>2, <1>5, <1>7, <2>1, <2>2
  <2>3. CASE j = Len(q) + 1
    BY <1>1, <1>2, <1>5, <2>1, <2>3
  <2>4. QED
    BY <1>5, <1>7, <2>2, <2>3
<1>8. \A i \in DOMAIN In(e)'.msgs : b' < In(e)'.msgs[i].id /\ In(e)'.msgs[i].id <= n'
  BY <1>1, <1>3, <1>6
<1>9. \A i, j \in DOMAIN In(e)'.msgs : i < j => In(e)'.msgs[i].id < In(e)'.msgs[j].id
  BY <1>1, <1>7
<1>10. QED
  BY <1>8, <1>9 DEF Line, n, b

LEMMA SendCounts ==
  ASSUME IInv, NEW p \in Ends, Count(p)
  PROVE  IInv' /\ \A d \in Ends : Follows(d)
<1> DEFINE e == Peer(p)
           r == In(e)
<1>1. /\ e \in Ends /\ Peer(e) = p /\ p # e /\ Types
      /\ tx \in [Ends -> Senders] /\ accepted \in [Ends -> Nat] /\ shm \in Sections
  BY EndFacts, Parts DEF Types
<1>2. /\ tx[p].pc = "test" /\ up[p] /\ ~(r.count >= RingMax)
      /\ UNCHANGED <<anonymous, ctl, up, rx, torn, cache, given, tries, early>>
      /\ accepted' = [accepted EXCEPT ![p] = @ + 1]
      /\ tx' = [tx EXCEPT ![p].pc = "signal", ![p].was_empty = WasEmpty(r)]
  BY Parts DEF Count, Full, Calls, Out, In
<1>3. PICK len \in Lens :
        shm' = [shm EXCEPT ![RingTo(e)] = Counted(r, [id |-> accepted[p] + 1, len |-> len])]
  BY DEF Count, Ring, Out, In
<1> DEFINE m == [id |-> accepted[p] + 1, len |-> len]
<1>4. m \in Messages /\ m.id = accepted[p] + 1
  BY <1>1 DEF Messages
<1>5. r \in Rings /\ r.count \in Nat /\ r.msgs \in Seq(Messages) /\ Len(r.msgs) \in Nat
  BY <1>1, RingTypes
<1>6. shm' \in Sections /\ In(e)' = Counted(r, m) /\ In(p)' = In(p)
  <2>1. Counted(r, m) \in Rings
    BY <1>4, <1>5, RingOps
  <2>2. QED
    BY <1>1, <1>3, <2>1, RingUpdated
<1>7. In(e)'.msgs = Append(r.msgs, m) /\ In(e)'.count = r.count + 1
  BY <1>5, <1>6 DEF Counted, Rings
<1>8. PICK s \in Senders : s.pc = "signal" /\ tx' = [tx EXCEPT ![p] = s]
  <2>1. tx[p] \in Senders /\ WasEmpty(r) \in BOOLEAN
    BY <1>1 DEF WasEmpty
  <2>2. /\ [tx[p] EXCEPT !.pc = "signal", !.was_empty = WasEmpty(r)] \in Senders
        /\ [tx[p] EXCEPT !.pc = "signal", !.was_empty = WasEmpty(r)].pc = "signal"
    BY <2>1 DEF Senders
  <2>3. tx' = [tx EXCEPT ![p] = [tx[p] EXCEPT !.pc = "signal", !.was_empty = WasEmpty(r)]]
    BY <1>2
  <2>4. QED
    BY <2>2, <2>3
<1>9. /\ tx'[p].pc = "signal" /\ tx'[e] = tx[e] /\ accepted'[p] = accepted[p] + 1
      /\ accepted'[e] = accepted[e] /\ accepted' \in [Ends -> Nat]
  BY <1>1, <1>2, <1>8
<1>10. Budget'
  <2> DEFINE b(d) == One(Writing(d))
  <2>1. b(p) = 1 /\ b(p)' = 0 /\ b(e)' = b(e) /\ b(e) \in Nat
    BY <1>2, <1>9 DEF One, Writing
  <2>2. accepted["server"] + accepted["client"] + b("server") + b("client") <= MaxSends
    BY Parts DEF Budget
  <2>3. /\ b("server") \in Nat /\ b("client") \in Nat
        /\ \/ p = "server" /\ e = "client"
           \/ p = "client" /\ e = "server"
    BY DEF One, Ends, Peer
  <2>4. \A d \in Ends : accepted[d] \in Nat /\ accepted'[d] \in Nat
    BY <1>1, <1>9
  <2> HIDE DEF b
  <2>5. accepted[p] + accepted[e] + b(p) + b(e) <= MaxSends
    BY <2>2, <2>3, <2>4, EndFacts
  <2>6. accepted'[p] + accepted'[e] + b(p)' + b(e)' <= MaxSends
    BY <1>1, <1>9, <2>1, <2>4, <2>5, Limits
  <2>7. QED
    BY <1>1, <2>4, <2>6, BudgetOfBoth DEF b
<1>11. ASSUME ~torn[e] PROVE Len(r.msgs) < RingMax /\ Counts(e)'
  <2>1. One(tx[p].pc = "discarded") = 0 /\ One(tx[p].pc = "discarded")' = 0
        /\ One(rx[e] = "subtract")' = One(rx[e] = "subtract") /\ One(rx[e] = "subtract") \in {0, 1}
    BY <1>2, <1>9 DEF One
  <2>2. r.count >= Len(r.msgs) + One(rx[e] = "subtract") + 0 /\ r.count < RingMax
    BY <1>1, <1>2, <1>5, <1>11, <2>1, Parts, Limits DEF Counts
  <2>3. Len(Append(r.msgs, m)) = Len(r.msgs) + 1
    BY <1>4, <1>5
  <2>4. Len(r.msgs) < RingMax /\ r.count + 1 <= RingMax
    BY <1>5, <2>1, <2>2, Limits
  <2>5. r.count + 1 >= Len(Append(r.msgs, m)) + One(rx[e] = "subtract") + 0
    BY <1>5, <2>1, <2>2, <2>3
  <2>6. QED
    BY <1>1, <1>7, <2>1, <2>4, <2>5 DEF Counts
<1>12. ASSUME ~torn[e] PROVE Line(e)'
  BY <1>1, <1>2, <1>4, <1>7, <1>9, <1>12, Parts, LineOfAppend
<1>13. ASSUME ~torn[e] PROVE Hand(e)'
  <2>1. cache[e].buffer.id <= accepted[p] + 1
    <3>1. cache[e].buffer.id <= accepted[p] /\ accepted[p] \in Nat
      BY <1>1, <1>13, Parts DEF Hand
    <3>2. cache[e].buffer.id \in Nat
      BY <1>1, CacheTypes DEF Types
    <3>3. QED
      BY <3>1, <3>2
  <2>2. QED
    BY <1>1, <1>2, <1>9, <1>13, <2>1, Parts DEF Hand, HasMessage
<1>14. ASSUME ~torn[e] PROVE Moves(e)
  <2>1. Queue(e)' = Append(Queue(e), [id |-> Total(e) + 1, len |-> len])
    BY <1>1, <1>7 DEF Queue, Total
  <2>2. Busy(e) /\ Busy(e)' /\ Total(e)' = Total(e) + 1
    BY <1>1, <1>2, <1>9 DEF Busy, Total
  <2>3. UNCHANGED Received(e)
    BY <1>2 DEF Received
  <2>4. QED
    BY <1>11, <1>14, <2>1, <2>2, <2>3 DEF Moves, Queue
<1>15. Direction(e)' /\ Follows(e)
  BY <1>1, <1>2, <1>11, <1>12, <1>13, <1>14, Followed
<1>16. QED
  BY <1>1, <1>2, <1>6, <1>8, <1>9, <1>10, <1>15, SenderFrame

LEMMA SendSignals ==
  ASSUME IInv, NEW p \in Ends, Signal(p)
  PROVE  IInv' /\ \A d \in Ends : Follows(d)
<1> DEFINE e == Peer(p)
           r == In(e)
<1>1. /\ e \in Ends /\ Peer(e) = p /\ p # e /\ anonymous \in BOOLEAN
      /\ tx \in [Ends -> Senders] /\ accepted \in [Ends -> Nat] /\ shm \in Sections
  BY EndFacts, Parts DEF Types
<1>2. /\ tx[p].pc = "signal" /\ up[p]
      /\ UNCHANGED <<anonymous, ctl, up, rx, torn, cache, accepted, given, tries, early>>
      /\ tx' = [tx EXCEPT ![p] = NoSend]
      /\ shm' = [shm EXCEPT ![RingTo(e)] = [r EXCEPT !.data = @ \/ Signals(p)]]
  BY Parts DEF Signal, Signalled, Calls, Sent, Ring, Out, In
<1>3. r \in Rings
  BY <1>1, RingTypes
<1>4. PICK b \in BOOLEAN : shm' = [shm EXCEPT ![RingTo(e)] = [r EXCEPT !.data = b]]
  <2>1. (r.data \/ Signals(p)) \in BOOLEAN
    BY DEF Signals
  <2>2. QED
    BY <1>2, <2>1
<1>5. shm' \in Sections /\ In(e)'.msgs = r.msgs /\ In(e)'.count = r.count /\ In(p)' = In(p)
  <2>1. [r EXCEPT !.data = b] \in Rings
    BY <1>3, RingOps
  <2>2. In(e)' = [r EXCEPT !.data = b] /\ shm' \in Sections /\ In(p)' = In(p)
    BY <1>1, <1>4, <2>1, RingUpdated
  <2>3. QED
    BY <1>3, <2>2 DEF Rings
<1>6. tx'[p].pc = "idle" /\ NoSend \in Senders
  BY <1>1, <1>2 DEF NoSend, Senders
<1>7. Budget'
  <2>1. KeepsBudget
    BY <1>1, <1>2 DEF KeepsBudget, NoSend, Writing
  <2>2. QED
    BY <2>1, Parts, BudgetKept
<1>8. ASSUME ~torn[e] PROVE Hand(e)' /\ Line(e)' /\ Counts(e)'
  <2>1. One(tx[p].pc = "discarded")' = 0 /\ One(tx[p].pc = "discarded") = 0
        /\ One(rx[e] = "subtract")' = One(rx[e] = "subtract")
    BY <1>2, <1>6 DEF One
  <2>2. Counts(e)'
    BY <1>1, <1>5, <1>8, <2>1, Parts DEF Counts
  <2>3. Hand(e)' /\ Line(e)'
    BY <1>1, <1>2, <1>5, <1>8, Parts DEF Hand, Line, HasMessage
  <2>4. QED
    BY <2>2, <2>3
<1>9. Moves(e)
  BY <1>1, <1>2, <1>5, <1>6 DEF Moves, Busy, Queue, Total, Received
<1>10. Direction(e)' /\ Follows(e)
  BY <1>1, <1>2, <1>8, <1>9, Followed
<1>11. QED
  BY <1>1, <1>2, <1>5, <1>6, <1>7, <1>10, SenderFrame

-----------------------------------------------------------------------------
(* The steps of a receiving thread.                                           *)
Places == {"idle", "take", "subtract", "give", "poll", "poll forever"}

LEMMA ReceiverFrame ==
  ASSUME IInv, NEW e \in Ends, up[e], NEW pc \in Places, rx' = [rx EXCEPT ![e] = pc],
         UNCHANGED <<anonymous, ctl, up, tx, accepted, tries, early>>,
         shm' \in Sections, In(Peer(e))'.msgs = In(Peer(e)).msgs, In(Peer(e))'.count = In(Peer(e)).count,
         torn' \in [Ends -> BOOLEAN], torn'[Peer(e)] = torn[Peer(e)],
         cache' \in [Ends -> Caches], cache'[Peer(e)] = cache[Peer(e)],
         given' \in [Ends -> Nat], given'[Peer(e)] = given[Peer(e)],
         Direction(e)' /\ Follows(e)
  PROVE  IInv' /\ \A d \in Ends : Follows(d)
<1>1. rx \in [Ends -> Places]
  BY Parts DEF Types, Places
<1>2. Types'
  <2>1. rx' \in [Ends -> Places]
    BY <1>1
  <2>2. QED
    BY <2>1, Parts DEF Types, Places
<1>3. Calls' /\ Unanswered'
  <2>1. \A d \in Ends : d # e => tx'[d] = tx[d] /\ rx'[d] = rx[d]
    BY <1>1
  <2>2. QED
    BY <2>1, Parts, CallKeeps
<1>4. Budget'
  <2>1. KeepsBudget
    BY DEF KeepsBudget, Writing
  <2>2. QED
    BY <2>1, Parts, BudgetKept
<1>5. Direction(Peer(e))' /\ Follows(Peer(e))
  <2>1. rx'[Peer(e)] = rx[Peer(e)]
    BY <1>1, EndFacts
  <2>2. Still(Peer(e))
    BY <2>1 DEF Still
  <2>3. QED
    BY <2>2, EndFacts, Parts, StillKeeps
<1>6. \A d \in Ends : Direction(d)' /\ Follows(d)
  BY <1>5, EndFacts
<1>7. QED
  BY <1>2, <1>3, <1>4, <1>6 DEF IInv

(* A call that looks at the ring and takes nothing.                           *)
LooksOnly(e) ==
  Poll(e) \/ PollWakes(e) \/ PollTimesOut(e) \/ Corrupted(e)

LEMMA ReceiverLooks ==
  ASSUME IInv, NEW e \in Ends, LooksOnly(e)
  PROVE  IInv' /\ \A d \in Ends : Follows(d)
<1>1. /\ Peer(e) \in Ends /\ shm \in Sections /\ rx \in [Ends -> Places]
      /\ cache \in [Ends -> Caches] /\ given \in [Ends -> Nat] /\ In(e) \in Rings
      /\ torn \in [Ends -> BOOLEAN]
  BY EndFacts, Parts, RingTypes DEF Types, Places
<1>2. /\ UNCHANGED <<anonymous, ctl, up, tx, torn, cache, accepted, given, tries, early>>
      /\ up[e]
  BY Parts DEF LooksOnly, Poll, PollWakes, PollTimesOut, Corrupted, Receives, ensure_connected, Calls
<1>3. PICK pc \in {"idle", "poll", "poll forever"} : rx' = [rx EXCEPT ![e] = pc]
  BY DEF LooksOnly, Poll, PollWakes, PollTimesOut, Corrupted, Returns, Goes
<1>4. rx[e] \in {"idle", "take", "poll", "poll forever"} /\ rx'[e] = pc
  BY <1>1, <1>3 DEF LooksOnly, Poll, PollWakes, PollTimesOut, Corrupted
<1>5. /\ shm' \in Sections /\ In(e)'.msgs = In(e).msgs /\ In(e)'.count = In(e).count
      /\ In(Peer(e))' = In(Peer(e))
  <2>1. CASE shm' = shm
    BY <1>1, <2>1 DEF In
  <2>2. CASE shm' # shm
    <3>1. shm' = [shm EXCEPT ![RingTo(e)] = [In(e) EXCEPT !.data = FALSE]]
      BY <2>2 DEF LooksOnly, Poll, PollWakes, PollTimesOut, Corrupted, In
    <3>2. [In(e) EXCEPT !.data = FALSE] \in Rings
      BY <1>1, RingOps
    <3>3. In(e)' = [In(e) EXCEPT !.data = FALSE] /\ shm' \in Sections /\ In(Peer(e))' = In(Peer(e))
      BY <1>1, <3>1, <3>2, RingUpdated
    <3>4. QED
      BY <1>1, <3>3 DEF Rings
  <2>3. QED
    BY <2>1, <2>2
<1>6. Still(e)
  BY <1>2, <1>4, <1>5 DEF Still
<1>7. Direction(e)' /\ Follows(e)
  BY <1>6, Parts, StillKeeps
<1>8. pc \in Places
  BY DEF Places
<1>9. QED
  BY <1>1, <1>2, <1>3, <1>5, <1>7, <1>8, ReceiverFrame

LEMMA ReceiverStarts ==
  ASSUME IInv, NEW e \in Ends, Receive(e)
  PROVE  IInv' /\ \A d \in Ends : Follows(d)
<1>1. /\ Peer(e) \in Ends /\ shm \in Sections /\ rx \in [Ends -> Places]
      /\ cache \in [Ends -> Caches] /\ given \in [Ends -> Nat] /\ cache[e].pending \in BOOLEAN
      /\ torn \in [Ends -> BOOLEAN]
  BY EndFacts, Parts, CacheTypes DEF Types, Places
<1>2. /\ UNCHANGED <<shm, anonymous, ctl, up, tx, torn, cache, accepted, given, tries, early>>
      /\ up[e] /\ rx[e] = "idle"
  BY DEF Receive, Receives, ensure_connected
<1>3. PICK pc \in {"take", "give"} : rx' = [rx EXCEPT ![e] = pc] /\ (pc = "give" <=> cache[e].pending)
  BY <1>1 DEF Receive, Goes
<1>4. rx'[e] = pc
  BY <1>1, <1>3
<1>5. In(e)' = In(e) /\ In(Peer(e))' = In(Peer(e))
  BY <1>2 DEF In
<1>6. ASSUME ~torn[e] PROVE Hand(e)' /\ Line(e)' /\ Counts(e)'
  <2>1. HasMessage(e)' <=> HasMessage(e)
    BY <1>2, <1>3, <1>4 DEF HasMessage
  <2>2. Hand(e)'
    BY <1>2, <1>3, <1>4, <1>6, <2>1, Parts DEF Hand
  <2>3. Line(e)'
    BY <1>2, <1>5, <1>6, Parts DEF Line
  <2>4. One(rx[e] = "subtract")' = One(rx[e] = "subtract")
        /\ One(tx[Peer(e)].pc = "discarded")' = One(tx[Peer(e)].pc = "discarded")
    BY <1>2, <1>4 DEF One
  <2>5. Counts(e)'
    BY <1>5, <1>6, <2>4, Parts DEF Counts
  <2>6. QED
    BY <2>2, <2>3, <2>5
<1>7. Moves(e)
  BY <1>2, <1>5 DEF Moves, Queue, Total, Busy, Received
<1>8. Direction(e)' /\ Follows(e)
  BY <1>2, <1>6, <1>7, Followed
<1>9. pc \in Places
  BY DEF Places
<1>10. QED
  BY <1>1, <1>2, <1>3, <1>5, <1>8, <1>9, ReceiverFrame

LEMMA ReceiverTakes ==
  ASSUME IInv, NEW e \in Ends, Take(e)
  PROVE  IInv' /\ \A d \in Ends : Follows(d)
<1> DEFINE r == In(e)
           q == r.msgs
<1>1. /\ Peer(e) \in Ends /\ Peer(e) # e /\ shm \in Sections /\ rx \in [Ends -> Places]
      /\ cache \in [Ends -> Caches] /\ given \in [Ends -> Nat] /\ accepted \in [Ends -> Nat]
      /\ torn \in [Ends -> BOOLEAN]
  BY EndFacts, Parts DEF Types, Places
<1>2. /\ UNCHANGED <<anonymous, ctl, up, tx, torn, accepted, given, tries, early>>
      /\ rx[e] = "take" /\ up[e] /\ q # <<>>
      /\ shm' = [shm EXCEPT ![RingTo(e)] = Taken(r)]
      /\ cache' = [cache EXCEPT ![e].buffer = Head(q)]
      /\ rx' = [rx EXCEPT ![e] = "subtract"]
  BY Parts DEF Take, Calls, Goes, Phantom, In
<1>3. r \in Rings /\ r.count \in Nat /\ q \in Seq(Messages) /\ Len(q) \in Nat /\ Head(q) \in Messages
  BY <1>1, <1>2, RingTypes, RingOps
<1>4. shm' \in Sections /\ In(e)' = Taken(r) /\ In(Peer(e))' = In(Peer(e))
  <2>1. Taken(r) \in Rings
    BY <1>2, <1>3, RingOps
  <2>2. QED
    BY <1>1, <1>2, <2>1, RingUpdated
<1>5. In(e)'.msgs = Tail(q) /\ In(e)'.count = r.count /\ Len(Tail(q)) = Len(q) - 1
  BY <1>2, <1>3, <1>4, HeadTailProperties DEF Taken, Rings
<1>6. /\ rx'[e] = "subtract" /\ cache'[e].buffer = Head(q) /\ cache'[e].pending = cache[e].pending
      /\ cache'[Peer(e)] = cache[Peer(e)] /\ cache' \in [Ends -> Caches]
  <2>1. /\ [cache[e] EXCEPT !.buffer = Head(q)] \in Caches
        /\ [cache[e] EXCEPT !.buffer = Head(q)].buffer = Head(q)
        /\ [cache[e] EXCEPT !.buffer = Head(q)].pending = cache[e].pending
    BY <1>1, <1>3 DEF Caches
  <2>2. cache' = [cache EXCEPT ![e] = [cache[e] EXCEPT !.buffer = Head(q)]]
    BY <1>2
  <2>3. rx'[e] = "subtract"
    BY <1>1, <1>2
  <2>4. QED
    BY <1>1, <2>1, <2>2, <2>3
<1>7. ASSUME ~torn[e] PROVE Hand(e)' /\ Line(e)' /\ Counts(e)' /\ Moves(e)
  <2>1. given[e] = cache[e].buffer.id /\ ~cache[e].pending
    <3>1. ~cache[e].pending /\ ~HasMessage(e)
      BY <1>2, <1>7, Parts DEF Hand, HasMessage
    <3>2. given[e] <= cache[e].buffer.id /\ ~(given[e] < cache[e].buffer.id)
      BY <1>7, <3>1, Parts DEF Hand
    <3>3. given[e] \in Nat /\ cache[e].buffer.id \in Nat
      BY <1>1, CacheTypes
    <3>4. QED
      BY <3>1, <3>2, <3>3
  <2>2. /\ \A i \in DOMAIN q : cache[e].buffer.id < q[i].id /\ q[i].id <= accepted[Peer(e)]
        /\ \A i, j \in DOMAIN q : i < j => q[i].id < q[j].id
    BY <1>7, Parts DEF Line
  <2>3. /\ DOMAIN q = 1..Len(q) /\ DOMAIN Tail(q) = 1..(Len(q) - 1) /\ Head(q) = q[1] /\ 1 \in DOMAIN q
        /\ \A i \in DOMAIN Tail(q) : i \in Nat /\ Tail(q)[i] = q[i + 1] /\ i + 1 \in DOMAIN q /\ 1 < i + 1
    <3> HIDE DEF q
    <3>1. DOMAIN q = 1..Len(q) /\ DOMAIN Tail(q) = 1..(Len(q) - 1) /\ Head(q) = q[1] /\ 1 \in DOMAIN q
      BY <1>2, <1>3
    <3>2. \A i \in DOMAIN Tail(q) : Tail(q)[i] = q[i + 1]
      BY <1>2, <1>3
    <3>3. QED
      BY <1>3, <3>1, <3>2
  <2>4. given[e] < Head(q).id /\ Head(q).id <= accepted[Peer(e)] /\ Head(q).id \in Nat
    BY <1>3, <2>1, <2>2, <2>3 DEF Messages
  <2>5. Hand(e)'
    <3>1. given'[e] = given[e] /\ cache'[e].buffer.id = Head(q).id /\ accepted'[Peer(e)] = accepted[Peer(e)]
          /\ HasMessage(e)'
      BY <1>2, <1>6 DEF HasMessage
    <3>2. given[e] <= Head(q).id
      BY <1>1, <2>4
    <3>3. QED
      BY <1>6, <2>1, <2>4, <3>1, <3>2 DEF Hand
  <2>6. Line(e)'
    <3>1. \A i \in DOMAIN Tail(q) : Head(q).id < Tail(q)[i].id /\ Tail(q)[i].id <= accepted[Peer(e)]
      BY <2>2, <2>3
    <3>2. \A i, j \in DOMAIN Tail(q) : i < j => Tail(q)[i].id < Tail(q)[j].id
      <4>1. \A i, j \in Nat : i < j => i + 1 < j + 1
        OBVIOUS
      <4>2. QED
        BY <2>2, <2>3, <4>1
    <3>3. QED
      BY <1>2, <1>5, <1>6, <3>1, <3>2 DEF Line
  <2>7. Counts(e)'
    <3>1. /\ One(rx[e] = "subtract") = 0 /\ One(rx[e] = "subtract")' = 1
          /\ One(tx[Peer(e)].pc = "discarded")' = One(tx[Peer(e)].pc = "discarded")
          /\ One(tx[Peer(e)].pc = "discarded") \in {0, 1}
      BY <1>2, <1>6 DEF One
    <3>2. /\ r.count <= RingMax
          /\ r.count >= Len(q) + One(rx[e] = "subtract") + One(tx[Peer(e)].pc = "discarded")
      BY <1>7, Parts DEF Counts
    <3>3. QED
      BY <1>3, <1>5, <3>1, <3>2 DEF Counts
  <2>8. Moves(e)
    <3>1. Received(e) = NoMessage /\ Received(e)' = Head(q)
      <4>1. cache'[e].buffer.id # given'[e]
        BY <1>1, <1>2, <1>6, <2>4
      <4>2. QED
        BY <1>6, <2>1, <4>1 DEF Received
    <3>2. UNCHANGED <<Total(e), Busy(e)>> /\ Queue(e) = q /\ Queue(e)' = Tail(q)
      BY <1>2, <1>5 DEF Total, Busy, Queue
    <3>3. QED
      BY <1>2, <3>1, <3>2 DEF Moves
  <2>9. QED
    BY <2>5, <2>6, <2>7, <2>8
<1>8. Direction(e)' /\ Follows(e)
  BY <1>2, <1>7, Followed
<1>9. "subtract" \in Places /\ given'[Peer(e)] = given[Peer(e)]
  BY <1>2 DEF Places
<1>10. QED
  BY <1>1, <1>2, <1>4, <1>6, <1>8, <1>9, ReceiverFrame

(* The fault: what the direction does from here on is not followed.           *)
LEMMA ReceiverTakesNothing ==
  ASSUME IInv, NEW e \in Ends, TakeNothing(e)
  PROVE  IInv' /\ \A d \in Ends : Follows(d)
<1>1. /\ Peer(e) \in Ends /\ Peer(e) # e /\ shm \in Sections /\ rx \in [Ends -> Places]
      /\ cache \in [Ends -> Caches] /\ given \in [Ends -> Nat] /\ torn \in [Ends -> BOOLEAN]
  BY EndFacts, Parts DEF Types, Places
<1>2. /\ UNCHANGED <<shm, anonymous, ctl, up, tx, accepted, given, tries, early>>
      /\ rx[e] = "take" /\ up[e] /\ rx' = [rx EXCEPT ![e] = "subtract"]
      /\ torn' = [torn EXCEPT ![e] = TRUE]
  BY Parts DEF TakeNothing, Calls, Goes
<1>3. PICK len \in Lens : cache' = [cache EXCEPT ![e].buffer = [id |-> 0, len |-> len]]
  BY DEF TakeNothing
<1>4. cache' \in [Ends -> Caches] /\ cache'[Peer(e)] = cache[Peer(e)]
  <2>1. cache[e] \in Caches /\ [id |-> 0, len |-> len] \in Messages
    BY <1>1 DEF Messages
  <2>2. [cache[e] EXCEPT !.buffer = [id |-> 0, len |-> len]] \in Caches
    BY <2>1 DEF Caches
  <2>3. cache' = [cache EXCEPT ![e] = [cache[e] EXCEPT !.buffer = [id |-> 0, len |-> len]]]
    BY <1>3
  <2>4. QED
    BY <1>1, <2>2, <2>3
<1>5. torn'[e] = TRUE /\ torn' \in [Ends -> BOOLEAN] /\ torn'[Peer(e)] = torn[Peer(e)]
  BY <1>1, <1>2
<1>6. Direction(e)' /\ Follows(e)
  BY <1>5 DEF Direction, Follows
<1>7. shm' \in Sections /\ In(Peer(e))' = In(Peer(e)) /\ "subtract" \in Places
  BY <1>1, <1>2 DEF In, Places
<1>8. given' \in [Ends -> Nat] /\ given'[Peer(e)] = given[Peer(e)]
  BY <1>1, <1>2
<1>9. QED
  BY <1>1, <1>2, <1>4, <1>5, <1>6, <1>7, <1>8, ReceiverFrame

LEMMA ReceiverSubtracts ==
  ASSUME IInv, NEW e \in Ends, Subtract(e)
  PROVE  IInv' /\ \A d \in Ends : Follows(d)
<1> DEFINE r == In(e)
<1>1. /\ Peer(e) \in Ends /\ shm \in Sections /\ rx \in [Ends -> Places]
      /\ cache \in [Ends -> Caches] /\ given \in [Ends -> Nat] /\ accepted \in [Ends -> Nat]
      /\ torn \in [Ends -> BOOLEAN]
  BY EndFacts, Parts DEF Types, Places
<1>2. /\ UNCHANGED <<anonymous, ctl, up, tx, torn, cache, accepted, given, tries, early>>
      /\ rx[e] = "subtract" /\ up[e]
      /\ shm' = [shm EXCEPT ![RingTo(e)] = Subtracted(r)]
      /\ rx' = [rx EXCEPT ![e] = "give"]
  BY Parts DEF Subtract, Calls, Goes, In
<1>3. r \in Rings /\ r.count \in Nat /\ Len(r.msgs) \in Nat
  BY <1>1, RingTypes
<1>4. shm' \in Sections /\ In(e)' = Subtracted(r) /\ In(Peer(e))' = In(Peer(e))
  <2>1. Subtracted(r) \in Rings
    BY <1>3, RingOps
  <2>2. QED
    BY <1>1, <1>2, <2>1, RingUpdated
<1>5. /\ One(rx[e] = "subtract") = 1 /\ One(rx[e] = "subtract")' = 0
      /\ One(tx[Peer(e)].pc = "discarded")' = One(tx[Peer(e)].pc = "discarded")
      /\ One(tx[Peer(e)].pc = "discarded") \in {0, 1} /\ rx'[e] = "give"
  BY <1>1, <1>2 DEF One
<1>6. In(e)'.msgs = r.msgs
  BY <1>3, <1>4 DEF Subtracted, Rings
<1>7. ASSUME ~torn[e] PROVE Hand(e)' /\ Line(e)' /\ Counts(e)'
  <2>1. r.count <= RingMax /\ r.count >= Len(r.msgs) + 1 + One(tx[Peer(e)].pc = "discarded")
    BY <1>5, <1>7, Parts DEF Counts
  <2>2. In(e)'.count = r.count - 1
    <3>1. r.count # 0
      BY <1>3, <1>5, <2>1
    <3>2. QED
      BY <1>3, <1>4, <3>1 DEF Subtracted, Rings
  <2>3. Counts(e)'
    <3>1. r.count - 1 <= RingMax
      BY <1>3, <2>1, Limits
    <3>2. r.count - 1 >= Len(r.msgs) + 0 + One(tx[Peer(e)].pc = "discarded")
      BY <1>3, <1>5, <2>1
    <3>3. QED
      BY <1>5, <1>6, <2>2, <3>1, <3>2 DEF Counts
  <2>4. Hand(e)'
    BY <1>2, <1>5, <1>7, Parts DEF Hand, HasMessage
  <2>5. Line(e)'
    BY <1>2, <1>6, <1>7, Parts DEF Line
  <2>6. QED
    BY <2>3, <2>4, <2>5
<1>8. Moves(e)
  BY <1>2, <1>6 DEF Moves, Queue, Total, Busy, Received
<1>9. Direction(e)' /\ Follows(e)
  BY <1>2, <1>7, <1>8, Followed
<1>10. "give" \in Places
  BY DEF Places
<1>11. QED
  BY <1>1, <1>2, <1>4, <1>9, <1>10, ReceiverFrame

LEMMA ReceiverGives ==
  ASSUME IInv, NEW e \in Ends, Give(e)
  PROVE  IInv' /\ \A d \in Ends : Follows(d)
<1>1. /\ Peer(e) \in Ends /\ Peer(e) # e /\ shm \in Sections /\ rx \in [Ends -> Places]
      /\ cache \in [Ends -> Caches] /\ given \in [Ends -> Nat] /\ accepted \in [Ends -> Nat]
      /\ given[e] \in Nat /\ cache[e].buffer.id \in Nat /\ torn \in [Ends -> BOOLEAN]
  BY EndFacts, Parts, CacheTypes DEF Types, Places
<1>2. /\ UNCHANGED <<shm, anonymous, ctl, up, tx, torn, accepted, tries, early>>
      /\ rx[e] = "give" /\ up[e] /\ rx' = [rx EXCEPT ![e] = "idle"] /\ rx'[e] = "idle"
  BY <1>1, Parts DEF Give, Calls, Returns, Goes
<1>3. PICK fits \in BOOLEAN :
        /\ cache' = [cache EXCEPT ![e].pending = ~fits]
        /\ given' = IF fits THEN [given EXCEPT ![e] = cache[e].buffer.id] ELSE given
  BY DEF Give, Gives
<1>4. /\ cache'[e].buffer = cache[e].buffer /\ cache'[e].pending = ~fits
      /\ cache'[Peer(e)] = cache[Peer(e)] /\ cache' \in [Ends -> Caches]
  <2>1. /\ [cache[e] EXCEPT !.pending = ~fits] \in Caches
        /\ [cache[e] EXCEPT !.pending = ~fits].buffer = cache[e].buffer
        /\ [cache[e] EXCEPT !.pending = ~fits].pending = ~fits
    BY <1>1 DEF Caches
  <2>2. cache' = [cache EXCEPT ![e] = [cache[e] EXCEPT !.pending = ~fits]]
    BY <1>3
  <2>3. QED
    BY <1>1, <2>1, <2>2
<1>5. /\ given'[e] = IF fits THEN cache[e].buffer.id ELSE given[e]
      /\ given'[Peer(e)] = given[Peer(e)] /\ given' \in [Ends -> Nat]
  BY <1>1, <1>3
<1>6. In(e)' = In(e) /\ In(Peer(e))' = In(Peer(e))
  BY <1>2 DEF In
<1>7. ASSUME ~torn[e] PROVE Hand(e)' /\ Line(e)' /\ Counts(e)' /\ Moves(e)
  <2>1. given[e] < cache[e].buffer.id /\ cache[e].buffer.id <= accepted[Peer(e)]
    BY <1>2, <1>7, Parts DEF Hand, HasMessage
  <2>2. Hand(e)'
    <3>1. HasMessage(e)' <=> ~fits
      BY <1>2, <1>4 DEF HasMessage
    <3>2. given'[e] <= cache[e].buffer.id /\ (given'[e] < cache[e].buffer.id <=> ~fits)
      BY <1>1, <1>5, <2>1
    <3>3. QED
      BY <1>2, <1>4, <2>1, <3>1, <3>2 DEF Hand
  <2>3. Line(e)'
    BY <1>2, <1>4, <1>6, <1>7, Parts DEF Line
  <2>4. Counts(e)'
    <3>1. One(rx[e] = "subtract")' = One(rx[e] = "subtract")
          /\ One(tx[Peer(e)].pc = "discarded")' = One(tx[Peer(e)].pc = "discarded")
      BY <1>2 DEF One
    <3>2. QED
      BY <1>6, <1>7, <3>1, Parts DEF Counts
  <2>5. Moves(e)
    <3>1. UNCHANGED <<Queue(e), Total(e), Busy(e)>>
      BY <1>2, <1>6 DEF Queue, Total, Busy
    <3>2. Received(e) = cache[e].buffer /\ cache[e].buffer # NoMessage
      BY <1>1, <2>1 DEF Received, NoMessage
    <3>3. Received(e)' = IF fits THEN NoMessage ELSE cache[e].buffer
      BY <1>1, <1>4, <1>5, <2>1 DEF Received
    <3>4. QED
      BY <3>1, <3>2, <3>3 DEF Moves
  <2>6. QED
    BY <2>2, <2>3, <2>4, <2>5
<1>8. Direction(e)' /\ Follows(e)
  BY <1>2, <1>7, Followed
<1>9. "idle" \in Places
  BY DEF Places
<1>10. QED
  BY <1>1, <1>2, <1>4, <1>5, <1>6, <1>8, <1>9, ReceiverFrame

-----------------------------------------------------------------------------
(* All the steps.                                                             *)
LEMMA Stutters ==
  ASSUME IInv, UNCHANGED vars PROVE IInv' /\ \A d \in Ends : Follows(d)
<1>1. Types' /\ Calls'
  BY Parts DEF vars, Types, Calls
<1>2. KeepsRings
  BY SameSection DEF vars
<1>3. Unanswered'
  BY <1>2, Parts DEF vars, Unanswered, KeepsRings
<1>4. Budget'
  <2>1. KeepsBudget
    BY DEF vars, KeepsBudget, Writing
  <2>2. QED
    BY <2>1, Parts, BudgetKept
<1>5. ASSUME NEW d \in Ends PROVE Direction(d)' /\ Follows(d)
  <2>1. Still(d)
    BY <1>2 DEF vars, Still, KeepsRings
  <2>2. QED
    BY <2>1, Parts, StillKeeps
<1>6. QED
  BY <1>1, <1>3, <1>4, <1>5 DEF IInv

LEMMA ConnectingKeeps ==
  ASSUME IInv, Connecting PROVE IInv' /\ \A d \in Ends : Follows(d)
<1>1. Types' /\ Calls' /\ Unanswered' /\ KeepsRings /\ SameData
  BY Parts, ConnectingTypes, ConnectingStep, ConnectingFrame
<1>2. Budget'
  <2>1. KeepsBudget
    BY <1>1 DEF SameData, KeepsBudget, Writing
  <2>2. QED
    BY <2>1, Parts, BudgetKept
<1>3. ASSUME NEW d \in Ends PROVE Direction(d)' /\ Follows(d)
  <2>1. Still(d)
    BY <1>1 DEF SameData, Still, KeepsRings
  <2>2. QED
    BY <2>1, Parts, StillKeeps
<1>4. QED
  BY <1>1, <1>2, <1>3 DEF IInv

LEMMA StepKeeps ==
  ASSUME IInv, [Next]_vars PROVE IInv' /\ \A d \in Ends : Follows(d)
<1>1. CASE UNCHANGED vars
  BY <1>1, Stutters
<1>2. CASE Connecting
  BY <1>2, ConnectingKeeps
<1>3. CASE StopServer \/ Disconnect
  <2>1. \E e \in Ends : Closing(e)
    BY <1>3, EndFacts DEF Closing
  <2>2. QED
    BY <2>1, ClosingStep
<1>4. ASSUME NEW e \in Ends, SendStep(e) \/ ReceiveStep(e) \/ Send(e) \/ Receive(e) \/ Poll(e)
      PROVE  IInv' /\ \A d \in Ends : Follows(d)
  <2>1. CASE Send(e) \/ SendStep(e)
    BY <2>1, SendStarts, SendRefused, SendDiscards, SendDiscounts, SendCounts, SendSignals DEF SendStep
  <2>2. CASE Receive(e)
    BY <2>2, ReceiverStarts
  <2>3. CASE ReceiveStep(e) \/ Poll(e)
    BY <2>3, ReceiverLooks, ReceiverTakes, ReceiverTakesNothing, ReceiverSubtracts, ReceiverGives
    DEF ReceiveStep, LooksOnly
  <2>4. QED
    BY <1>4, <2>1, <2>2, <2>3
<1>5. QED
  BY <1>1, <1>2, <1>3, <1>4 DEF Next, Connecting

(* Everything the two ends' calls do, in every order of the four threads,     *)
(* keeps the inductive invariant: the counts of the rings, the numbers of     *)
(* their messages and what each RecvCache holds (shm_server_receive,          *)
(* shm_client_receive in ffi.rs) agree.                                       *)
THEOREM Invariance == Spec => []IInv
<1>1. Init => IInv
  BY InitInv
<1>2. IInv /\ [Next]_vars => IInv'
  BY StepKeeps
<1>3. QED
  BY <1>1, <1>2, PTL DEF Spec

(* A handle that is not connected has no call under way that could use its    *)
(* rings; and until a reader takes a message that is not there, message_count *)
(* never passes MAX_MESSAGES - whatever readers and discarding writers do to  *)
(* it - and a message that is kept for the next call is newer than every one  *)
(* that was given.                                                            *)
THEOREM TypeCorrect == Spec => []TypeOK
<1>1. IInv => TypeOK
  <2> SUFFICES ASSUME IInv PROVE TypeOK
    OBVIOUS
  <2>1. {shm.server_state, shm.client_state} \subseteq {"IDLE", "HELLO", "READY"}
    BY Parts DEF Types, Sections
  <2>2. /\ ctl["server"] \in {"none", "wait", "ready", "stopped"}
        /\ ctl["client"] \in {"out", "req", "wait", "none"}
        /\ tries \in 0..MaxTries /\ early \in 0..EarlyTimeouts
    BY Parts DEF Types
  <2>3. ASSUME NEW e \in Ends
        PROVE  /\ up[e] => ctl[e] = "none"
               /\ ~up[e] => tx[e].pc = "idle" /\ rx[e] = "idle"
    BY Parts DEF Calls
  <2>4. ASSUME NEW e \in Ends, ~torn[e] PROVE In(e).count \in 0..RingMax
    <3>1. In(e).count \in Nat
      BY Parts, RingTypes DEF Types
    <3>2. QED
      BY <2>4, <3>1, Parts, Limits DEF Counts
  <2>5. ASSUME NEW e \in Ends, ~torn[e]
        PROVE  /\ cache[e].pending => given[e] < cache[e].buffer.id
               /\ given[e] \in 0..accepted[Peer(e)]
    <3>1. given[e] \in Nat /\ accepted[Peer(e)] \in Nat /\ cache[e].buffer.id \in Nat
      BY Parts, EndFacts, CacheTypes DEF Types
    <3>2. given[e] <= accepted[Peer(e)]
      BY <2>5, <3>1, Parts DEF Hand
    <3>3. QED
      BY <2>5, <3>1, <3>2, Parts DEF Hand, HasMessage
  <2>6. ASSUME NEW e \in Ends PROVE accepted[e] \in 0..MaxSends
    <3> DEFINE s == One(Writing("server"))
               c == One(Writing("client"))
    <3>1. accepted["server"] + accepted["client"] + s + c <= MaxSends
      BY Parts DEF Budget
    <3>2. s \in Nat /\ c \in Nat
      BY DEF One
    <3>3. accepted["server"] \in Nat /\ accepted["client"] \in Nat
      BY EndFacts, Parts DEF Types
    <3> HIDE DEF s, c
    <3>4. accepted["server"] \in 0..MaxSends /\ accepted["client"] \in 0..MaxSends
      BY <3>1, <3>2, <3>3, Limits
    <3>5. QED
      BY <3>4, EndFacts
  <2>7. QED
    BY <2>1, <2>2, <2>3, <2>4, <2>5, <2>6 DEF TypeOK
<1>2. QED
  BY <1>1, Invariance, PTL

(* In both directions, what the programs see of their sends and receives is   *)
(* the lossy queue of LossyFifo: a message is given once, whole and in order, *)
(* a call with too small a buffer loses nothing (pending_len of RecvCache),   *)
(* and what is thrown away is thrown away by a write.  The queue is broken    *)
(* from the moment a reader takes a message that is not there (Phantom), on   *)
(* the word of a count that a discard has yet to correct, and no earlier.     *)
THEOREM CallsAreFifo == Spec => CallsImplementFifo
<1>1. Init => C2S!FifoInit /\ S2C!FifoInit
  BY InitInv
<1>2. IInv /\ [Next]_vars => [C2S!FifoNext]_C2S!fifo /\ [S2C!FifoNext]_S2C!fifo
  <2>1. IInv /\ [Next]_vars => Types /\ Types' /\ Follows("server") /\ Follows("client")
    BY StepKeeps, EndFacts DEF IInv
  <2>2. QED
    BY <2>1, FollowsAreSteps
<1>3. QED
  BY <1>1, <1>2, Invariance, PTL DEF Spec, CallsImplementFifo, C2S!FifoSpec, S2C!FifoSpec
=============================================================================
