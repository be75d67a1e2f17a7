----------------------------- MODULE MultiProofs -----------------------------
(* Proofs about the slots of a MultiServer, for any number of slots, clients, *)
(* claims and forced disconnects: types and callbacks whatever troubles there *)
(* are, the exclusiveness of a slot without any.                              *)
EXTENDS MultiInvariant, TLAPS

LEMMA SlotFacts ==
  /\ 0 \in Slots
  /\ \A s \in Slots : /\ s + 1 < NumSlots => s + 1 \in Slots
                      /\ (s + 1) % NumSlots \in Slots
  BY MultiAssumption DEF Slots

LEMMA InitInv == Init => IInv
<1> SUFFICES ASSUME Init PROVE IInv
  OBVIOUS
<1>1. SharedTypes
  BY DEF Init, SharedTypes, Claims, CLAIM_FREE, NoPid, States
<1>2. SlotTypes
  BY DEF Init, SlotTypes, Threads, Never
<1>3. ServerTypes
  BY SlotFacts, MultiAssumption DEF Init, ServerTypes, Threads, ServerPlaces, NotOrphaned
<1>4. ClientTypes
  BY SlotFacts, MultiAssumption DEF Init, ClientTypes
<1>5. Owing /\ Shaking /\ CallbackAccounting
  BY DEF Init, Owing, Shaking, CallbackAccounting, One, Threads
<1>6. QED
  BY <1>1, <1>2, <1>3, <1>4, <1>5 DEF IInv, TypeOK

-----------------------------------------------------------------------------
(* Type correctness, action by action: what an action leaves alone keeps its  *)
(* types, and what it stores has them.                                        *)
LEMMA TypeStep == TypeOK /\ [Next]_vars => TypeOK'
<1> SUFFICES ASSUME TypeOK, [Next]_vars PROVE TypeOK'
  OBVIOUS
<1> USE SlotFacts
<1>a. SharedTypes /\ SlotTypes /\ ServerTypes /\ ClientTypes
  BY DEF TypeOK
<1>b. UNCHANGED shared => SharedTypes'
  BY <1>a DEF shared, SharedTypes
<1>c. UNCHANGED slots => SlotTypes'
  BY <1>a DEF slots, SlotTypes
<1>d. UNCHANGED server => ServerTypes'
  BY <1>a DEF server, ServerTypes
<1>e. UNCHANGED clients => ClientTypes'
  BY <1>a DEF clients, ClientTypes
<1>1. ASSUME NEW s \in Slots, ReclaimConnected(s) PROVE TypeOK'
  <2>1. SharedTypes' /\ ClientTypes'
    BY <1>1, <1>b, <1>e DEF ReclaimConnected, shared, clients
  <2>2. SlotTypes'
    BY <1>a, <1>1, MultiAssumption
    DEF ReclaimConnected, SlotTypes, Lock, Locked, Unlock, Threads, Never
  <2>3. ServerTypes'
    BY <1>a, <1>1, MultiAssumption
    DEF ReclaimConnected, ServerTypes, Goto, GotoSlot, NextSlot, Threads, ServerPlaces, Claims, SharedTypes
  <2>4. QED
    BY <2>1, <2>2, <2>3 DEF TypeOK
<1>2. ASSUME NEW s \in Slots, CheckOwner(s) PROVE TypeOK'
  <2>1. SharedTypes' /\ ClientTypes'
    BY <1>2, <1>b, <1>e DEF CheckOwner, shared, clients
  <2>2. SlotTypes'
    BY <1>a, <1>2, MultiAssumption
    DEF CheckOwner, SlotTypes, Lock, Locked, Unlock, Threads, Never
  <2>3. ServerTypes'
    BY <1>a, <1>2, MultiAssumption
    DEF CheckOwner, ServerTypes, Goto, GotoSlot, NextSlot, Threads, ServerPlaces, Claims
  <2>4. QED
    BY <2>1, <2>2, <2>3 DEF TypeOK
<1>3. ASSUME NEW s \in Slots, ReclaimIdle(s) PROVE TypeOK'
  <2>1. SharedTypes' /\ ClientTypes'
    BY <1>3, <1>b, <1>e DEF ReclaimIdle, shared, clients
  <2>2. SlotTypes'
    BY <1>a, <1>3, MultiAssumption
    DEF ReclaimIdle, SlotTypes, Lock, Locked, Unlock, Threads, Never
  <2>3. ServerTypes'
    BY <1>a, <1>3, MultiAssumption
    DEF ReclaimIdle, ServerTypes, Goto, GotoSlot, NextSlot, Threads, ServerPlaces, Claims
  <2>4. QED
    BY <2>1, <2>2, <2>3 DEF TypeOK
<1>4. ASSUME NEW s \in Slots, ReclaimExpired(s) PROVE TypeOK'
  <2>1. ClientTypes'
    BY <1>4, <1>e DEF ReclaimExpired, clients
  <2>2. SharedTypes'
    BY <1>a, <1>4
    DEF ReclaimExpired, SharedTypes, Claims, States
  <2>3. SlotTypes'
    BY <1>a, <1>4, MultiAssumption
    DEF ReclaimExpired, SlotTypes, Lock, Locked, Unlock, Threads, Never
  <2>4. ServerTypes'
    BY <1>a, <1>4, MultiAssumption
    DEF ReclaimExpired, ServerTypes, Goto, GotoSlot, NextSlot, Threads, ServerPlaces, Claims
  <2>5. QED
    BY <2>1, <2>2, <2>3, <2>4 DEF TypeOK
<1>5. ASSUME NEW s \in Slots, OrphanSkipped(s) PROVE TypeOK'
  <2>1. SharedTypes' /\ ClientTypes'
    BY <1>5, <1>b, <1>e DEF OrphanSkipped, shared, clients
  <2>2. SlotTypes'
    BY <1>a, <1>5, MultiAssumption
    DEF OrphanSkipped, SlotTypes, Lock, Locked, Unlock, Threads, Never
  <2>3. ServerTypes'
    BY <1>a, <1>5, MultiAssumption
    DEF OrphanSkipped, ServerTypes, Goto, GotoSlot, NextSlot, Threads, ServerPlaces, Claims
  <2>4. QED
    BY <2>1, <2>2, <2>3 DEF TypeOK
<1>6. ASSUME NEW s \in Slots, OrphanTaken(s) PROVE TypeOK'
  <2>1. ClientTypes'
    BY <1>6, <1>e DEF OrphanTaken, clients
  <2>2. SharedTypes'
    BY <1>a, <1>6
    DEF OrphanTaken, SharedTypes, Claims, States
  <2>3. SlotTypes'
    BY <1>a, <1>6, MultiAssumption
    DEF OrphanTaken, SlotTypes, Lock, Locked, Unlock, Threads, Never
  <2>4. ServerTypes'
    BY <1>a, <1>6, MultiAssumption
    DEF OrphanTaken, ServerTypes, Goto, GotoSlot, NextSlot, Threads, ServerPlaces, Claims
  <2>5. QED
    BY <2>1, <2>2, <2>3, <2>4 DEF TypeOK
<1>7. ASSUME NEW s \in Slots, Collect(s) PROVE TypeOK'
  <2>1. SharedTypes' /\ ClientTypes'
    BY <1>7, <1>b, <1>e DEF Collect, shared, clients
  <2>2. SlotTypes'
    BY <1>a, <1>7, MultiAssumption
    DEF Collect, SlotTypes, Lock, Locked, Unlock, Threads, Never
  <2>3. ServerTypes'
    BY <1>a, <1>7, MultiAssumption
    DEF Collect, ServerTypes, Goto, GotoSlot, NextSlot, Threads, ServerPlaces, Claims, SlotTypes
  <2>4. QED
    BY <2>1, <2>2, <2>3 DEF TypeOK
<1>8. ASSUME NEW s \in Slots, WaitEvent(s) PROVE TypeOK'
  <2>1. SlotTypes' /\ ClientTypes'
    BY <1>8, <1>c, <1>e DEF WaitEvent, slots, clients
  <2>2. SharedTypes'
    BY <1>a, <1>8
    DEF WaitEvent, SharedTypes, Claims, States
  <2>3. ServerTypes'
    BY <1>a, <1>8, MultiAssumption
    DEF WaitEvent, ServerTypes, Goto, GotoSlot, NextSlot, Threads, ServerPlaces, Claims
  <2>4. QED
    BY <2>1, <2>2, <2>3 DEF TypeOK
<1>9. ASSUME NEW s \in Slots, HandleConnect(s) PROVE TypeOK'
  <2>1. SharedTypes' /\ ClientTypes'
    BY <1>9, <1>b, <1>e DEF HandleConnect, shared, clients
  <2>2. SlotTypes'
    BY <1>a, <1>9, MultiAssumption
    DEF HandleConnect, SlotTypes, Lock, Locked, Unlock, Threads, Never
  <2>3. ServerTypes'
    BY <1>a, <1>9, MultiAssumption
    DEF HandleConnect, ServerTypes, Goto, GotoSlot, NextSlot, Threads, ServerPlaces, Claims
  <2>4. QED
    BY <2>1, <2>2, <2>3 DEF TypeOK
<1>10. ASSUME NEW s \in Slots, HandshakeFailed(s) PROVE TypeOK'
  <2>1. ClientTypes'
    BY <1>10, <1>e DEF HandshakeFailed, clients
  <2>2. SharedTypes'
    BY <1>a, <1>10
    DEF HandshakeFailed, SharedTypes, Claims, States
  <2>3. SlotTypes'
    BY <1>a, <1>10, MultiAssumption
    DEF HandshakeFailed, SlotTypes, Lock, Locked, Unlock, Threads, Never
  <2>4. ServerTypes'
    BY <1>a, <1>10, MultiAssumption
    DEF HandshakeFailed, ServerTypes, Goto, GotoSlot, NextSlot, Threads, ServerPlaces, Claims
  <2>5. QED
    BY <2>1, <2>2, <2>3, <2>4 DEF TypeOK
<1>11. ASSUME NEW s \in Slots, ServerReady(s) PROVE TypeOK'
  <2>1. SlotTypes' /\ ClientTypes'
    BY <1>11, <1>c, <1>e DEF ServerReady, slots, clients
  <2>2. SharedTypes'
    BY <1>a, <1>11
    DEF ServerReady, SharedTypes, Claims, States
  <2>3. ServerTypes'
    BY <1>a, <1>11, MultiAssumption
    DEF ServerReady, ServerTypes, Goto, GotoSlot, NextSlot, Threads, ServerPlaces, Claims
  <2>4. QED
    BY <2>1, <2>2, <2>3 DEF TypeOK
<1>12. ASSUME NEW s \in Slots, ClientReady(s) PROVE TypeOK'
  <2>1. SlotTypes' /\ ClientTypes'
    BY <1>12, <1>c, <1>e DEF ClientReady, slots, clients
  <2>2. SharedTypes'
    BY <1>a, <1>12
    DEF ClientReady, SharedTypes, Claims, States
  <2>3. ServerTypes'
    BY <1>a, <1>12, MultiAssumption
    DEF ClientReady, ServerTypes, Goto, GotoSlot, NextSlot, Threads, ServerPlaces, Claims
  <2>4. QED
    BY <2>1, <2>2, <2>3 DEF TypeOK
<1>13. ASSUME NEW s \in Slots, Acknowledge(s) PROVE TypeOK'
  <2>1. ClientTypes'
    BY <1>13, <1>e DEF Acknowledge, clients
  <2>2. SharedTypes'
    BY <1>a, <1>13
    DEF Acknowledge, SharedTypes, Claims, States
  <2>3. SlotTypes'
    BY <1>a, <1>13, MultiAssumption
    DEF Acknowledge, SlotTypes, Lock, Locked, Unlock, Threads, Never
  <2>4. ServerTypes'
    BY <1>a, <1>13, MultiAssumption
    DEF Acknowledge, ServerTypes, Goto, GotoSlot, NextSlot, Threads, ServerPlaces, Claims
  <2>5. QED
    BY <2>1, <2>2, <2>3, <2>4 DEF TypeOK
<1>14. ASSUME NEW s \in Slots, HandleDisconnect(s) PROVE TypeOK'
  <2>1. ClientTypes'
    BY <1>14, <1>e DEF HandleDisconnect, clients
  <2>2. SharedTypes'
    BY <1>a, <1>14
    DEF HandleDisconnect, SharedTypes, Claims, States
  <2>3. SlotTypes'
    BY <1>a, <1>14, MultiAssumption
    DEF HandleDisconnect, SlotTypes, Lock, Locked, Unlock, Threads, Never
  <2>4. ServerTypes'
    BY <1>a, <1>14, MultiAssumption
    DEF HandleDisconnect, ServerTypes, Goto, GotoSlot, NextSlot, Threads, ServerPlaces, Claims, SlotTypes
  <2>5. QED
    BY <2>1, <2>2, <2>3, <2>4 DEF TypeOK
<1>15. ASSUME NEW s \in Slots, MarkServer("worker", s, "orphan_server", "orphan_client") PROVE TypeOK'
  <2>1. SlotTypes' /\ ClientTypes'
    BY <1>15, <1>c, <1>e DEF MarkServer, slots, clients
  <2>2. SharedTypes'
    BY <1>a, <1>15
    DEF MarkServer, SharedTypes, Claims, States
  <2>3. ServerTypes'
    BY <1>a, <1>15, MultiAssumption
    DEF MarkServer, ServerTypes, Goto, GotoSlot, NextSlot, Threads, ServerPlaces, Claims
  <2>4. QED
    BY <2>1, <2>2, <2>3 DEF TypeOK
<1>16. ASSUME NEW s \in Slots, MarkServer("user", s, "mark_server", "mark_client") PROVE TypeOK'
  <2>1. SlotTypes' /\ ClientTypes'
    BY <1>16, <1>c, <1>e DEF MarkServer, slots, clients
  <2>2. SharedTypes'
    BY <1>a, <1>16
    DEF MarkServer, SharedTypes, Claims, States
  <2>3. ServerTypes'
    BY <1>a, <1>16, MultiAssumption
    DEF MarkServer, ServerTypes, Goto, GotoSlot, NextSlot, Threads, ServerPlaces, Claims
  <2>4. QED
    BY <2>1, <2>2, <2>3 DEF TypeOK
<1>17. ASSUME NEW t \in Threads, NEW s \in Slots, MarkClient(t, s) PROVE TypeOK'
  <2>1. SlotTypes' /\ ClientTypes'
    BY <1>17, <1>c, <1>e DEF MarkClient, slots, clients
  <2>2. SharedTypes'
    BY <1>a, <1>17
    DEF MarkClient, SharedTypes, Claims, States
  <2>3. ServerTypes'
    BY <1>a, <1>17, MultiAssumption
    DEF MarkClient, ServerTypes, Goto, GotoSlot, NextSlot, Threads, ServerPlaces, Claims
  <2>4. QED
    BY <2>1, <2>2, <2>3 DEF TypeOK
<1>18. ASSUME NEW s \in Slots, MarkOrphanClient(s) PROVE TypeOK'
  <2>1. ClientTypes'
    BY <1>18, <1>e DEF MarkOrphanClient, clients
  <2>2. SharedTypes'
    BY <1>a, <1>18
    DEF MarkOrphanClient, SharedTypes, Claims, States
  <2>3. SlotTypes'
    BY <1>a, <1>18, MultiAssumption
    DEF MarkOrphanClient, SlotTypes, Lock, Locked, Unlock, Threads, Never
  <2>4. ServerTypes'
    BY <1>a, <1>18, MultiAssumption
    DEF MarkOrphanClient, ServerTypes, Goto, GotoSlot, NextSlot, Threads, ServerPlaces, Claims
  <2>5. QED
    BY <2>1, <2>2, <2>3, <2>4 DEF TypeOK
<1>19. ASSUME NEW t \in Threads, NEW s \in Slots, ReleaseSlotClaim(t, s) PROVE TypeOK'
  <2>1. ClientTypes'
    BY <1>19, <1>e DEF ReleaseSlotClaim, clients
  <2>2. SharedTypes'
    BY <1>a, <1>19
    DEF ReleaseSlotClaim, SharedTypes, Claims, States
  <2>3. SlotTypes'
    BY <1>a, <1>19, MultiAssumption
    DEF ReleaseSlotClaim, SlotTypes, Lock, Locked, Unlock, Threads, Never
  <2>4. ServerTypes'
    BY <1>a, <1>19, MultiAssumption
    DEF ReleaseSlotClaim, ServerTypes, Goto, GotoSlot, NextSlot, Threads, ServerPlaces, Claims
  <2>5. QED
    BY <2>1, <2>2, <2>3, <2>4 DEF TypeOK
<1>20. ASSUME NEW s \in Slots, OnClientConnect(s) PROVE TypeOK'
  <2>1. SharedTypes' /\ SlotTypes' /\ ClientTypes'
    BY <1>20, <1>b, <1>c, <1>e DEF OnClientConnect, shared, slots, clients
  <2>2. ServerTypes'
    BY <1>a, <1>20, MultiAssumption
    DEF OnClientConnect, ServerTypes, Goto, GotoSlot, NextSlot, Threads, ServerPlaces, Claims
  <2>3. QED
    BY <2>1, <2>2 DEF TypeOK
<1>21. ASSUME NEW t \in Threads, NEW s \in Slots, OnClientDisconnect(t, s) PROVE TypeOK'
  <2>1. SharedTypes' /\ SlotTypes' /\ ClientTypes'
    BY <1>21, <1>b, <1>c, <1>e DEF OnClientDisconnect, shared, slots, clients
  <2>2. ServerTypes'
    BY <1>a, <1>21, MultiAssumption
    DEF OnClientDisconnect, ServerTypes, Goto, GotoSlot, NextSlot, Threads, ServerPlaces, Claims
  <2>3. QED
    BY <2>1, <2>2 DEF TypeOK
<1>22. ASSUME NEW s \in Slots, DisconnectClient(s) PROVE TypeOK'
  <2>1. ClientTypes'
    BY <1>22, <1>e DEF DisconnectClient, clients
  <2>2. SharedTypes'
    BY <1>a, <1>22
    DEF DisconnectClient, SharedTypes, Claims, States
  <2>3. SlotTypes'
    BY <1>a, <1>22, MultiAssumption
    DEF DisconnectClient, SlotTypes, Lock, Locked, Unlock, Threads, Never
  <2>4. ServerTypes'
    BY <1>a, <1>22, MultiAssumption
    DEF DisconnectClient, ServerTypes, Goto, GotoSlot, NextSlot, Threads, ServerPlaces, Claims
  <2>5. QED
    BY <2>1, <2>2, <2>3, <2>4 DEF TypeOK
<1>23. ASSUME OrphansDone PROVE TypeOK'
  <2>1. SharedTypes' /\ SlotTypes' /\ ClientTypes'
    BY <1>23, <1>b, <1>c, <1>e DEF OrphansDone, shared, slots, clients
  <2>2. ServerTypes'
    BY <1>a, <1>23, MultiAssumption
    DEF OrphansDone, ServerTypes, Goto, GotoSlot, NextSlot, Threads, ServerPlaces, Claims
  <2>3. QED
    BY <2>1, <2>2 DEF TypeOK
<1>24. ASSUME WaitTimeout PROVE TypeOK'
  <2>1. SharedTypes' /\ SlotTypes' /\ ClientTypes'
    BY <1>24, <1>b, <1>c, <1>e DEF WaitTimeout, shared, slots, clients
  <2>2. ServerTypes'
    BY <1>a, <1>24, MultiAssumption
    DEF WaitTimeout, ServerTypes, Goto, GotoSlot, NextSlot, Threads, ServerPlaces, Claims
  <2>3. QED
    BY <2>1, <2>2 DEF TypeOK
<1>25. ASSUME NEW c \in Clients, TryClaimSlot(c) PROVE TypeOK'
  <2>1. SlotTypes' /\ ServerTypes'
    BY <1>25, <1>c, <1>d DEF TryClaimSlot, slots, server, Step
  <2>2. SharedTypes'
    BY <1>a, <1>25, MultiAssumption
    DEF TryClaimSlot, SharedTypes, Claims, Tokens, States, CLAIM_FREE, NoPid, Scanning, ClientTypes, Step
  <2>3. ClientTypes'
    BY <1>a, <1>25, MultiAssumption
    DEF TryClaimSlot, ClientTypes, Step, Connecting, Scanning
  <2>4. QED
    BY <2>1, <2>2, <2>3 DEF TypeOK
<1>26. ASSUME NEW c \in Clients, TryNextSlot(c) PROVE TypeOK'
  <2>1. SharedTypes' /\ SlotTypes' /\ ServerTypes'
    BY <1>26, <1>b, <1>c, <1>d DEF TryNextSlot, shared, slots, server, Step
  <2>2. ClientTypes'
    BY <1>a, <1>26, MultiAssumption
    DEF TryNextSlot, ClientTypes, Step, Connecting
  <2>3. QED
    BY <2>1, <2>2 DEF TypeOK
<1>27. ASSUME NEW c \in Clients, PublishPid(c) PROVE TypeOK'
  <2>1. SlotTypes' /\ ServerTypes'
    BY <1>27, <1>c, <1>d DEF PublishPid, slots, server, Step
  <2>2. SharedTypes'
    BY <1>a, <1>27
    DEF PublishPid, SharedTypes, Claims, Tokens, States, CLAIM_FREE, NoPid, ClientTypes, Step
  <2>3. ClientTypes'
    BY <1>a, <1>27, MultiAssumption
    DEF PublishPid, ClientTypes, Step, Connecting
  <2>4. QED
    BY <2>1, <2>2, <2>3 DEF TypeOK
<1>28. ASSUME NEW c \in Clients, Hello(c) PROVE TypeOK'
  <2>1. SlotTypes' /\ ServerTypes'
    BY <1>28, <1>c, <1>d DEF Hello, slots, server, Step
  <2>2. SharedTypes'
    BY <1>a, <1>28
    DEF Hello, SharedTypes, Claims, Tokens, States, CLAIM_FREE, NoPid, ClientTypes, Step
  <2>3. ClientTypes'
    BY <1>a, <1>28, MultiAssumption
    DEF Hello, ClientTypes, Step, Connecting
  <2>4. QED
    BY <2>1, <2>2, <2>3 DEF TypeOK
<1>29. ASSUME NEW c \in Clients, Request(c) PROVE TypeOK'
  <2>1. SlotTypes' /\ ServerTypes'
    BY <1>29, <1>c, <1>d DEF Request, slots, server, Step
  <2>2. SharedTypes'
    BY <1>a, <1>29
    DEF Request, SharedTypes, Claims, Tokens, States, CLAIM_FREE, NoPid, ClientTypes, Step
  <2>3. ClientTypes'
    BY <1>a, <1>29, MultiAssumption
    DEF Request, ClientTypes, Step, Connecting
  <2>4. QED
    BY <2>1, <2>2, <2>3 DEF TypeOK
<1>30. ASSUME NEW c \in Clients, Acknowledged(c) PROVE TypeOK'
  <2>1. SlotTypes' /\ ServerTypes'
    BY <1>30, <1>c, <1>d DEF Acknowledged, slots, server, Step
  <2>2. SharedTypes'
    BY <1>a, <1>30
    DEF Acknowledged, SharedTypes, Claims, Tokens, States, CLAIM_FREE, NoPid, ClientTypes, Step
  <2>3. ClientTypes'
    BY <1>a, <1>30, MultiAssumption
    DEF Acknowledged, ClientTypes, Step, Connecting
  <2>4. QED
    BY <2>1, <2>2, <2>3 DEF TypeOK
<1>31. ASSUME NEW c \in Clients, ConnectTimeout(c) PROVE TypeOK'
  <2>1. SharedTypes' /\ SlotTypes' /\ ServerTypes'
    BY <1>31, <1>b, <1>c, <1>d DEF ConnectTimeout, shared, slots, server, Step
  <2>2. ClientTypes'
    BY <1>a, <1>31, MultiAssumption
    DEF ConnectTimeout, ClientTypes, Step, Connecting
  <2>3. QED
    BY <2>1, <2>2 DEF TypeOK
<1>32. ASSUME NEW c \in Clients, CheckServer(c) PROVE TypeOK'
  <2>1. SharedTypes' /\ SlotTypes' /\ ServerTypes'
    BY <1>32, <1>b, <1>c, <1>d DEF CheckServer, shared, slots, server, Step
  <2>2. ClientTypes'
    BY <1>a, <1>32, MultiAssumption
    DEF CheckServer, ClientTypes, Step, Connecting
  <2>3. QED
    BY <2>1, <2>2 DEF TypeOK
<1>33. ASSUME NEW c \in Clients, Abort(c) PROVE TypeOK'
  <2>1. SlotTypes' /\ ServerTypes'
    BY <1>33, <1>c, <1>d DEF Abort, slots, server, Step
  <2>2. SharedTypes'
    BY <1>a, <1>33
    DEF Abort, SharedTypes, Claims, Tokens, States, CLAIM_FREE, NoPid, ClientTypes, Step
  <2>3. ClientTypes'
    BY <1>a, <1>33, MultiAssumption
    DEF Abort, ClientTypes, Step, Connecting
  <2>4. QED
    BY <2>1, <2>2, <2>3 DEF TypeOK
<1>34. ASSUME NEW c \in Clients, Disconnected(c) PROVE TypeOK'
  <2>1. SlotTypes' /\ ServerTypes'
    BY <1>34, <1>c, <1>d DEF Disconnected, slots, server, Step
  <2>2. SharedTypes'
    BY <1>a, <1>34
    DEF Disconnected, SharedTypes, Claims, Tokens, States, CLAIM_FREE, NoPid, ClientTypes, Step
  <2>3. ClientTypes'
    BY <1>a, <1>34, MultiAssumption
    DEF Disconnected, ClientTypes, Step, Connecting
  <2>4. QED
    BY <2>1, <2>2, <2>3 DEF TypeOK
<1>35. ASSUME NEW c \in Clients, Stopped(c) PROVE TypeOK'
  <2>1. SharedTypes' /\ SlotTypes' /\ ServerTypes'
    BY <1>35, <1>b, <1>c, <1>d DEF Stopped, shared, slots, server, Step
  <2>2. ClientTypes'
    BY <1>a, <1>35, MultiAssumption
    DEF Stopped, ClientTypes, Step, Connecting
  <2>3. QED
    BY <2>1, <2>2 DEF TypeOK
<1>36. ASSUME NEW c \in Clients, DropClient(c) PROVE TypeOK'
  <2>1. SlotTypes' /\ ServerTypes'
    BY <1>36, <1>c, <1>d DEF DropClient, slots, server, Step
  <2>2. SharedTypes'
    BY <1>a, <1>36
    DEF DropClient, SharedTypes, Claims, Tokens, States, CLAIM_FREE, NoPid, ClientTypes, Step
  <2>3. ClientTypes'
    BY <1>a, <1>36, MultiAssumption
    DEF DropClient, ClientTypes, Step, Connecting
  <2>4. QED
    BY <2>1, <2>2, <2>3 DEF TypeOK
<1>37. ASSUME NEW c \in Clients, DropSignals(c) PROVE TypeOK'
  <2>1. SlotTypes' /\ ServerTypes'
    BY <1>37, <1>c, <1>d DEF DropSignals, slots, server, Step
  <2>2. SharedTypes'
    BY <1>a, <1>37
    DEF DropSignals, SharedTypes, Claims, Tokens, States, CLAIM_FREE, NoPid, ClientTypes, Step
  <2>3. ClientTypes'
    BY <1>a, <1>37, MultiAssumption
    DEF DropSignals, ClientTypes, Step, Connecting
  <2>4. QED
    BY <2>1, <2>2, <2>3 DEF TypeOK
<1>38. ASSUME NEW c \in Clients, ReleaseClaim(c) PROVE TypeOK'
  <2>1. SlotTypes' /\ ServerTypes'
    BY <1>38, <1>c, <1>d DEF ReleaseClaim, slots, server, Step
  <2>2. SharedTypes'
    BY <1>a, <1>38
    DEF ReleaseClaim, SharedTypes, Claims, Tokens, States, CLAIM_FREE, NoPid, ClientTypes, Step
  <2>3. ClientTypes'
    BY <1>a, <1>38, MultiAssumption
    DEF ReleaseClaim, ClientTypes, Step, Connecting
  <2>4. QED
    BY <2>1, <2>2, <2>3 DEF TypeOK
<1>39. ASSUME NEW c \in Clients, Stop(c) PROVE TypeOK'
  <2>1. SharedTypes' /\ SlotTypes' /\ ServerTypes'
    BY <1>39, <1>b, <1>c, <1>d DEF Stop, shared, slots, server
  <2>2. ClientTypes'
    BY <1>a, <1>39, MultiAssumption
    DEF Stop, ClientTypes, Step, Connecting
  <2>3. QED
    BY <2>1, <2>2 DEF TypeOK
<1>40. ASSUME NEW c \in Clients, Crash(c) PROVE TypeOK'
  <2>1. SharedTypes' /\ SlotTypes' /\ ServerTypes'
    BY <1>40, <1>b, <1>c, <1>d DEF Crash, shared, slots, server
  <2>2. ClientTypes'
    BY <1>a, <1>40, MultiAssumption
    DEF Crash, ClientTypes, Step, Connecting
  <2>3. QED
    BY <2>1, <2>2 DEF TypeOK
<1>41. ASSUME NEW c \in Clients, Vanish(c) PROVE TypeOK'
  <2>1. SharedTypes' /\ SlotTypes' /\ ServerTypes'
    BY <1>41, <1>b, <1>c, <1>d DEF Vanish, shared, slots, server
  <2>2. ClientTypes'
    BY <1>a, <1>41, MultiAssumption
    DEF Vanish, ClientTypes, Step, Connecting
  <2>3. QED
    BY <2>1, <2>2 DEF TypeOK
<1>42. ASSUME Tick PROVE TypeOK'
  <2>1. SharedTypes' /\ ServerTypes'
    BY <1>42, <1>b, <1>d DEF Tick, shared, server
  <2>2. SlotTypes'
    BY <1>a, <1>42, MultiAssumption
    DEF Tick, SlotTypes, Lock, Locked, Unlock, Threads, Never, Aged, Attempts
  <2>3. ClientTypes'
    BY <1>a, <1>42, MultiAssumption
    DEF Tick, ClientTypes, Step, Connecting, Aged, Attempts
  <2>4. QED
    BY <2>1, <2>2, <2>3 DEF TypeOK
<1>43. CASE UNCHANGED vars
  BY <1>43, <1>b, <1>c, <1>d, <1>e DEF vars, TypeOK
<1>f. QED
  BY <1>1, <1>2, <1>3, <1>4, <1>5, <1>6, <1>7, <1>8, <1>9, <1>10, <1>11,
     <1>12, <1>13, <1>14, <1>15, <1>16, <1>17, <1>18, <1>19, <1>20, <1>21,
     <1>22, <1>23, <1>24, <1>25, <1>26, <1>27, <1>28, <1>29, <1>30, <1>31,
     <1>32, <1>33, <1>34, <1>35, <1>36, <1>37, <1>38, <1>39, <1>40, <1>41,
     <1>42, <1>43
  DEF Next, WorkerStep, UserStep, ClientStep, Threads

-----------------------------------------------------------------------------
(* Every step preserves the rest of the invariant.                            *)
Accounts == Owing /\ Shaking /\ CallbackAccounting

\* What the clients and the clock do changes none of it.
LEMMA ClientsKeepAccounts ==
  ASSUME Accounts, UNCHANGED <<server, connected>>
  PROVE  Accounts'
  BY DEF Accounts, Owing, Shaking, CallbackAccounting, server

LEMMA AccountStep == IInv /\ [Next]_vars => Accounts'
<1> SUFFICES ASSUME IInv, [Next]_vars PROVE Accounts'
  OBVIOUS
<1>a. /\ at \in [Threads -> ServerPlaces] /\ on \in [Threads -> Slots]
      /\ was \in [Threads -> BOOLEAN] /\ balance \in [Slots -> Int]
      /\ connected \in [Slots -> BOOLEAN]
  BY DEF IInv, TypeOK, ServerTypes, SlotTypes
<1>b. Accounts /\ Owing /\ Shaking /\ CallbackAccounting
  BY DEF IInv, Accounts
<1>c. "worker" \in Threads /\ "user" \in Threads
  BY DEF Threads
<1>1. ASSUME NEW s \in Slots, ReclaimConnected(s) PROVE Accounts'
  <2>1. Owing'
    BY <1>a, <1>b, <1>c, <1>1
    DEF ReclaimConnected, Lock, Locked, Unlock, Goto, GotoSlot, NextSlot,
        Threads, Owing, WorkerOwing, UserOwing, slots, shared, clients
  <2>2. Shaking'
    BY <1>a, <1>b, <1>c, <1>1
    DEF ReclaimConnected, Lock, Locked, Unlock, Goto, GotoSlot, NextSlot,
        Threads, Shaking, slots, shared, clients
  <2>3. CallbackAccounting'
    BY <1>a, <1>b, <1>c, <1>1
    DEF ReclaimConnected, Lock, Locked, Unlock, Goto, GotoSlot, NextSlot,
        Threads, CallbackAccounting, One, Owing, Shaking, WorkerOwing,
        UserOwing, slots, shared, clients
  <2>4. QED
    BY <2>1, <2>2, <2>3 DEF Accounts
<1>2. ASSUME NEW s \in Slots, CheckOwner(s) PROVE Accounts'
  <2>1. Owing'
    BY <1>a, <1>b, <1>c, <1>2
    DEF CheckOwner, Lock, Locked, Unlock, Goto, GotoSlot, NextSlot, Threads,
        Owing, WorkerOwing, UserOwing, slots, shared, clients
  <2>2. Shaking'
    BY <1>a, <1>b, <1>c, <1>2
    DEF CheckOwner, Lock, Locked, Unlock, Goto, GotoSlot, NextSlot, Threads,
        Shaking, slots, shared, clients
  <2>3. CallbackAccounting'
    BY <1>a, <1>b, <1>c, <1>2
    DEF CheckOwner, Lock, Locked, Unlock, Goto, GotoSlot, NextSlot, Threads,
        CallbackAccounting, One, Owing, Shaking, WorkerOwing, UserOwing,
        slots, shared, clients
  <2>4. QED
    BY <2>1, <2>2, <2>3 DEF Accounts
<1>3. ASSUME NEW s \in Slots, ReclaimIdle(s) PROVE Accounts'
  <2>1. Owing'
    BY <1>a, <1>b, <1>c, <1>3
    DEF ReclaimIdle, Lock, Locked, Unlock, Goto, GotoSlot, NextSlot,
        Threads, Owing, WorkerOwing, UserOwing, slots, shared, clients
  <2>2. Shaking'
    BY <1>a, <1>b, <1>c, <1>3
    DEF ReclaimIdle, Lock, Locked, Unlock, Goto, GotoSlot, NextSlot,
        Threads, Shaking, slots, shared, clients
  <2>3. CallbackAccounting'
    BY <1>a, <1>b, <1>c, <1>3
    DEF ReclaimIdle, Lock, Locked, Unlock, Goto, GotoSlot, NextSlot,
        Threads, CallbackAccounting, One, Owing, Shaking, WorkerOwing,
        UserOwing, slots, shared, clients
  <2>4. QED
    BY <2>1, <2>2, <2>3 DEF Accounts
<1>4. ASSUME NEW s \in Slots, ReclaimExpired(s) PROVE Accounts'
  <2>1. Owing'
    BY <1>a, <1>b, <1>c, <1>4
    DEF ReclaimExpired, Lock, Locked, Unlock, Goto, GotoSlot, NextSlot,
        Threads, Owing, WorkerOwing, UserOwing, slots, shared, clients
  <2>2. Shaking'
    BY <1>a, <1>b, <1>c, <1>4
    DEF ReclaimExpired, Lock, Locked, Unlock, Goto, GotoSlot, NextSlot,
        Threads, Shaking, slots, shared, clients
  <2>3. CallbackAccounting'
    BY <1>a, <1>b, <1>c, <1>4
    DEF ReclaimExpired, Lock, Locked, Unlock, Goto, GotoSlot, NextSlot,
        Threads, CallbackAccounting, One, Owing, Shaking, WorkerOwing,
        UserOwing, slots, shared, clients
  <2>4. QED
    BY <2>1, <2>2, <2>3 DEF Accounts
<1>5. ASSUME NEW s \in Slots, OrphanSkipped(s) PROVE Accounts'
  <2>1. Owing'
    BY <1>a, <1>b, <1>c, <1>5
    DEF OrphanSkipped, Lock, Locked, Unlock, Goto, GotoSlot, NextSlot,
        Threads, NextOrphan, Owing, WorkerOwing, UserOwing, slots, shared,
        clients
  <2>2. Shaking'
    BY <1>a, <1>b, <1>c, <1>5
    DEF OrphanSkipped, Lock, Locked, Unlock, Goto, GotoSlot, NextSlot,
        Threads, NextOrphan, Shaking, slots, shared, clients
  <2>3. CallbackAccounting'
    BY <1>a, <1>b, <1>c, <1>5
    DEF OrphanSkipped, Lock, Locked, Unlock, Goto, GotoSlot, NextSlot,
        Threads, NextOrphan, CallbackAccounting, One, Owing, Shaking,
        WorkerOwing, UserOwing, slots, shared, clients
  <2>4. QED
    BY <2>1, <2>2, <2>3 DEF Accounts
<1>6. ASSUME NEW s \in Slots, OrphanTaken(s) PROVE Accounts'
  <2>1. Owing'
    BY <1>a, <1>b, <1>c, <1>6
    DEF OrphanTaken, Lock, Locked, Unlock, Goto, GotoSlot, NextSlot,
        Threads, NextOrphan, Owing, WorkerOwing, UserOwing, slots, shared,
        clients
  <2>2. Shaking'
    BY <1>a, <1>b, <1>c, <1>6
    DEF OrphanTaken, Lock, Locked, Unlock, Goto, GotoSlot, NextSlot,
        Threads, NextOrphan, Shaking, slots, shared, clients
  <2>3. CallbackAccounting'
    BY <1>a, <1>b, <1>c, <1>6
    DEF OrphanTaken, Lock, Locked, Unlock, Goto, GotoSlot, NextSlot,
        Threads, NextOrphan, CallbackAccounting, One, Owing, Shaking,
        WorkerOwing, UserOwing, slots, shared, clients
  <2>4. QED
    BY <2>1, <2>2, <2>3 DEF Accounts
<1>7. ASSUME NEW s \in Slots, Collect(s) PROVE Accounts'
  <2>1. Owing'
    BY <1>a, <1>b, <1>c, <1>7
    DEF Collect, Lock, Locked, Unlock, Goto, GotoSlot, NextSlot, Threads,
        Owing, WorkerOwing, UserOwing, slots, shared, clients
  <2>2. Shaking'
    BY <1>a, <1>b, <1>c, <1>7
    DEF Collect, Lock, Locked, Unlock, Goto, GotoSlot, NextSlot, Threads,
        Shaking, slots, shared, clients
  <2>3. CallbackAccounting'
    BY <1>a, <1>b, <1>c, <1>7
    DEF Collect, Lock, Locked, Unlock, Goto, GotoSlot, NextSlot, Threads,
        CallbackAccounting, One, Owing, Shaking, WorkerOwing, UserOwing,
        slots, shared, clients
  <2>4. QED
    BY <2>1, <2>2, <2>3 DEF Accounts
<1>8. ASSUME NEW s \in Slots, WaitEvent(s) PROVE Accounts'
  <2>1. Owing'
    BY <1>a, <1>b, <1>c, <1>8
    DEF WaitEvent, Lock, Locked, Unlock, Goto, GotoSlot, NextSlot, Threads,
        Owing, WorkerOwing, UserOwing, slots, shared, clients
  <2>2. Shaking'
    BY <1>a, <1>b, <1>c, <1>8
    DEF WaitEvent, Lock, Locked, Unlock, Goto, GotoSlot, NextSlot, Threads,
        Shaking, slots, shared, clients
  <2>3. CallbackAccounting'
    BY <1>a, <1>b, <1>c, <1>8
    DEF WaitEvent, Lock, Locked, Unlock, Goto, GotoSlot, NextSlot, Threads,
        CallbackAccounting, One, Owing, Shaking, WorkerOwing, UserOwing,
        slots, shared, clients
  <2>4. QED
    BY <2>1, <2>2, <2>3 DEF Accounts
<1>9. ASSUME NEW s \in Slots, HandleConnect(s) PROVE Accounts'
  <2>1. Owing'
    BY <1>a, <1>b, <1>c, <1>9
    DEF HandleConnect, Lock, Locked, Unlock, Goto, GotoSlot, NextSlot,
        Threads, Owing, WorkerOwing, UserOwing, slots, shared, clients
  <2>2. Shaking'
    BY <1>a, <1>b, <1>c, <1>9
    DEF HandleConnect, Lock, Locked, Unlock, Goto, GotoSlot, NextSlot,
        Threads, Shaking, slots, shared, clients
  <2>3. CallbackAccounting'
    BY <1>a, <1>b, <1>c, <1>9
    DEF HandleConnect, Lock, Locked, Unlock, Goto, GotoSlot, NextSlot,
        Threads, CallbackAccounting, One, Owing, Shaking, WorkerOwing,
        UserOwing, slots, shared, clients
  <2>4. QED
    BY <2>1, <2>2, <2>3 DEF Accounts
<1>10. ASSUME NEW s \in Slots, HandshakeFailed(s) PROVE Accounts'
  <2>1. Owing'
    BY <1>a, <1>b, <1>c, <1>10
    DEF HandshakeFailed, Lock, Locked, Unlock, Goto, GotoSlot, NextSlot,
        Threads, Owing, WorkerOwing, UserOwing, slots, shared, clients
  <2>2. Shaking'
    BY <1>a, <1>b, <1>c, <1>10
    DEF HandshakeFailed, Lock, Locked, Unlock, Goto, GotoSlot, NextSlot,
        Threads, Shaking, slots, shared, clients
  <2>3. CallbackAccounting'
    BY <1>a, <1>b, <1>c, <1>10
    DEF HandshakeFailed, Lock, Locked, Unlock, Goto, GotoSlot, NextSlot,
        Threads, CallbackAccounting, One, Owing, Shaking, WorkerOwing,
        UserOwing, slots, shared, clients
  <2>4. QED
    BY <2>1, <2>2, <2>3 DEF Accounts
<1>11. ASSUME NEW s \in Slots, ServerReady(s) PROVE Accounts'
  <2>1. Owing'
    BY <1>a, <1>b, <1>c, <1>11
    DEF ServerReady, Lock, Locked, Unlock, Goto, GotoSlot, NextSlot,
        Threads, Owing, WorkerOwing, UserOwing, slots, shared, clients
  <2>2. Shaking'
    BY <1>a, <1>b, <1>c, <1>11
    DEF ServerReady, Lock, Locked, Unlock, Goto, GotoSlot, NextSlot,
        Threads, Shaking, slots, shared, clients
  <2>3. CallbackAccounting'
    BY <1>a, <1>b, <1>c, <1>11
    DEF ServerReady, Lock, Locked, Unlock, Goto, GotoSlot, NextSlot,
        Threads, CallbackAccounting, One, Owing, Shaking, WorkerOwing,
        UserOwing, slots, shared, clients
  <2>4. QED
    BY <2>1, <2>2, <2>3 DEF Accounts
<1>12. ASSUME NEW s \in Slots, ClientReady(s) PROVE Accounts'
  <2>1. Owing'
    BY <1>a, <1>b, <1>c, <1>12
    DEF ClientReady, Lock, Locked, Unlock, Goto, GotoSlot, NextSlot,
        Threads, Owing, WorkerOwing, UserOwing, slots, shared, clients
  <2>2. Shaking'
    BY <1>a, <1>b, <1>c, <1>12
    DEF ClientReady, Lock, Locked, Unlock, Goto, GotoSlot, NextSlot,
        Threads, Shaking, slots, shared, clients
  <2>3. CallbackAccounting'
    BY <1>a, <1>b, <1>c, <1>12
    DEF ClientReady, Lock, Locked, Unlock, Goto, GotoSlot, NextSlot,
        Threads, CallbackAccounting, One, Owing, Shaking, WorkerOwing,
        UserOwing, slots, shared, clients
  <2>4. QED
    BY <2>1, <2>2, <2>3 DEF Accounts
<1>13. ASSUME NEW s \in Slots, Acknowledge(s) PROVE Accounts'
  <2>1. Owing'
    BY <1>a, <1>b, <1>c, <1>13
    DEF Acknowledge, Lock, Locked, Unlock, Goto, GotoSlot, NextSlot,
        Threads, Owing, WorkerOwing, UserOwing, slots, shared, clients
  <2>2. Shaking'
    BY <1>a, <1>b, <1>c, <1>13
    DEF Acknowledge, Lock, Locked, Unlock, Goto, GotoSlot, NextSlot,
        Threads, Shaking, slots, shared, clients
  <2>3. CallbackAccounting'
    <3>1. /\ ~connected[s] /\ ~was["worker"]
          /\ at'["worker"] = "on_client_connect" /\ on'["worker"] = s
          /\ connected'[s] /\ UNCHANGED <<on, was, balance>>
      BY <1>a, <1>b, <1>c, <1>13
      DEF Acknowledge, Goto, Shaking, Owing, WorkerOwing
    <3>2. ASSUME NEW r \in Slots, r # s PROVE connected'[r] = connected[r]
      BY <1>a, <1>13, <3>2 DEF Acknowledge
    <3>3. QED
      BY <1>a, <1>b, <1>13, <3>1, <3>2 DEF Acknowledge, CallbackAccounting, One
  <2>4. QED
    BY <2>1, <2>2, <2>3 DEF Accounts
<1>14. ASSUME NEW s \in Slots, HandleDisconnect(s) PROVE Accounts'
  <2>1. Owing'
    BY <1>a, <1>b, <1>c, <1>14
    DEF HandleDisconnect, Lock, Locked, Unlock, Goto, GotoSlot, NextSlot,
        Threads, Owing, WorkerOwing, UserOwing, slots, shared, clients
  <2>2. Shaking'
    BY <1>a, <1>b, <1>c, <1>14
    DEF HandleDisconnect, Lock, Locked, Unlock, Goto, GotoSlot, NextSlot,
        Threads, Shaking, slots, shared, clients
  <2>3. CallbackAccounting'
    BY <1>a, <1>b, <1>c, <1>14
    DEF HandleDisconnect, Lock, Locked, Unlock, Goto, GotoSlot, NextSlot,
        Threads, CallbackAccounting, One, Owing, Shaking, WorkerOwing,
        UserOwing, slots, shared, clients
  <2>4. QED
    BY <2>1, <2>2, <2>3 DEF Accounts
<1>15. ASSUME NEW s \in Slots, MarkServer("worker", s, "orphan_server", "orphan_client") PROVE Accounts'
  <2>1. Owing'
    BY <1>a, <1>b, <1>c, <1>15
    DEF MarkServer, Lock, Locked, Unlock, Goto, GotoSlot, NextSlot, Threads,
        Owing, WorkerOwing, UserOwing, slots, shared, clients
  <2>2. Shaking'
    BY <1>a, <1>b, <1>c, <1>15
    DEF MarkServer, Lock, Locked, Unlock, Goto, GotoSlot, NextSlot, Threads,
        Shaking, slots, shared, clients
  <2>3. CallbackAccounting'
    BY <1>a, <1>b, <1>c, <1>15
    DEF MarkServer, Lock, Locked, Unlock, Goto, GotoSlot, NextSlot, Threads,
        CallbackAccounting, One, Owing, Shaking, WorkerOwing, UserOwing,
        slots, shared, clients
  <2>4. QED
    BY <2>1, <2>2, <2>3 DEF Accounts
<1>16. ASSUME NEW s \in Slots, MarkServer("user", s, "mark_server", "mark_client") PROVE Accounts'
  <2>1. Owing'
    BY <1>a, <1>b, <1>c, <1>16
    DEF MarkServer, Lock, Locked, Unlock, Goto, GotoSlot, NextSlot, Threads,
        Owing, WorkerOwing, UserOwing, slots, shared, clients
  <2>2. Shaking'
    BY <1>a, <1>b, <1>c, <1>16
    DEF MarkServer, Lock, Locked, Unlock, Goto, GotoSlot, NextSlot, Threads,
        Shaking, slots, shared, clients
  <2>3. CallbackAccounting'
    BY <1>a, <1>b, <1>c, <1>16
    DEF MarkServer, Lock, Locked, Unlock, Goto, GotoSlot, NextSlot, Threads,
        CallbackAccounting, One, Owing, Shaking, WorkerOwing, UserOwing,
        slots, shared, clients
  <2>4. QED
    BY <2>1, <2>2, <2>3 DEF Accounts
<1>17. ASSUME NEW t \in Threads, NEW s \in Slots, MarkClient(t, s) PROVE Accounts'
  <2>1. Owing'
    BY <1>a, <1>b, <1>c, <1>17
    DEF MarkClient, Lock, Locked, Unlock, Goto, GotoSlot, NextSlot, Threads,
        Owing, WorkerOwing, UserOwing, slots, shared, clients
  <2>2. Shaking'
    BY <1>a, <1>b, <1>c, <1>17
    DEF MarkClient, Lock, Locked, Unlock, Goto, GotoSlot, NextSlot, Threads,
        Shaking, slots, shared, clients
  <2>3. CallbackAccounting'
    BY <1>a, <1>b, <1>c, <1>17
    DEF MarkClient, Lock, Locked, Unlock, Goto, GotoSlot, NextSlot, Threads,
        CallbackAccounting, One, Owing, Shaking, WorkerOwing, UserOwing,
        slots, shared, clients
  <2>4. QED
    BY <2>1, <2>2, <2>3 DEF Accounts
<1>18. ASSUME NEW s \in Slots, MarkOrphanClient(s) PROVE Accounts'
  <2>1. Owing'
    BY <1>a, <1>b, <1>c, <1>18
    DEF MarkOrphanClient, Lock, Locked, Unlock, Goto, GotoSlot, NextSlot,
        Threads, Owing, WorkerOwing, UserOwing, slots, shared, clients
  <2>2. Shaking'
    BY <1>a, <1>b, <1>c, <1>18
    DEF MarkOrphanClient, Lock, Locked, Unlock, Goto, GotoSlot, NextSlot,
        Threads, Shaking, slots, shared, clients
  <2>3. CallbackAccounting'
    BY <1>a, <1>b, <1>c, <1>18
    DEF MarkOrphanClient, Lock, Locked, Unlock, Goto, GotoSlot, NextSlot,
        Threads, CallbackAccounting, One, Owing, Shaking, WorkerOwing,
        UserOwing, slots, shared, clients
  <2>4. QED
    BY <2>1, <2>2, <2>3 DEF Accounts
<1>19. ASSUME NEW t \in Threads, NEW s \in Slots, ReleaseSlotClaim(t, s) PROVE Accounts'
  <2>1. Owing'
    BY <1>a, <1>b, <1>c, <1>19
    DEF ReleaseSlotClaim, Lock, Locked, Unlock, Goto, GotoSlot, NextSlot,
        Threads, Owing, WorkerOwing, UserOwing, slots, shared, clients
  <2>2. Shaking'
    BY <1>a, <1>b, <1>c, <1>19
    DEF ReleaseSlotClaim, Lock, Locked, Unlock, Goto, GotoSlot, NextSlot,
        Threads, Shaking, slots, shared, clients
  <2>3. CallbackAccounting'
    BY <1>a, <1>b, <1>c, <1>19
    DEF ReleaseSlotClaim, Lock, Locked, Unlock, Goto, GotoSlot, NextSlot,
        Threads, CallbackAccounting, One, Owing, Shaking, WorkerOwing,
        UserOwing, slots, shared, clients
  <2>4. QED
    BY <2>1, <2>2, <2>3 DEF Accounts
<1>20. ASSUME NEW s \in Slots, OnClientConnect(s) PROVE Accounts'
  <2>1. Owing'
    BY <1>a, <1>b, <1>c, <1>20
    DEF OnClientConnect, Lock, Locked, Unlock, Goto, GotoSlot, NextSlot,
        Threads, Owing, WorkerOwing, UserOwing, slots, shared, clients
  <2>2. Shaking'
    BY <1>a, <1>b, <1>c, <1>20
    DEF OnClientConnect, Lock, Locked, Unlock, Goto, GotoSlot, NextSlot,
        Threads, Shaking, slots, shared, clients
  <2>3. CallbackAccounting'
    BY <1>a, <1>b, <1>c, <1>20
    DEF OnClientConnect, Lock, Locked, Unlock, Goto, GotoSlot, NextSlot,
        Threads, CallbackAccounting, One, Owing, Shaking, WorkerOwing,
        UserOwing, slots, shared, clients
  <2>4. QED
    BY <2>1, <2>2, <2>3 DEF Accounts
<1>21. ASSUME NEW t \in Threads, NEW s \in Slots, OnClientDisconnect(t, s) PROVE Accounts'
  <2>1. Owing'
    BY <1>a, <1>b, <1>c, <1>21
    DEF OnClientDisconnect, Lock, Locked, Unlock, Goto, GotoSlot, NextSlot,
        Threads, Owing, WorkerOwing, UserOwing, slots, shared, clients
  <2>2. Shaking'
    BY <1>a, <1>b, <1>c, <1>21
    DEF OnClientDisconnect, Lock, Locked, Unlock, Goto, GotoSlot, NextSlot,
        Threads, Shaking, slots, shared, clients
  <2>3. CallbackAccounting'
    BY <1>a, <1>b, <1>c, <1>21
    DEF OnClientDisconnect, Lock, Locked, Unlock, Goto, GotoSlot, NextSlot,
        Threads, CallbackAccounting, One, Owing, Shaking, WorkerOwing,
        UserOwing, slots, shared, clients
  <2>4. QED
    BY <2>1, <2>2, <2>3 DEF Accounts
<1>22. ASSUME NEW s \in Slots, DisconnectClient(s) PROVE Accounts'
  <2>1. Owing'
    BY <1>a, <1>b, <1>c, <1>22
    DEF DisconnectClient, Lock, Locked, Unlock, Goto, GotoSlot, NextSlot,
        Threads, Owing, WorkerOwing, UserOwing, slots, shared, clients
  <2>2. Shaking'
    BY <1>a, <1>b, <1>c, <1>22
    DEF DisconnectClient, Lock, Locked, Unlock, Goto, GotoSlot, NextSlot,
        Threads, Shaking, slots, shared, clients
  <2>3. CallbackAccounting'
    BY <1>a, <1>b, <1>c, <1>22
    DEF DisconnectClient, Lock, Locked, Unlock, Goto, GotoSlot, NextSlot,
        Threads, CallbackAccounting, One, Owing, Shaking, WorkerOwing,
        UserOwing, slots, shared, clients
  <2>4. QED
    BY <2>1, <2>2, <2>3 DEF Accounts
<1>23. ASSUME OrphansDone PROVE Accounts'
  <2>1. Owing'
    BY <1>a, <1>b, <1>c, <1>23
    DEF OrphansDone, Lock, Locked, Unlock, Goto, GotoSlot, NextSlot,
        Threads, Owing, WorkerOwing, UserOwing, slots, shared, clients
  <2>2. Shaking'
    BY <1>a, <1>b, <1>c, <1>23
    DEF OrphansDone, Lock, Locked, Unlock, Goto, GotoSlot, NextSlot,
        Threads, Shaking, slots, shared, clients
  <2>3. CallbackAccounting'
    BY <1>a, <1>b, <1>c, <1>23
    DEF OrphansDone, Lock, Locked, Unlock, Goto, GotoSlot, NextSlot,
        Threads, CallbackAccounting, One, Owing, Shaking, WorkerOwing,
        UserOwing, slots, shared, clients
  <2>4. QED
    BY <2>1, <2>2, <2>3 DEF Accounts
<1>24. ASSUME WaitTimeout PROVE Accounts'
  <2>1. Owing'
    BY <1>a, <1>b, <1>c, <1>24
    DEF WaitTimeout, Lock, Locked, Unlock, Goto, GotoSlot, NextSlot,
        Threads, Owing, WorkerOwing, UserOwing, slots, shared, clients
  <2>2. Shaking'
    BY <1>a, <1>b, <1>c, <1>24
    DEF WaitTimeout, Lock, Locked, Unlock, Goto, GotoSlot, NextSlot,
        Threads, Shaking, slots, shared, clients
  <2>3. CallbackAccounting'
    BY <1>a, <1>b, <1>c, <1>24
    DEF WaitTimeout, Lock, Locked, Unlock, Goto, GotoSlot, NextSlot,
        Threads, CallbackAccounting, One, Owing, Shaking, WorkerOwing,
        UserOwing, slots, shared, clients
  <2>4. QED
    BY <2>1, <2>2, <2>3 DEF Accounts
<1>25. ASSUME NEW c \in Clients, ClientStep(c) \/ Stop(c) \/ Crash(c) \/ Vanish(c)
      PROVE  Accounts'
  <2>1. UNCHANGED <<server, connected>>
    BY <1>25 DEF slots, ClientStep, TryClaimSlot, TryNextSlot, PublishPid, Hello, Request, Acknowledged, ConnectTimeout, CheckServer, Abort, Disconnected, Stopped, DropClient, DropSignals, ReleaseClaim, Stop, Crash, Vanish
  <2>2. QED
    BY <1>b, <2>1, ClientsKeepAccounts
<1>26. CASE Tick
  BY <1>b, <1>26, ClientsKeepAccounts DEF Tick
<1>27. CASE UNCHANGED vars
  BY <1>b, <1>27, ClientsKeepAccounts DEF vars, slots
<1>d. QED
  BY <1>c, <1>1, <1>2, <1>3, <1>4, <1>5, <1>6, <1>7, <1>8, <1>9, <1>10,
     <1>11, <1>12, <1>13, <1>14, <1>15, <1>16, <1>17, <1>18, <1>19, <1>20,
     <1>21, <1>22, <1>23, <1>24, <1>25, <1>26, <1>27
  DEF Next, WorkerStep, UserStep

-----------------------------------------------------------------------------
(* The inductive invariant of the slots, the user's and the worker's thread.  *)
THEOREM Invariance == Spec => []IInv
<1>1. IInv /\ [Next]_vars => IInv'
  BY TypeStep, AccountStep DEF IInv, Accounts
<1>2. QED
  BY InitInv, <1>1, PTL DEF Spec

(* Every word, event and local of the slots, the server's threads and the     *)
(* clients keeps its type.                                                    *)
THEOREM TypeCorrect == Spec => []TypeOK
<1>1. IInv => TypeOK
  BY DEF IInv
<1>2. QED
  BY <1>1, Invariance, PTL

(* on_client_connect and on_client_disconnect: whatever the worker,           *)
(* disconnect_client, the clients, their crashes and timeouts do, no callback *)
(* is lost and none is made twice.                                            *)
THEOREM CallbacksAddUp == Spec => []CallbackAccounting
<1>1. IInv => CallbackAccounting
  BY DEF IInv
<1>2. QED
  BY <1>1, Invariance, PTL

-----------------------------------------------------------------------------
(* Without troubles: a slot, a client that a step has nothing to do with.     *)
CalmPlaces == {"reclaim", "owner", "orphans", "collect", "wait", "connect",
               "server_ready", "client_ready", "ack", "on_client_connect"}
ShakingPlaces == {"connect", "server_ready", "client_ready", "ack"}

SameSlot(s) ==
  /\ claim'[s] = claim[s] /\ connected'[s] = connected[s]
  /\ connect_req'[s] = connect_req[s] /\ connect_ack'[s] = connect_ack[s]
  /\ server_state'[s] = server_state[s] /\ client_state'[s] = client_state[s]
  /\ (at'["worker"] = at["worker"] /\ on'["worker"] = on["worker"]) \/ (~Handshaking(s) /\ ~Handshaking(s)')
SameAge(s) == claim_seen_at'[s] = claim_seen_at[s]
SameClient(c) == pc'[c] = pc[c] /\ slot'[c] = slot[c] /\ tries'[c] = tries[c] /\ held'[c] = held[c]

LEMMA ClientApart ==
  ASSUME NEW c \in Clients, ClientCalm(c), SameClient(c),
         NEW s \in Slots, s = slot[c], SameSlot(s), SameAge(s) \/ claim_seen_at'[s] <= held[c]
  PROVE  ClientCalm(c)'
<1>1. CASE pc[c] = "idle"
  BY <1>1 DEF ClientCalm, SameClient
<1>2. CASE pc[c] # "idle"
  <2>1. Token(c)' = Token(c)
    BY DEF Token, SameClient
  <2>2. Handshaking(s)' <=> Handshaking(s)
    BY DEF SameSlot, Handshaking
  <2>3. Handshaking(s) => at'["worker"] = at["worker"]
    BY DEF SameSlot
  <2>4. /\ pc[c] \in {"pid", "hello", "req", "wait", "check", "up"}
        /\ claim[s] = Token(c) /\ tries[c] >= 1
        /\ ~connected[s] => claim_seen_at[s] <= held[c] /\ ~connect_ack[s]
        /\ connected[s] => server_state[s] = "READY" /\ ~connect_req[s] /\ ~Handshaking(s)
        /\ pc[c] \in {"pid", "hello", "req"} => ~connected[s] /\ ~connect_req[s] /\ ~Handshaking(s)
        /\ pc[c] = "wait" /\ ~connected[s] =>
             /\ connect_req[s] => ~Handshaking(s)
             /\ connect_req[s] \/ (Handshaking(s) /\ at["worker"] = "connect") => client_state[s] = "HELLO"
             /\ Handshaking(s) /\ at["worker"] \in {"client_ready", "ack"} => server_state[s] = "READY"
        /\ pc[c] \in {"check", "up"} => connected[s]
        /\ pc[c] = "req" => client_state[s] = "HELLO"
    BY <1>2 DEF ClientCalm
  <2>5. slot'[c] = s
    BY DEF SameClient
  <2>6. QED
    BY <2>1, <2>2, <2>3, <2>4, <2>5 DEF ClientCalm, SameClient, SameSlot, SameAge
<1>3. QED
  BY <1>1, <1>2

LEMMA SlotApart ==
  ASSUME NEW s \in Slots, SlotCalm(s), SameSlot(s), SameAge(s) \/ claim[s] # CLAIM_FREE,
         \A c \in Clients : pc[c] # "idle" => pc'[c] # "idle" /\ slot'[c] = slot[c]
  PROVE  SlotCalm(s)'
  BY DEF SlotCalm, SameSlot, SameAge, Handshaking

\* Two clients pursue two slots, and none pursues a slot that is free.
LEMMA Apart ==
  ASSUME Calm
  PROVE  /\ \A c \in Clients : pc[c] # "idle" => claim[slot[c]] # CLAIM_FREE
         /\ \A c, d \in Clients : c # d /\ pc[c] # "idle" /\ pc[d] # "idle" => slot[c] # slot[d]
<1>1. \A c \in Clients : pc[c] # "idle" => claim[slot[c]] = <<c, tries[c]>> /\ tries[c] >= 1
  BY DEF Calm, ClientCalm, Token
<1>2. \A c \in Clients : tries[c] >= 1 => <<c, tries[c]>> # <<"free", 0>>
  OBVIOUS
<1>3. QED
  BY <1>1, <1>2 DEF CLAIM_FREE

LEMMA CalmInit == Init => Calm
<1> SUFFICES ASSUME Init PROVE Calm
  OBVIOUS
<1>1. Quiet
  BY DEF Init, Quiet, Threads
<1>2. \A s \in Slots : SlotCalm(s)
  BY DEF Init, SlotCalm, Handshaking, Threads
<1>3. \A c \in Clients : ClientCalm(c)
  BY DEF Init, ClientCalm
<1>4. QED
  BY <1>1, <1>2, <1>3 DEF Calm

\* The worker looks at slots, and the timer of a claim starts or is restarted.
LEMMA WorkerLooks ==
  ASSUME TypeOK, Calm, Quiet',
         UNCHANGED <<claim, server_state, client_state, connect_req, connect_ack, connected, clients>>,
         \/ at'["worker"] = at["worker"] /\ on'["worker"] = on["worker"]
         \/ at["worker"] \notin ShakingPlaces /\ at'["worker"] \notin ShakingPlaces,
         \A s \in Slots : SameAge(s) \/ (claim[s] # CLAIM_FREE /\ claim_seen_at'[s] = 0)
  PROVE  Calm'
<1>1. \A s \in Slots : SameSlot(s)
  BY DEF SameSlot, Handshaking, ShakingPlaces
<1>2. \A c \in Clients : SameClient(c) /\ slot[c] \in Slots /\ held[c] \in Nat
  BY DEF SameClient, clients, TypeOK, ClientTypes
<1>3. \A s \in Slots : SlotCalm(s)'
  BY <1>1, <1>2, SlotApart DEF Calm, SameClient
<1>4. ASSUME NEW c \in Clients PROVE ClientCalm(c)'
  <2>1. SameAge(slot[c]) \/ claim_seen_at'[slot[c]] <= held[c]
    BY <1>2
  <2>2. QED
    BY <1>1, <1>2, <2>1, ClientApart DEF Calm
<1>5. QED
  BY <1>3, <1>4 DEF Calm

\* The steps of the worker between two handshakes.
LEMMA CalmLooks ==
  ASSUME Troubles = {}, IInv, Calm, NEW s \in Slots,
         \/ ReclaimConnected(s) \/ CheckOwner(s) \/ ReclaimIdle(s) \/ Collect(s)
         \/ OnClientConnect(s) \/ OrphansDone \/ WaitTimeout
  PROVE  Calm'
<1> USE SlotFacts
<1>1. TypeOK /\ Quiet /\ (\A r \in Slots : SlotCalm(r)) /\ (\A c \in Clients : ClientCalm(c))
  BY DEF IInv, Calm
<1>2. /\ at \in [Threads -> ServerPlaces] /\ on \in [Threads -> Slots]
      /\ "worker" \in Threads /\ "user" \in Threads
      /\ claim_seen_at \in [Slots -> {Never} \union (0..RESERVE_TIMEOUT)]
      /\ orphaned \in [Slots -> Claims \union {NotOrphaned}] /\ watch \in [Slots -> BOOLEAN]
      /\ owner_pid \in [Slots -> Clients \union {NoPid}]
  BY <1>1 DEF TypeOK, SharedTypes, SlotTypes, ServerTypes, Threads
<1>3. \A from, to : NextSlot(s, from, to) =>
        at'["worker"] \in {from, to} /\ at'["user"] = at["user"]
  BY <1>2 DEF NextSlot, GotoSlot, Goto, Threads
<1>4. ASSUME connected[s] PROVE claim[s] # CLAIM_FREE
  BY <1>1, <1>4 DEF SlotCalm
<1>5. ASSUME ~connected[s], claim[s] # CLAIM_FREE PROVE claim_seen_at[s] < RESERVE_TIMEOUT
  <2>1. PICK c \in Clients : pc[c] # "idle" /\ slot[c] = s
    BY <1>1, <1>5 DEF SlotCalm
  <2>2. claim_seen_at[s] <= held[c] /\ held[c] \in 0..SLOT_TIMEOUT
    BY <1>1, <1>5, <2>1 DEF ClientCalm, TypeOK, ClientTypes
  <2>3. claim_seen_at[s] \in {-1} \union (0..RESERVE_TIMEOUT)
    BY <1>2 DEF Never
  <2>4. QED
    BY <2>2, <2>3, MultiAssumption
<1>6. /\ UNCHANGED <<claim, server_state, client_state, connect_req, connect_ack, disconnect,
                     connected, clients>>
      /\ at["worker"] \notin ShakingPlaces
  BY DEF ReclaimConnected, CheckOwner, ReclaimIdle, Collect, OnClientConnect, OrphansDone, WaitTimeout,
         shared, slots, ShakingPlaces
<1>7. \A c \in Clients : process'[c] = process[c] /\ running'[c] = running[c]
  BY <1>6 DEF clients
<1>8. CASE ReclaimConnected(s)
  <2>1. claim[s] # CLAIM_FREE
    BY <1>4, <1>8 DEF ReclaimConnected
  <2>2. /\ at["worker"] = "reclaim" /\ watch' = watch
        /\ \/ /\ NextSlot(s, "reclaim", "orphans") /\ orphaned' = orphaned
              /\ claim_seen_at' = claim_seen_at
           \/ /\ at' = [at EXCEPT !["worker"] = "owner"] /\ on' = [on EXCEPT !["worker"] = s]
              /\ orphaned' = [orphaned EXCEPT ![s] = claim[s]]
              /\ claim_seen_at' = [claim_seen_at EXCEPT ![s] = 0]
    BY <1>8, <2>1 DEF ReclaimConnected, GotoSlot, Goto
  <2>3. \A r \in Slots : orphaned[r] = NotOrphaned
    BY <1>1, <2>2 DEF Quiet
  <2>4. at'["worker"] \in {"reclaim", "orphans", "owner"} /\ at'["user"] = "idle"
    BY <1>1, <1>2, <1>3, <2>2 DEF Quiet, Threads
  <2>5. \A r \in Slots : orphaned'[r] # NotOrphaned => at'["worker"] = "owner" /\ on'["worker"] = r
    BY <1>2, <2>2, <2>3
  <2>6. Quiet'
    BY <1>1, <1>6, <1>7, <2>2, <2>4, <2>5 DEF Quiet
  <2>7. \A r \in Slots : SameAge(r) \/ (claim[r] # CLAIM_FREE /\ claim_seen_at'[r] = 0)
    BY <1>2, <2>1, <2>2 DEF SameAge
  <2>8. QED
    BY <1>1, <1>6, <2>4, <2>6, <2>7, WorkerLooks DEF ShakingPlaces
<1>9. CASE CheckOwner(s)
  <2>1. is_process_alive(owner_pid[s])
    BY <1>1, <1>2 DEF is_process_alive, Quiet
  <2>2. /\ at["worker"] = "owner" /\ on["worker"] = s /\ NextSlot(s, "reclaim", "orphans")
        /\ orphaned' = [orphaned EXCEPT ![s] = NotOrphaned]
        /\ claim_seen_at' = claim_seen_at /\ watch' = watch
    BY <1>9, <2>1 DEF CheckOwner
  <2>3. \A r \in Slots : orphaned'[r] = NotOrphaned
    BY <1>1, <1>2, <2>2 DEF Quiet
  <2>4. at'["worker"] \in {"reclaim", "orphans"} /\ at'["user"] = "idle"
    BY <1>1, <1>3, <2>2 DEF Quiet
  <2>5. Quiet'
    BY <1>1, <1>6, <1>7, <2>2, <2>3, <2>4 DEF Quiet
  <2>6. QED
    BY <1>1, <1>6, <2>2, <2>4, <2>5, WorkerLooks DEF ShakingPlaces, SameAge
<1>10. CASE ReclaimIdle(s)
  <2>1. /\ at["worker"] = "reclaim" /\ NextSlot(s, "reclaim", "orphans")
        /\ orphaned' = orphaned /\ watch' = watch
        /\ \/ claim[s] = CLAIM_FREE /\ claim_seen_at' = [claim_seen_at EXCEPT ![s] = Never]
           \/ /\ claim[s] # CLAIM_FREE
              /\ claim_seen_at' = [claim_seen_at EXCEPT ![s] = IF @ = Never THEN 0 ELSE @]
    <3>1. ~(claim[s] # CLAIM_FREE /\ claim_seen_at[s] >= RESERVE_TIMEOUT)
      <4>1. claim[s] # CLAIM_FREE => claim_seen_at[s] < RESERVE_TIMEOUT
        BY <1>5, <1>10 DEF ReclaimIdle
      <4>2. claim_seen_at[s] \in Int
        BY <1>2, MultiAssumption DEF Never
      <4>3. QED
        BY <4>1, <4>2, MultiAssumption
    <3>2. QED
      BY <1>10, <3>1 DEF ReclaimIdle
  <2>2. claim[s] = CLAIM_FREE => claim_seen_at[s] = Never
    BY <1>1 DEF SlotCalm
  <2>3. \A r \in Slots : SameAge(r) \/ (claim[r] # CLAIM_FREE /\ claim_seen_at'[r] = 0)
    BY <1>2, <2>1, <2>2 DEF SameAge
  <2>4. at'["worker"] \in {"reclaim", "orphans"} /\ at'["user"] = "idle"
    BY <1>1, <1>3, <2>1 DEF Quiet
  <2>5. Quiet'
    BY <1>1, <1>6, <1>7, <2>1, <2>4 DEF Quiet
  <2>6. QED
    BY <1>1, <1>6, <2>3, <2>4, <2>5, WorkerLooks DEF ShakingPlaces
<1>11. CASE Collect(s)
  <2>1. /\ at["worker"] = "collect" /\ NextSlot(s, "collect", "wait") /\ orphaned' = orphaned
        /\ watch' = [watch EXCEPT ![s] = connected[s]] /\ claim_seen_at' = claim_seen_at
    BY <1>11 DEF Collect
  <2>2. at'["worker"] \in {"collect", "wait"} /\ at'["user"] = "idle"
    BY <1>1, <1>3, <2>1 DEF Quiet
  <2>3. \A r \in Slots : watch'[r] => connected[r]
    BY <1>1, <1>2, <2>1 DEF Quiet
  <2>4. Quiet'
    BY <1>1, <1>6, <1>7, <2>1, <2>2, <2>3 DEF Quiet
  <2>5. QED
    BY <1>1, <1>6, <2>1, <2>2, <2>4, WorkerLooks DEF ShakingPlaces, SameAge
<1>12. CASE OnClientConnect(s) \/ OrphansDone \/ WaitTimeout
  <2>1. /\ at["worker"] \in {"on_client_connect", "orphans", "wait"}
        /\ \E place \in {"reclaim", "collect"} : at' = [at EXCEPT !["worker"] = place]
        /\ orphaned' = orphaned /\ watch' = watch /\ claim_seen_at' = claim_seen_at
    BY <1>12 DEF OnClientConnect, OrphansDone, WaitTimeout, GotoSlot, Goto, slots
  <2>2. at'["worker"] \in {"reclaim", "collect"} /\ at'["user"] = "idle"
    BY <1>1, <1>2, <2>1 DEF Quiet, Threads
  <2>3. Quiet'
    BY <1>1, <1>6, <1>7, <2>1, <2>2 DEF Quiet
  <2>4. QED
    BY <1>1, <1>6, <2>1, <2>2, <2>3, WorkerLooks DEF ShakingPlaces, SameAge
<1>13. QED
  BY <1>8, <1>9, <1>10, <1>11, <1>12

\* One slot, which a client pursues, is changed by the worker.
LEMMA WorkerShakes ==
  ASSUME TypeOK, Calm, Quiet', NEW s \in Slots, NEW c \in Clients, pc[c] # "idle", slot[c] = s,
         UNCHANGED <<claim, clients>>, \A r \in Slots : r # s => SameSlot(r) /\ SameAge(r),
         ClientCalm(c)'
  PROVE  Calm'
<1>1. /\ \A d \in Clients : SameClient(d) /\ slot[d] \in Slots
      /\ pc'[c] # "idle" /\ slot'[c] = s /\ claim'[s] # CLAIM_FREE
  BY Apart DEF SameClient, clients, TypeOK, ClientTypes
<1>2. ASSUME NEW r \in Slots PROVE SlotCalm(r)'
  <2>1. CASE r = s
    BY <1>1, <2>1 DEF SlotCalm
  <2>2. CASE r # s
    BY <1>1, <2>2, SlotApart DEF Calm, SameClient
  <2>3. QED
    BY <2>1, <2>2
<1>3. ASSUME NEW d \in Clients, d # c PROVE ClientCalm(d)'
  <2>1. CASE pc[d] = "idle"
    BY <1>1, <2>1 DEF ClientCalm, SameClient
  <2>2. CASE pc[d] # "idle"
    <3>1. slot[d] # s /\ slot[d] \in Slots
      BY <1>1, <1>3, <2>2, Apart
    <3>2. QED
      BY <1>1, <3>1, ClientApart DEF Calm
  <2>3. QED
    BY <2>1, <2>2
<1>4. QED
  BY <1>2, <1>3 DEF Calm

LEMMA CalmShakes ==
  ASSUME Troubles = {}, IInv, Calm, NEW s \in Slots,
         WaitEvent(s) \/ HandleConnect(s) \/ ServerReady(s) \/ ClientReady(s) \/ Acknowledge(s)
  PROVE  Calm'
<1> USE SlotFacts
<1>1. TypeOK /\ Quiet /\ (\A r \in Slots : SlotCalm(r)) /\ (\A c \in Clients : ClientCalm(c))
  BY DEF IInv, Calm
<1>2. /\ at \in [Threads -> ServerPlaces] /\ on \in [Threads -> Slots]
      /\ "worker" \in Threads /\ "user" \in Threads /\ "worker" # "user"
      /\ connected \in [Slots -> BOOLEAN] /\ connect_req \in [Slots -> BOOLEAN]
      /\ connect_ack \in [Slots -> BOOLEAN] /\ server_state \in [Slots -> {"IDLE", "READY"}]
      /\ client_state \in [Slots -> States]
      /\ claim_seen_at \in [Slots -> {Never} \union (0..RESERVE_TIMEOUT)]
  BY <1>1 DEF TypeOK, SharedTypes, SlotTypes, ServerTypes, Threads
\* The slot is not free: a client waits for it.
<1>3. /\ claim[s] # CLAIM_FREE
      /\ at["worker"] = "wait" => ~watch[s] /\ connect_req[s]
      /\ at["worker"] # "wait" => at["worker"] \in ShakingPlaces /\ on["worker"] = s
  <2>1. at["worker"] = "wait" => ~watch[s] /\ connect_req[s]
    <3>1. ~disconnect[s]
      BY <1>1 DEF Quiet
    <3>2. at["worker"] = "wait" => WaitEvent(s)
      BY DEF HandleConnect, ServerReady, ClientReady, Acknowledge
    <3>3. QED
      BY <3>1, <3>2 DEF WaitEvent, Signalled
  <2>2. at["worker"] # "wait" => at["worker"] \in ShakingPlaces /\ on["worker"] = s
    BY DEF WaitEvent, HandleConnect, ServerReady, ClientReady, Acknowledge, ShakingPlaces
  <2>3. QED
    BY <1>1, <2>1, <2>2 DEF SlotCalm, Handshaking, ShakingPlaces
<1>4. PICK c \in Clients : pc[c] # "idle" /\ slot[c] = s
  BY <1>1, <1>3 DEF SlotCalm
<1>5. /\ pc[c] = "wait" /\ ~connected[s]
      /\ claim[s] = Token(c) /\ tries[c] >= 1
      /\ claim_seen_at[s] <= held[c] /\ ~connect_ack[s]
      /\ connect_req[s] => ~Handshaking(s)
      /\ connect_req[s] \/ (Handshaking(s) /\ at["worker"] = "connect") => client_state[s] = "HELLO"
      /\ Handshaking(s) /\ at["worker"] \in {"client_ready", "ack"} => server_state[s] = "READY"
  <2>1. connect_req[s] \/ Handshaking(s)
    BY <1>3 DEF Handshaking, ShakingPlaces
  <2>2. ClientCalm(c) /\ slot[c] = s /\ pc[c] # "idle"
    BY <1>1, <1>4
  <2>3. pc[c] = "wait" /\ ~connected[s]
    BY <2>1, <2>2 DEF ClientCalm
  <2>4. QED
    BY <2>2, <2>3 DEF ClientCalm
<1>6. /\ UNCHANGED <<claim, clients, disconnect, watch, orphaned>>
      /\ \A d \in Clients : process'[d] = process[d] /\ running'[d] = running[d]
      /\ pc'[c] = "wait" /\ slot'[c] = s /\ tries'[c] = tries[c] /\ held'[c] = held[c]
  <2>1. UNCHANGED <<claim, clients, disconnect, watch, orphaned>>
    BY <1>3 DEF WaitEvent, HandleConnect, ServerReady, ClientReady, Acknowledge, shared
  <2>2. QED
    BY <1>4, <1>5, <2>1 DEF clients
<1>7. /\ at'["user"] = at["user"] /\ on'["worker"] = s
      /\ at["worker"] = "wait" => at'["worker"] = "connect" /\ UNCHANGED slots /\ WaitEvent(s)
                                  /\ connect_req' = [connect_req EXCEPT ![s] = FALSE]
                                  /\ UNCHANGED <<server_state, client_state, connect_ack>>
      /\ at["worker"] = "connect" => at'["worker"] = "server_ready" /\ UNCHANGED <<connected, claim_seen_at>>
                                  /\ UNCHANGED <<server_state, client_state, connect_req, connect_ack>>
      /\ at["worker"] = "server_ready" => at'["worker"] = "client_ready" /\ UNCHANGED slots
                                  /\ server_state' = [server_state EXCEPT ![s] = "READY"]
                                  /\ UNCHANGED <<client_state, connect_req, connect_ack>>
      /\ at["worker"] = "client_ready" => at'["worker"] = "ack" /\ UNCHANGED slots
                                  /\ client_state' = [client_state EXCEPT ![s] = "READY"]
                                  /\ UNCHANGED <<server_state, connect_req, connect_ack>>
      /\ at["worker"] = "ack" => at'["worker"] = "on_client_connect"
                                  /\ connected' = [connected EXCEPT ![s] = TRUE]
                                  /\ connect_ack' = [connect_ack EXCEPT ![s] = TRUE]
                                  /\ claim_seen_at' = [claim_seen_at EXCEPT ![s] = Never]
                                  /\ UNCHANGED <<server_state, client_state, connect_req>>
  <2>1. CASE WaitEvent(s)
    BY <1>2, <1>3, <2>1 DEF WaitEvent, GotoSlot, Goto
  <2>2. CASE HandleConnect(s)
    <3>1. client_state[s] = "HELLO"
      BY <1>3, <1>5, <2>2 DEF HandleConnect, Handshaking
    <3>2. QED
      BY <1>2, <1>5, <2>2, <3>1 DEF HandleConnect, GotoSlot, Goto, shared
  <2>3. CASE ServerReady(s)
    BY <1>2, <1>3, <2>3 DEF ServerReady, Goto
  <2>4. CASE ClientReady(s)
    BY <1>2, <1>3, <2>4 DEF ClientReady, Goto
  <2>5. CASE Acknowledge(s)
    BY <1>2, <1>3, <2>5 DEF Acknowledge, Goto
  <2>6. QED
    BY <2>1, <2>2, <2>3, <2>4, <2>5
<1>8. at["worker"] \in ShakingPlaces \union {"wait"}
  BY <1>3
<1>9. \A r \in Slots : r # s => SameSlot(r) /\ SameAge(r)
  <2>1. \A r \in Slots : r # s => ~Handshaking(r) /\ ~Handshaking(r)'
    BY <1>3, <1>7, <1>8 DEF Handshaking, ShakingPlaces
  <2>2. \A r \in Slots : r # s =>
          /\ connected'[r] = connected[r] /\ connect_req'[r] = connect_req[r]
          /\ connect_ack'[r] = connect_ack[r] /\ server_state'[r] = server_state[r]
          /\ client_state'[r] = client_state[r] /\ claim_seen_at'[r] = claim_seen_at[r]
    BY <1>2, <1>7, <1>8 DEF ShakingPlaces, slots
  <2>3. QED
    BY <1>6, <2>1, <2>2 DEF SameSlot, SameAge
<1>10. Quiet'
  <2>1. at'["worker"] \in {"connect", "server_ready", "client_ready", "ack", "on_client_connect"}
    BY <1>7, <1>8 DEF ShakingPlaces
  <2>2. at["worker"] # "owner"
    BY <1>8 DEF ShakingPlaces
  <2>3. \A r \in Slots : connected[r] => connected'[r]
    BY <1>2, <1>7, <1>8 DEF ShakingPlaces, slots
  <2>4. QED
    BY <1>1, <1>6, <1>7, <2>1, <2>2, <2>3 DEF Quiet
<1>11. ClientCalm(c)'
  <2>1. Token(c)' = Token(c)
    BY <1>6 DEF Token
  <2>2. Handshaking(s)' <=> at'["worker"] # "on_client_connect"
    BY <1>7, <1>8 DEF Handshaking, ShakingPlaces
  <2>3. connected'[s] <=> at["worker"] = "ack"
    BY <1>2, <1>5, <1>7, <1>8 DEF ShakingPlaces, slots
  <2>4. ~connected'[s] => claim_seen_at'[s] <= held[c] /\ ~connect_ack'[s]
    BY <1>2, <1>5, <1>7, <1>8, <2>3 DEF ShakingPlaces, slots
  <2>5. ~connect_req'[s]
    BY <1>2, <1>3, <1>5, <1>7, <1>8 DEF ShakingPlaces, Handshaking
  <2>6. at'["worker"] \in {"client_ready", "ack", "on_client_connect"} => server_state'[s] = "READY"
    BY <1>2, <1>3, <1>5, <1>7, <1>8 DEF ShakingPlaces, Handshaking
  <2>7. at'["worker"] = "connect" => client_state'[s] = "HELLO"
    BY <1>3, <1>5, <1>7, <1>8 DEF ShakingPlaces, Handshaking
  <2>8. at["worker"] = "ack" <=> at'["worker"] = "on_client_connect"
    BY <1>7, <1>8 DEF ShakingPlaces
  <2>9. QED
    BY <1>5, <1>6, <2>1, <2>2, <2>3, <2>4, <2>5, <2>6, <2>7, <2>8 DEF ClientCalm
<1>12. QED
  BY <1>1, <1>4, <1>6, <1>9, <1>10, <1>11, WorkerShakes

\* A client takes a step with its slot, which no other client pursues.
LEMMA ClientMoves ==
  ASSUME TypeOK, Calm, NEW c \in Clients, NEW s \in Slots, slot[c] = s,
         pc[c] = "idle" => claim[s] = CLAIM_FREE,
         UNCHANGED <<server, slots, disconnect, server_state, process, running, slot>>,
         \A d \in Clients : d # c => SameClient(d),
         \A r \in Slots : r # s => SameSlot(r),
         pc'[c] # "idle", ClientCalm(c)', claim'[s] # CLAIM_FREE
  PROVE  Calm'
<1>1. /\ \A d \in Clients : slot[d] \in Slots
      /\ \A r \in Slots : SameAge(r)
  BY DEF TypeOK, ClientTypes, SameAge, slots
<1>2. Quiet'
  BY DEF Calm, Quiet, server, slots
<1>3. ASSUME NEW r \in Slots PROVE SlotCalm(r)'
  <2>1. CASE r = s
    BY <2>1 DEF SlotCalm
  <2>2. CASE r # s
    <3>1. \A d \in Clients : pc[d] # "idle" => pc'[d] # "idle" /\ slot'[d] = slot[d]
      BY DEF SameClient
    <3>2. QED
      BY <1>1, <2>2, <3>1, SlotApart DEF Calm
  <2>3. QED
    BY <2>1, <2>2
<1>4. ASSUME NEW d \in Clients, d # c PROVE ClientCalm(d)'
  <2>1. CASE pc[d] = "idle"
    BY <1>4, <2>1 DEF ClientCalm, SameClient
  <2>2. CASE pc[d] # "idle"
    <3>1. slot[d] # s
      BY <1>4, <2>2, Apart
    <3>2. QED
      BY <1>1, <1>4, <3>1, ClientApart DEF Calm
  <2>3. QED
    BY <2>1, <2>2
<1>5. QED
  BY <1>2, <1>3, <1>4 DEF Calm

LEMMA CalmClaims ==
  ASSUME IInv, Calm, NEW c \in Clients, TryClaimSlot(c)
  PROVE  Calm'
<1> DEFINE s == slot[c]
<1>1. /\ TypeOK /\ s \in Slots /\ tries \in [Clients -> 0..MaxClaims] /\ held \in [Clients -> 0..SLOT_TIMEOUT]
      /\ claim \in [Slots -> Claims] /\ pc \in [Clients -> Connecting \union {"idle", "up", "drop", "dropped", "release"}]
  BY DEF IInv, TypeOK, SharedTypes, ClientTypes
<1>2. /\ pc[c] = "idle" /\ pc' = [pc EXCEPT ![c] = "pid"] /\ claim[s] = CLAIM_FREE
      /\ tries' = [tries EXCEPT ![c] = @ + 1] /\ claim' = [claim EXCEPT ![s] = <<c, tries[c] + 1>>]
      /\ UNCHANGED <<owner_pid, server_state, client_state, connect_req, connect_ack,
                     disconnect, slots, server, slot, held, running, process>>
  BY DEF TryClaimSlot, Step
<1>3. SlotCalm(s)
  BY <1>1 DEF Calm
<1>4. claim_seen_at[s] = Never /\ ~Handshaking(s) /\ ~connected[s] /\ ~connect_req[s] /\ ~connect_ack[s]
  BY <1>2, <1>3 DEF SlotCalm
<1>5. /\ pc'[c] = "pid" /\ slot'[c] = s /\ tries'[c] = tries[c] + 1 /\ tries'[c] >= 1
      /\ claim'[s] = <<c, tries'[c]>> /\ held'[c] >= -1
  BY <1>1, <1>2, MultiAssumption
<1>6. claim'[s] # CLAIM_FREE
  BY <1>5 DEF CLAIM_FREE
<1>7. ~Handshaking(s)' /\ UNCHANGED <<at, on, connected, claim_seen_at>>
  BY <1>2, <1>4 DEF Handshaking, server, slots
<1>8. ClientCalm(c)'
  <2>1. claim'[s] = Token(c)'
    BY <1>5 DEF Token
  <2>2. claim_seen_at'[s] <= held'[c]
    BY <1>4, <1>5, <1>7 DEF Never
  <2>3. QED
    BY <1>2, <1>4, <1>5, <1>7, <2>1, <2>2 DEF ClientCalm
<1>9. \A d \in Clients : d # c => SameClient(d)
  BY <1>1, <1>2 DEF SameClient
<1>10. \A r \in Slots : r # s => SameSlot(r)
  BY <1>1, <1>2, <1>7 DEF SameSlot, slots
<1>11. QED
  BY <1>1, <1>2, <1>5, <1>6, <1>8, <1>9, <1>10, ClientMoves

LEMMA CalmScans ==
  ASSUME IInv, Calm, NEW c \in Clients, TryNextSlot(c)
  PROVE  Calm'
<1>1. /\ TypeOK /\ slot \in [Clients -> Slots]
      /\ pc \in [Clients -> Connecting \union {"idle", "up", "drop", "dropped", "release"}]
  BY DEF IInv, TypeOK, ClientTypes
<1>2. /\ pc[c] = "idle" /\ pc' = pc /\ slot' = [slot EXCEPT ![c] = (@ + 1) % NumSlots]
      /\ UNCHANGED <<shared, slots, server, tries, held, running, process>>
  BY <1>1 DEF TryNextSlot, Step
<1>3. \A r \in Slots : SameSlot(r) /\ SameAge(r)
  BY <1>2 DEF SameSlot, SameAge, shared, slots, server
<1>4. \A d \in Clients : pc[d] # "idle" => SameClient(d) /\ slot[d] \in Slots
  BY <1>1, <1>2 DEF SameClient
<1>5. Quiet'
  BY <1>2 DEF Calm, Quiet, shared, server, slots
<1>6. \A r \in Slots : SlotCalm(r)'
  BY <1>3, <1>4, SlotApart DEF Calm, SameClient
<1>7. ASSUME NEW d \in Clients PROVE ClientCalm(d)'
  <2>1. CASE pc[d] = "idle"
    BY <1>2, <2>1 DEF ClientCalm
  <2>2. CASE pc[d] # "idle"
    BY <1>3, <1>4, <2>2, ClientApart DEF Calm
  <2>3. QED
    BY <2>1, <2>2
<1>8. QED
  BY <1>5, <1>6, <1>7 DEF Calm

LEMMA CalmConnects ==
  ASSUME IInv, Calm, NEW c \in Clients,
         PublishPid(c) \/ Hello(c) \/ Request(c) \/ Acknowledged(c) \/ CheckServer(c)
  PROVE  Calm'
<1> DEFINE s == slot[c]
<1>1. /\ TypeOK /\ s \in Slots /\ slot \in [Clients -> Slots] /\ held \in [Clients -> 0..SLOT_TIMEOUT]
      /\ pc \in [Clients -> Connecting \union {"idle", "up", "drop", "dropped", "release"}]
      /\ claim \in [Slots -> Claims] /\ client_state \in [Slots -> States]
      /\ connect_req \in [Slots -> BOOLEAN] /\ connect_ack \in [Slots -> BOOLEAN]
  BY DEF IInv, TypeOK, SharedTypes, ClientTypes
<1>2. /\ pc[c] \in {"pid", "hello", "req", "wait", "check"}
      /\ UNCHANGED <<claim, server_state, disconnect, slots, server, slot, tries, running, process>>
  BY DEF PublishPid, Hello, Request, Acknowledged, CheckServer, Step, shared
<1>3. /\ claim[s] = Token(c) /\ tries[c] >= 1
      /\ ~connected[s] => claim_seen_at[s] <= held[c] /\ ~connect_ack[s]
      /\ connected[s] => server_state[s] = "READY" /\ ~connect_req[s] /\ ~Handshaking(s)
      /\ pc[c] \in {"pid", "hello", "req"} => ~connected[s] /\ ~connect_req[s] /\ ~Handshaking(s)
      /\ pc[c] \in {"check", "up"} => connected[s]
      /\ pc[c] = "req" => client_state[s] = "HELLO"
  <2>1. ClientCalm(c)
    BY DEF Calm
  <2>2. QED
    BY <1>2, <2>1 DEF ClientCalm
<1>4. /\ PublishPid(c) => pc'[c] = "hello" /\ UNCHANGED <<client_state, connect_req, connect_ack, held>>
      /\ Hello(c) => /\ pc'[c] = "req" /\ client_state'[s] = "HELLO"
                     /\ UNCHANGED <<connect_req, connect_ack, held>>
      /\ Request(c) => /\ pc'[c] = "wait" /\ connect_req'[s] /\ UNCHANGED <<client_state, connect_ack, held>>
      /\ Acknowledged(c) => /\ pc'[c] = "check" /\ connect_ack[s] /\ ~connect_ack'[s]
                            /\ UNCHANGED <<client_state, connect_req, held>>
      /\ CheckServer(c) => /\ pc'[c] = "up" /\ UNCHANGED <<client_state, connect_req, connect_ack>>
  <2>1. CheckServer(c) => server_state[s] = "READY"
    BY <1>3 DEF CheckServer, Step
  <2>2. CheckServer(c) => pc'[c] = "up" /\ UNCHANGED <<client_state, connect_req, connect_ack>>
    BY <1>1, <2>1 DEF CheckServer, Step, shared
  <2>3. QED
    BY <1>1, <2>2 DEF PublishPid, Hello, Request, Acknowledged, Step
<1>5. /\ PublishPid(c) => pc[c] = "pid"
      /\ Hello(c) => pc[c] = "hello"
      /\ Request(c) => pc[c] = "req"
      /\ Acknowledged(c) => pc[c] = "wait"
      /\ CheckServer(c) => pc[c] = "check"
  BY DEF PublishPid, Hello, Request, Acknowledged, CheckServer, Step
<1>6. /\ UNCHANGED <<at, on, connected, claim_seen_at>> /\ claim'[s] = claim[s] /\ server_state'[s] = server_state[s]
      /\ slot'[c] = s /\ tries'[c] = tries[c] /\ Token(c)' = Token(c)
  BY <1>2 DEF slots, server, Token
<1>7. Handshaking(s)' <=> Handshaking(s)
  BY <1>6 DEF Handshaking
<1>8. ClientCalm(c)'
  <2>1. CASE PublishPid(c)
    BY <1>3, <1>4, <1>5, <1>6, <1>7, <2>1 DEF ClientCalm
  <2>2. CASE Hello(c)
    BY <1>3, <1>4, <1>5, <1>6, <1>7, <2>2 DEF ClientCalm
  <2>3. CASE Request(c)
    BY <1>3, <1>4, <1>5, <1>6, <1>7, <2>3 DEF ClientCalm
  <2>4. CASE Acknowledged(c)
    BY <1>3, <1>4, <1>5, <1>6, <1>7, <2>4 DEF ClientCalm
  <2>5. CASE CheckServer(c)
    BY <1>3, <1>4, <1>5, <1>6, <1>7, <2>5 DEF ClientCalm
  <2>6. QED
    BY <2>1, <2>2, <2>3, <2>4, <2>5
<1>9. \A d \in Clients : d # c => SameClient(d)
  <2>1. \A d \in Clients : d # c => pc'[d] = pc[d] /\ held'[d] = held[d]
    BY <1>1 DEF PublishPid, Hello, Request, Acknowledged, CheckServer, Step
  <2>2. QED
    BY <1>2, <2>1 DEF SameClient
<1>10. \A r \in Slots : r # s => SameSlot(r)
  <2>1. \A r \in Slots : r # s => /\ client_state'[r] = client_state[r] /\ connect_req'[r] = connect_req[r]
                                 /\ connect_ack'[r] = connect_ack[r]
    BY <1>1 DEF PublishPid, Hello, Request, Acknowledged, CheckServer, shared
  <2>2. QED
    BY <1>2, <1>6, <2>1 DEF SameSlot
<1>11. pc'[c] # "idle" /\ pc[c] # "idle" /\ claim'[s] # CLAIM_FREE
  BY <1>2, <1>4, <1>6, Apart
<1>12. QED
  BY <1>1, <1>2, <1>8, <1>9, <1>10, <1>11, ClientMoves

LEMMA CalmTicks ==
  ASSUME IInv, Calm, Tick PROVE Calm'
<1>1. /\ TypeOK /\ slot \in [Clients -> Slots] /\ held \in [Clients -> 0..SLOT_TIMEOUT]
      /\ claim_seen_at \in [Slots -> {Never} \union (0..RESERVE_TIMEOUT)]
  BY DEF IInv, TypeOK, ClientTypes, SlotTypes
<1>2. /\ claim_seen_at' = [s \in Slots |-> Aged(claim_seen_at[s])]
      /\ held' = [c \in Clients |-> IF Attempts(c) THEN held[c] + 1 ELSE held[c]]
      /\ UNCHANGED <<shared, connected, mutex, server, pc, slot, tries, running, process>>
  BY DEF Tick
<1>3. Quiet'
  BY <1>2 DEF Calm, Quiet, shared, server
<1>4. ASSUME NEW s \in Slots PROVE SlotCalm(s)'
  <2>1. claim_seen_at[s] = Never => claim_seen_at'[s] = Never
    BY <1>2 DEF Aged
  <2>2. UNCHANGED <<claim, connected, connect_req, connect_ack, at, on, pc, slot>>
    BY <1>2 DEF shared, server
  <2>3. Handshaking(s)' <=> Handshaking(s)
    BY <2>2 DEF Handshaking
  <2>4. QED
    BY <2>1, <2>2, <2>3 DEF Calm, SlotCalm
<1>5. ASSUME NEW c \in Clients, pc[c] # "idle" PROVE ClientCalm(c)'
  <2> DEFINE s == slot[c]
  <2>1. ClientCalm(c) /\ s \in Slots /\ Alive(c)
    BY <1>1 DEF Calm, Quiet, Alive
  <2>2. UNCHANGED <<claim, connected, connect_req, connect_ack, server_state, client_state, at, on, pc, slot, tries>>
    BY <1>2 DEF shared, server
  <2>3. Token(c)' = Token(c) /\ (Handshaking(s)' <=> Handshaking(s))
    BY <2>2 DEF Token, Handshaking
  <2>4. ~connected[s] => claim_seen_at'[s] <= held'[c]
    <3>1. SUFFICES ASSUME ~connected[s] PROVE claim_seen_at'[s] <= held'[c]
      OBVIOUS
    <3>2. claim_seen_at[s] <= held[c] /\ Attempts(c)
      BY <1>5, <2>1, <3>1 DEF ClientCalm, Attempts, Connecting
    <3>3. held'[c] = held[c] + 1 /\ claim_seen_at'[s] = Aged(claim_seen_at[s])
      BY <1>2, <2>1, <3>2
    <3>4. held[c] \in Nat /\ claim_seen_at[s] \in Int
      BY <1>1, <2>1, MultiAssumption DEF Never
    <3>5. QED
      BY <3>2, <3>3, <3>4 DEF Aged
  <2>5. QED
    BY <1>5, <2>1, <2>2, <2>3, <2>4 DEF ClientCalm
<1>6. \A c \in Clients : pc[c] = "idle" => ClientCalm(c)'
  BY <1>2 DEF ClientCalm
<1>7. QED
  BY <1>3, <1>4, <1>5, <1>6 DEF Calm

\* Nobody causes trouble, and the worker and the clients are never where they
\* would release a claim.
LEMMA NoTrouble ==
  ASSUME Troubles = {}, IInv, Calm
  PROVE  /\ \A s \in Slots : ~(\/ ReclaimExpired(s) \/ OrphanSkipped(s) \/ OrphanTaken(s) \/ HandshakeFailed(s)
                               \/ HandleDisconnect(s) \/ MarkOrphanClient(s) \/ DisconnectClient(s)
                               \/ MarkServer("worker", s, "orphan_server", "orphan_client")
                               \/ MarkServer("user", s, "mark_server", "mark_client"))
         /\ \A t \in Threads, s \in Slots :
              ~(MarkClient(t, s) \/ ReleaseSlotClaim(t, s) \/ OnClientDisconnect(t, s))
         /\ \A c \in Clients : ~(\/ ConnectTimeout(c) \/ Abort(c) \/ Disconnected(c) \/ Stopped(c) \/ DropClient(c)
                                 \/ DropSignals(c) \/ ReleaseClaim(c) \/ Stop(c) \/ Crash(c) \/ Vanish(c))
<1>1. /\ at["worker"] \in CalmPlaces /\ at["user"] = "idle"
      /\ \A c \in Clients : running[c]
      /\ \A s \in Slots : ~disconnect[s] /\ (orphaned[s] # NotOrphaned => at["worker"] = "owner")
  BY DEF Calm, Quiet, CalmPlaces
<1>2. \A c \in Clients : slot[c] \in Slots /\ pc[c] \in {"idle", "pid", "hello", "req", "wait", "check", "up"}
  BY DEF Calm, ClientCalm, IInv, TypeOK, ClientTypes
<1>3. ASSUME NEW s \in Slots
      PROVE  ~(\/ ReclaimExpired(s) \/ OrphanSkipped(s) \/ OrphanTaken(s) \/ HandshakeFailed(s)
               \/ HandleDisconnect(s) \/ MarkOrphanClient(s) \/ DisconnectClient(s)
               \/ MarkServer("worker", s, "orphan_server", "orphan_client")
               \/ MarkServer("user", s, "mark_server", "mark_client"))
  BY <1>1 DEF CalmPlaces, ReclaimExpired, OrphanSkipped, OrphanTaken, NextOrphan, HandshakeFailed,
              HandleDisconnect, MarkOrphanClient, DisconnectClient, MarkServer
<1>4. ASSUME NEW t \in Threads, NEW s \in Slots
      PROVE  ~(MarkClient(t, s) \/ ReleaseSlotClaim(t, s) \/ OnClientDisconnect(t, s))
  BY <1>1 DEF CalmPlaces, Threads, MarkClient, ReleaseSlotClaim, OnClientDisconnect
<1>5. ASSUME NEW c \in Clients
      PROVE  ~(\/ ConnectTimeout(c) \/ Abort(c) \/ Disconnected(c) \/ Stopped(c) \/ DropClient(c)
               \/ DropSignals(c) \/ ReleaseClaim(c) \/ Stop(c) \/ Crash(c) \/ Vanish(c))
  BY <1>1, <1>2 DEF ConnectTimeout, Abort, Disconnected, Stopped, DropClient, DropSignals, ReleaseClaim,
                    Stop, Crash, Vanish, Step
<1>6. QED
  BY <1>3, <1>4, <1>5

LEMMA CalmStep ==
  ASSUME Troubles = {}, IInv, Calm, [Next]_vars PROVE Calm'
<1>1. CASE WorkerStep
  <2>1. \E s \in Slots :
          \/ ReclaimConnected(s) \/ CheckOwner(s) \/ ReclaimIdle(s) \/ Collect(s)
          \/ OnClientConnect(s) \/ OrphansDone \/ WaitTimeout
          \/ WaitEvent(s) \/ HandleConnect(s) \/ ServerReady(s) \/ ClientReady(s) \/ Acknowledge(s)
    BY <1>1, NoTrouble, SlotFacts DEF WorkerStep, Threads
  <2>2. QED
    BY <2>1, CalmLooks, CalmShakes
<1>2. ~UserStep /\ ~(\E s \in Slots : DisconnectClient(s))
  BY NoTrouble DEF UserStep, Threads
<1>3. ASSUME NEW c \in Clients, ClientStep(c) \/ Stop(c) \/ Crash(c) \/ Vanish(c) PROVE Calm'
  <2>1. \/ TryClaimSlot(c) \/ TryNextSlot(c) \/ PublishPid(c) \/ Hello(c) \/ Request(c)
        \/ Acknowledged(c) \/ CheckServer(c)
    BY <1>3, NoTrouble DEF ClientStep
  <2>2. QED
    BY <2>1, CalmClaims, CalmScans, CalmConnects
<1>4. CASE Tick
  BY <1>4, CalmTicks
<1>5. CASE UNCHANGED vars
  <2>1. /\ \A s \in Slots : SameSlot(s) /\ SameAge(s)
        /\ \A c \in Clients : SameClient(c) /\ slot[c] \in Slots
    BY <1>5 DEF vars, shared, slots, server, clients, SameSlot, SameAge, SameClient, IInv, TypeOK, ClientTypes
  <2>2. Quiet'
    BY <1>5 DEF vars, shared, slots, server, clients, Calm, Quiet
  <2>3. \A s \in Slots : SlotCalm(s)'
    BY <2>1, SlotApart DEF Calm, SameClient
  <2>4. \A c \in Clients : ClientCalm(c)'
    BY <2>1, ClientApart DEF Calm
  <2>5. QED
    BY <2>2, <2>3, <2>4 DEF Calm
<1>6. QED
  BY <1>1, <1>2, <1>3, <1>4, <1>5 DEF Next

\* claim_free_slot and try_claim_slot: as long as nobody leaves, crashes, times out
\* or is kicked, a client that is connected holds the claim of its slot, whatever
\* the worker's timers and the handshakes of others do meanwhile.  With any of
\* these troubles it is not so (section 5 of README.md).
THEOREM CalmIsExclusive == Troubles = {} => (Spec => []Exclusive)
<1> SUFFICES ASSUME Troubles = {} PROVE Spec => []Exclusive
  OBVIOUS
<1>1. Init => Calm
  BY CalmInit
<1>2. IInv /\ Calm /\ [Next]_vars => Calm'
  BY CalmStep
<1>3. Calm => Exclusive
  BY DEF Calm, ClientCalm, Exclusive
<1>4. QED
  BY <1>1, <1>2, <1>3, Invariance, PTL DEF Spec
=============================================================================
