---------------------------- MODULE DispatchProofs ----------------------------
(* Proofs about DispatchServer, for any number of clients, joins, messages    *)
(* and calls of the handlers.                                                 *)
EXTENDS DispatchInvariant, TLAPS

LEMMA InitInv == Init => IInv
<1> SUFFICES ASSUME Init PROVE IInv
  OBVIOUS
<1> USE DispatchAssumption
<1>1. TypeOK
  BY DEF Init, TypeOK, PerClient, Ids
<1>2. ASSUME NEW c \in Ids PROVE ClientInv(c)
  BY DEF Init, ClientInv, Callbacks, Life, Unentered, Unused, Entered, Told, Ids
<1>3. QED
  BY <1>1, <1>2 DEF IInv, Init

(* Nothing of the invariant speaks of two clients.  A client is as it was, if *)
(* the step left its record, its entry in the map and its place in the lobby. *)
LEMMA Frame ==
  ASSUME NEW c \in Ids, ClientInv(c),
         of'[c] = of[c], c \in clients' <=> c \in clients,
         next \in Nat, next' \in Nat, next' >= next,
         lobby' = "reply" /\ serving' = c => lobby = "reply" /\ serving = c
  PROVE  ClientInv(c)'
<1>1. Callbacks(c)'
  BY DEF ClientInv, Callbacks, Unentered, InMap, Removed, Reported, Entered, Told, Marked
<1>2. Life(c)'
  BY DEF ClientInv, Life, Unused, Ids
<1>3. QED
  BY <1>1, <1>2 DEF ClientInv

(* It is enough to look at the client k whose record or entry has changed.    *)
LEMMA OneChanged ==
  ASSUME IInv, TypeOK', NEW k \in Ids, ClientInv(k)',
         lobby' \in {"reply", "discard", "join"} => serving' \in Ids,
         next' >= next,
         \A c \in Ids \ {k} :
           /\ of'[c] = of[c] /\ (c \in clients' <=> c \in clients)
           /\ lobby' = "reply" /\ serving' = c => lobby = "reply" /\ serving = c
  PROVE  IInv'
<1>1. next \in Nat /\ next' \in Nat
  BY DEF IInv, TypeOK
<1>2. ASSUME NEW c \in Ids PROVE ClientInv(c)'
  <2>1. CASE c = k
    BY <2>1
  <2>2. CASE c # k
    BY <1>1, <2>2, Frame DEF IInv
  <2>3. QED
    BY <2>1, <2>2
<1>3. QED
  BY <1>2 DEF IInv

(* ... or at both clients, where a handler of one disconnects the other.       *)
LEMMA TwoChanged ==
  ASSUME IInv, TypeOK', NEW k \in Ids, NEW l \in Ids, ClientInv(k)', ClientInv(l)',
         UNCHANGED server,
         \A c \in Ids \ {k, l} : of'[c] = of[c] /\ (c \in clients' <=> c \in clients)
  PROVE  IInv'
<1>1. next \in Nat /\ next' = next
  BY DEF IInv, TypeOK, server
<1>2. ASSUME NEW c \in Ids PROVE ClientInv(c)'
  <2>1. CASE c \in {k, l}
    BY <2>1
  <2>2. CASE c \notin {k, l}
    BY <1>1, <2>2, Frame DEF IInv, server
  <2>3. QED
    BY <2>1, <2>2
<1>3. QED
  BY <1>2 DEF IInv, server

(* A step of the server that leaves the clients and the map alone.            *)
LEMMA NoneChanged ==
  ASSUME IInv, TypeOK', UNCHANGED <<of, clients>>,
         lobby' \in {"reply", "discard", "join"} => serving' \in Ids,
         next' >= next,
         lobby' = "reply" => lobby = "reply" /\ serving' = serving
  PROVE  IInv'
<1>1. next \in Nat /\ next' \in Nat
  BY DEF IInv, TypeOK
<1>2. ASSUME NEW c \in Ids PROVE ClientInv(c)'
  BY <1>1, Frame DEF IInv
<1>3. QED
  BY <1>2 DEF IInv

-----------------------------------------------------------------------------
(* Type correctness, action by action: each leaves a record of PerClient.     *)
LEMMA TypeStep == TypeOK /\ [Next]_vars => TypeOK'
<1> SUFFICES ASSUME TypeOK, [Next]_vars PROVE TypeOK'
  OBVIOUS
<1> USE DEF server, counts
<1>1. ASSUME NEW c \in Ids
      PROVE  /\ of[c] \in PerClient
             /\ of[c].connects + 1 \in Nat /\ of[c].disconnects + 1 \in Nat
  <2>1. of[c] \in PerClient
    BY DEF TypeOK
  <2>2. QED
    BY <2>1 DEF PerClient
<1>2. ASSUME Register PROVE TypeOK'
  <2>1. next \in Ids /\ next + 1 \in 1..(MaxClients + 1)
    BY <1>2, DispatchAssumption DEF Register, TypeOK, Ids
  <2>2. [of[next] EXCEPT !.worker = "wait"] \in PerClient
    BY <1>1, <2>1 DEF PerClient
  <2>3. of' \in [Ids -> PerClient]
    BY <1>2, <2>1, <2>2 DEF Register, TypeOK, Ids
  <2>4. QED
    BY <1>2, <2>1, <2>3, DispatchAssumption DEF Register, TypeOK, Ids
<1>3. ASSUME Reject PROVE TypeOK'
  BY <1>3, DispatchAssumption DEF Reject, TypeOK, Ids
<1>4. ASSUME Reply PROVE TypeOK'
  <2>1. ASSUME serving \in Ids PROVE [of[serving] EXCEPT !.pending = "wait"] \in PerClient
    BY <1>1, <2>1 DEF PerClient
  <2>2. QED
    BY <1>4, <2>1 DEF Reply, TypeOK, Ids
<1>5. ASSUME ReplyFails PROVE TypeOK'
  <2>1. ASSUME serving \in Ids PROVE [of[serving] EXCEPT !.ending = TRUE] \in PerClient
    BY <1>1, <2>1 DEF PerClient
  <2>2. QED
    BY <1>5, <2>1 DEF ReplyFails, TypeOK, Ids
<1>6. ASSUME Joined PROVE TypeOK'
  BY <1>6, DispatchAssumption DEF Joined, TypeOK, Ids
<1>7. ASSUME Drain PROVE TypeOK'
  BY <1>7, DispatchAssumption DEF Drain, TypeOK, Ids
<1>8. ASSUME DrainDone PROVE TypeOK'
  BY <1>8, DispatchAssumption DEF DrainDone, TypeOK, Ids
<1>9. ASSUME NEW c \in Ids, DrainNext(c) PROVE TypeOK'
  <2>1. [of[c] EXCEPT !.ending = TRUE, !.disconnects = @ + 1] \in PerClient
    BY <1>1 DEF PerClient
  <2>2. QED
    BY <1>9, <2>1, DispatchAssumption DEF DrainNext, TypeOK, Ids
<1>10. ASSUME NEW c \in Ids, Join(c) PROVE TypeOK'
  <2>1. [of[c] EXCEPT !.worker = "up", !.signal = TRUE, !.peer = "here"] \in PerClient
    BY <1>1 DEF PerClient
  <2>2. QED
    BY <1>10, <2>1, DispatchAssumption DEF Join, TypeOK, Ids
<1>11. ASSUME NEW c \in Ids, Leave(c) PROVE TypeOK'
  <2>1. [of[c] EXCEPT !.peer = "away"] \in PerClient
    BY <1>1 DEF PerClient
  <2>2. QED
    BY <1>11, <2>1 DEF Leave, TypeOK, Ids
<1>12. ASSUME NEW c \in Ids, OnMessage(c) PROVE TypeOK'
  <2>1. ASSUME NEW does \in {"message"} \cup Calls
        PROVE  [of[c] EXCEPT !.worker = does] \in PerClient
    BY <1>1, <2>1, DispatchAssumption DEF PerClient
  <2>2. of' \in [Ids -> PerClient]
    BY <1>12, <2>1 DEF OnMessage, TypeOK, Ids
  <2>3. messages' \in Nat
    BY <1>12 DEF OnMessage, TypeOK, Ids
  <2>4. QED
    BY <1>12, <2>2, <2>3 DEF OnMessage, TypeOK, Ids
<1>13. ASSUME NEW c \in Ids, Kick(c) PROVE TypeOK'
  <2>1. [of[c] EXCEPT !.kicker = "mark"] \in PerClient
    BY <1>1 DEF PerClient
  <2>2. QED
    BY <1>13, <2>1 DEF Kick, TypeOK, Ids
<1>14. ASSUME NEW c \in Ids, HandlerReturns(c) PROVE TypeOK'
  <2>1. [of[c] EXCEPT !.worker = "up"] \in PerClient
    BY <1>1 DEF PerClient
  <2>2. QED
    BY <1>14, <2>1 DEF HandlerReturns, TypeOK, Ids
<1>15. ASSUME NEW c \in Ids, HandlerSends(c) PROVE TypeOK'
  <2>1. [of[c] EXCEPT !.worker = "message"] \in PerClient
    BY <1>1 DEF PerClient
  <2>2. QED
    BY <1>15, <2>1 DEF HandlerSends, TypeOK, Ids
<1>16. ASSUME NEW c \in Ids, NEW d \in Ids, HandlerDisconnects(c, d) PROVE TypeOK'
  <2>0. of[c] \in PerClient /\ of[d] \in PerClient /\ d \in 0..MaxClients
    BY <1>1, DispatchAssumption DEF Ids
  <2>1. /\ [of[d] EXCEPT !.kicker = "mark"] \in PerClient
        /\ [of[c] EXCEPT !.worker = "disconnecting", !.target = d] \in PerClient
        /\ [of[c] EXCEPT !.kicker = "mark", !.worker = "disconnecting", !.target = d] \in PerClient
        /\ [of[c] EXCEPT !.worker = "message"] \in PerClient
    BY <2>0 DEF PerClient
  <2>2. of' \in [Ids -> PerClient]
    <3>1. CASE d \in clients /\ c # d
      BY <1>16, <2>1, <3>1 DEF HandlerDisconnects, TypeOK
    <3>2. CASE d \in clients /\ c = d
      BY <1>16, <2>1, <3>2 DEF HandlerDisconnects, TypeOK
    <3>3. CASE d \notin clients
      BY <1>16, <2>1, <3>3 DEF HandlerDisconnects, TypeOK
    <3>4. QED
      BY <3>1, <3>2, <3>3
  <2>3. QED
    BY <1>16, <2>2 DEF HandlerDisconnects, TypeOK
<1>17. ASSUME NEW c \in Ids, SeeDisconnect(c) PROVE TypeOK'
  <2>1. [of[c] EXCEPT !.worker = "leaving"] \in PerClient
    BY <1>1 DEF PerClient
  <2>2. QED
    BY <1>17, <2>1 DEF SeeDisconnect, TypeOK, Ids
<1>18. ASSUME NEW c \in Ids, ProxyDisconnect(c) PROVE TypeOK'
  <2>1. [of[c] EXCEPT !.worker = "told", !.dropper = "spawned"] \in PerClient
    BY <1>1 DEF PerClient
  <2>2. [of[c] EXCEPT !.worker = "wait"] \in PerClient
    BY <1>1 DEF PerClient
  <2>3. QED
    BY <1>18, <2>1, <2>2 DEF ProxyDisconnect, TypeOK, Ids
<1>19. ASSUME NEW c \in Ids, ProxyTells(c) PROVE TypeOK'
  <2>1. [of[c] EXCEPT !.worker = "wait", !.disconnects = @ + 1] \in PerClient
    BY <1>1 DEF PerClient
  <2>2. QED
    BY <1>19, <2>1 DEF ProxyTells, TypeOK, Ids
<1>20. ASSUME NEW c \in Ids, WorkerEnds(c) PROVE TypeOK'
  <2>1. [of[c] EXCEPT !.worker = "done"] \in PerClient
    BY <1>1 DEF PerClient
  <2>2. QED
    BY <1>20, <2>1 DEF WorkerEnds, TypeOK, Ids
<1>21. ASSUME NEW c \in Ids, GiveUp(c) PROVE TypeOK'
  <2>1. [of[c] EXCEPT !.pending = "giveup", !.ending = TRUE] \in PerClient
    BY <1>1 DEF PerClient
  <2>2. QED
    BY <1>21, <2>1 DEF GiveUp, TypeOK, Ids
<1>22. ASSUME NEW c \in Ids, GaveUp(c) PROVE TypeOK'
  <2>1. [of[c] EXCEPT !.pending = "done"] \in PerClient
    BY <1>1 DEF PerClient
  <2>2. QED
    BY <1>22, <2>1 DEF GaveUp, TypeOK, Ids
<1>23. ASSUME NEW c \in Ids, SeeSignal(c) PROVE TypeOK'
  <2>1. [of[c] EXCEPT !.pending = "insert"] \in PerClient
    BY <1>1 DEF PerClient
  <2>2. QED
    BY <1>23, <2>1 DEF SeeSignal, TypeOK, Ids
<1>24. ASSUME NEW c \in Ids, Insert(c) PROVE TypeOK'
  <2>1. [of[c] EXCEPT !.pending = "announce"] \in PerClient
    BY <1>1 DEF PerClient
  <2>2. QED
    BY <1>24, <2>1 DEF Insert, TypeOK, Ids
<1>25. ASSUME NEW c \in Ids, Announce(c) PROVE TypeOK'
  <2>1. [of[c] EXCEPT !.pending = "done", !.connects = @ + 1] \in PerClient
    BY <1>1 DEF PerClient
  <2>2. QED
    BY <1>25, <2>1 DEF Announce, TypeOK, Ids
<1>26. ASSUME NEW c \in Ids, Drop(c) PROVE TypeOK'
  <2>1. [of[c] EXCEPT !.dropper = "join", !.ending = TRUE] \in PerClient
    BY <1>1 DEF PerClient
  <2>2. QED
    BY <1>26, <2>1 DEF Drop, TypeOK, Ids
<1>27. ASSUME NEW c \in Ids, Dropped(c) PROVE TypeOK'
  <2>1. [of[c] EXCEPT !.dropper = "done"] \in PerClient
    BY <1>1 DEF PerClient
  <2>2. QED
    BY <1>27, <2>1 DEF Dropped, TypeOK, Ids
<1>28. ASSUME NEW c \in Ids, KickTells(c) PROVE TypeOK'
  <2>1. [of[c] EXCEPT !.kicker = "join", !.ending = TRUE, !.disconnects = @ + 1] \in PerClient
    BY <1>1 DEF PerClient
  <2>2. QED
    BY <1>28, <2>1 DEF KickTells, TypeOK, Ids
<1>29. ASSUME NEW c \in Ids, Kicked(c) PROVE TypeOK'
  <2>1. [of[c] EXCEPT !.kicker = "done"] \in PerClient
    BY <1>1 DEF PerClient
  <2>2. QED
    BY <1>29, <2>1 DEF Kicked, TypeOK, Ids
<1>30. ASSUME Stop PROVE TypeOK'
  BY <1>30, DispatchAssumption DEF Stop, TypeOK, Ids
<1>31. ASSUME LobbyJoined PROVE TypeOK'
  BY <1>31, DispatchAssumption DEF LobbyJoined, TypeOK, Ids
<1>32. ASSUME PendingJoined PROVE TypeOK'
  BY <1>32, DispatchAssumption DEF PendingJoined, TypeOK, Ids
<1>33. ASSUME NEW c \in Ids, Die(c) PROVE TypeOK'
  <2>1. [of[c] EXCEPT !.peer = "dead"] \in PerClient
    BY <1>1 DEF PerClient
  <2>2. QED
    BY <1>33, <2>1 DEF Die, TypeOK, Ids
<1>34. ASSUME NEW c \in Ids, HandlerDisconnected(c) PROVE TypeOK'
  <2>1. [of[c] EXCEPT !.worker = "message", !.target = 0] \in PerClient
    <3>1. of[c] \in PerClient /\ 0 \in 0..MaxClients
      BY <1>1, DispatchAssumption
    <3>2. QED
      BY <3>1 DEF PerClient
  <2>2. QED
    BY <1>34, <2>1 DEF HandlerDisconnected, TypeOK, Ids
<1>35. CASE UNCHANGED vars
  BY <1>35 DEF vars, TypeOK
<1>36. ASSUME NEW c \in Ids, WorkerStep(c) PROVE TypeOK'
  BY <1>14, <1>15, <1>16, <1>17, <1>18, <1>19, <1>20, <1>34, <1>36 DEF WorkerStep
<1>37. ASSUME NEW c \in Ids, PendingStep(c) \/ HelperStep(c) PROVE TypeOK'
  BY <1>21, <1>22, <1>23, <1>24, <1>25, <1>26, <1>27, <1>28, <1>29, <1>37
  DEF PendingStep, HelperStep
<1>38. QED
  BY <1>2, <1>3, <1>4, <1>5, <1>6, <1>7, <1>8, <1>9, <1>10, <1>11, <1>12,
     <1>13, <1>30, <1>31, <1>32, <1>33, <1>35, <1>36, <1>37
  DEF Next, LobbyStep, StopStep

-----------------------------------------------------------------------------
(* Every step preserves the invariant.  A step of a client's threads is       *)
(* looked at in the record and the entry of that client.                      *)
LEMMA InvStep == IInv /\ [Next]_vars => IInv'
<1> SUFFICES ASSUME IInv, [Next]_vars PROVE IInv'
  OBVIOUS
<1> USE DEF server, counts
<1>1. TypeOK /\ TypeOK'
  BY TypeStep DEF IInv
<1>2. \A c \in Ids : ClientInv(c) /\ of[c] \in PerClient
  BY <1>1 DEF IInv, TypeOK
<1>3. ASSUME Register PROVE IInv'
  <2>1. PICK k \in Ids : k = next
    BY <1>3, <1>1 DEF Register, TypeOK, Ids
  <2>2. Unused(k) /\ ~Entered(k)
    BY <1>1, <1>2, <2>1 DEF TypeOK, Ids, ClientInv, Life, Unused, Callbacks, Entered
  <2>3. of' = [of EXCEPT ![k].worker = "wait"] /\ next' = k + 1 /\ serving' = k
    BY <1>3, <2>1 DEF Register
  <2>4. Callbacks(k)'
    BY <1>3, <1>1, <1>2, <2>2, <2>3
    DEF Register, TypeOK, PerClient, ClientInv, Callbacks, Unused, Unentered, Entered, Told
  <2>5. Life(k)'
    BY <1>3, <1>1, <1>2, <2>2, <2>3
    DEF Register, TypeOK, PerClient, Ids, ClientInv, Callbacks, Unentered, Life, Unused, Entered
  <2>6. QED
    BY <1>3, <1>1, <2>1, <2>3, <2>4, <2>5, OneChanged DEF Register, IInv, TypeOK, ClientInv, Ids
<1>4. ASSUME Reject PROVE IInv'
  BY <1>4, <1>1, NoneChanged DEF Reject, IInv, TypeOK
<1>5. ASSUME Reply PROVE IInv'
  <2>1. serving \in Ids
    BY <1>5 DEF Reply, IInv
  <2>2. ClientInv(serving)'
    BY <1>5, <1>1, <1>2, <2>1 DEF Reply, PerClient, TypeOK,
       ClientInv, Callbacks, Life, Unused, Unentered, InMap, Removed, Reported,
       Entered, Told, Marked
  <2>3. QED
    BY <1>5, <1>1, <2>1, <2>2, OneChanged DEF Reply, IInv, TypeOK
<1>6. ASSUME ReplyFails PROVE IInv'
  <2>1. serving \in Ids
    BY <1>6 DEF ReplyFails, IInv
  <2>2. ClientInv(serving)'
    BY <1>6, <1>1, <1>2, <2>1 DEF ReplyFails, PerClient, TypeOK,
       ClientInv, Callbacks, Life, Unused, Unentered, InMap, Removed, Reported,
       Entered, Told, Marked
  <2>3. QED
    BY <1>6, <1>1, <2>1, <2>2, OneChanged DEF ReplyFails, IInv, TypeOK
<1>7. ASSUME Joined PROVE IInv'
  BY <1>7, <1>1, NoneChanged DEF Joined, IInv, TypeOK
<1>8. ASSUME Drain PROVE IInv'
  BY <1>8, <1>1, NoneChanged DEF Drain, IInv, TypeOK
<1>9. ASSUME DrainDone PROVE IInv'
  BY <1>9, <1>1, NoneChanged DEF DrainDone, IInv, TypeOK
<1>10. ASSUME NEW c \in Ids, DrainNext(c) PROVE IInv'
  <2>1. ClientInv(c)'
    BY <1>10, <1>1, <1>2 DEF DrainNext, PerClient, TypeOK,
       ClientInv, Callbacks, Life, Unused, Unentered, InMap, Removed, Reported,
       Entered, Told, Marked
  <2>2. QED
    BY <1>10, <1>1, <2>1, OneChanged DEF DrainNext, IInv, TypeOK
<1>11. ASSUME NEW c \in Ids, Join(c) PROVE IInv'
  <2>1. ClientInv(c)'
    BY <1>11, <1>1, <1>2 DEF Join, PerClient, TypeOK,
       ClientInv, Callbacks, Life, Unused, Unentered, InMap, Removed, Reported,
       Entered, Told, Marked
  <2>2. QED
    BY <1>11, <1>1, <2>1, OneChanged DEF Join, IInv, TypeOK
<1>12. ASSUME NEW c \in Ids, Leave(c) PROVE IInv'
  <2>1. ClientInv(c)'
    BY <1>12, <1>1, <1>2 DEF Leave, PerClient, TypeOK,
       ClientInv, Callbacks, Life, Unused, Unentered, InMap, Removed, Reported,
       Entered, Told, Marked
  <2>2. QED
    BY <1>12, <1>1, <2>1, OneChanged DEF Leave, IInv, TypeOK
<1>13. ASSUME NEW c \in Ids, Kick(c) PROVE IInv'
  <2>1. ClientInv(c)'
    BY <1>13, <1>1, <1>2 DEF Kick, PerClient, TypeOK,
       ClientInv, Callbacks, Life, Unused, Unentered, InMap, Removed, Reported,
       Entered, Told, Marked
  <2>2. QED
    BY <1>13, <1>1, <2>1, OneChanged DEF Kick, IInv, TypeOK
<1>14. ASSUME NEW c \in Ids, HandlerReturns(c) PROVE IInv'
  <2>1. ClientInv(c)'
    BY <1>14, <1>1, <1>2 DEF HandlerReturns, PerClient, TypeOK,
       ClientInv, Callbacks, Life, Unused, Unentered, InMap, Removed, Reported,
       Entered, Told, Marked
  <2>2. QED
    BY <1>14, <1>1, <2>1, OneChanged DEF HandlerReturns, IInv, TypeOK
<1>15. ASSUME NEW c \in Ids, HandlerSends(c) PROVE IInv'
  <2>1. ClientInv(c)'
    BY <1>15, <1>1, <1>2 DEF HandlerSends, PerClient, TypeOK,
       ClientInv, Callbacks, Life, Unused, Unentered, InMap, Removed, Reported,
       Entered, Told, Marked
  <2>2. QED
    BY <1>15, <1>1, <2>1, OneChanged DEF HandlerSends, IInv, TypeOK
<1>16. ASSUME NEW c \in Ids, NEW d \in Ids, HandlerDisconnects(c, d) PROVE IInv'
  <2>1. ClientInv(d)'
    BY <1>16, <1>1, <1>2 DEF HandlerDisconnects, PerClient, TypeOK,
       ClientInv, Callbacks, Life, Unused, Unentered, InMap, Removed, Reported,
       Entered, Told, Marked
  <2>2. CASE c = d
    BY <1>16, <1>1, <2>1, <2>2, TwoChanged DEF HandlerDisconnects, TypeOK
  <2>3. CASE c # d
    <3>1. ClientInv(c)'
      BY <1>16, <1>1, <1>2, <2>3 DEF HandlerDisconnects, PerClient, TypeOK,
         ClientInv, Callbacks, Life, Unused, Unentered, InMap, Removed, Reported,
         Entered, Told, Marked
    <3>2. QED
      BY <1>16, <1>1, <2>1, <3>1, TwoChanged DEF HandlerDisconnects, TypeOK
  <2>4. QED
    BY <2>2, <2>3
<1>17. ASSUME NEW c \in Ids, SeeDisconnect(c) PROVE IInv'
  <2>1. ClientInv(c)'
    BY <1>17, <1>1, <1>2 DEF SeeDisconnect, PerClient, TypeOK,
       ClientInv, Callbacks, Life, Unused, Unentered, InMap, Removed, Reported,
       Entered, Told, Marked
  <2>2. QED
    BY <1>17, <1>1, <2>1, OneChanged DEF SeeDisconnect, IInv, TypeOK
<1>18. ASSUME NEW c \in Ids, ProxyDisconnect(c) PROVE IInv'
  <2>1. ClientInv(c)'
    BY <1>18, <1>1, <1>2 DEF ProxyDisconnect, PerClient, TypeOK,
       ClientInv, Callbacks, Life, Unused, Unentered, InMap, Removed, Reported,
       Entered, Told, Marked
  <2>2. QED
    BY <1>18, <1>1, <2>1, OneChanged DEF ProxyDisconnect, IInv, TypeOK
<1>19. ASSUME NEW c \in Ids, ProxyTells(c) PROVE IInv'
  <2>1. ClientInv(c)'
    BY <1>19, <1>1, <1>2 DEF ProxyTells, PerClient, TypeOK,
       ClientInv, Callbacks, Life, Unused, Unentered, InMap, Removed, Reported,
       Entered, Told, Marked
  <2>2. QED
    BY <1>19, <1>1, <2>1, OneChanged DEF ProxyTells, IInv, TypeOK
<1>20. ASSUME NEW c \in Ids, WorkerEnds(c) PROVE IInv'
  <2>1. ClientInv(c)'
    BY <1>20, <1>1, <1>2 DEF WorkerEnds, PerClient, TypeOK,
       ClientInv, Callbacks, Life, Unused, Unentered, InMap, Removed, Reported,
       Entered, Told, Marked
  <2>2. QED
    BY <1>20, <1>1, <2>1, OneChanged DEF WorkerEnds, IInv, TypeOK
<1>21. ASSUME NEW c \in Ids, GiveUp(c) PROVE IInv'
  <2>1. ClientInv(c)'
    BY <1>21, <1>1, <1>2 DEF GiveUp, PerClient, TypeOK,
       ClientInv, Callbacks, Life, Unused, Unentered, InMap, Removed, Reported,
       Entered, Told, Marked
  <2>2. QED
    BY <1>21, <1>1, <2>1, OneChanged DEF GiveUp, IInv, TypeOK
<1>22. ASSUME NEW c \in Ids, GaveUp(c) PROVE IInv'
  <2>1. ClientInv(c)'
    BY <1>22, <1>1, <1>2 DEF GaveUp, PerClient, TypeOK,
       ClientInv, Callbacks, Life, Unused, Unentered, InMap, Removed, Reported,
       Entered, Told, Marked
  <2>2. QED
    BY <1>22, <1>1, <2>1, OneChanged DEF GaveUp, IInv, TypeOK
<1>23. ASSUME NEW c \in Ids, SeeSignal(c) PROVE IInv'
  <2>1. ClientInv(c)'
    BY <1>23, <1>1, <1>2 DEF SeeSignal, PerClient, TypeOK,
       ClientInv, Callbacks, Life, Unused, Unentered, InMap, Removed, Reported,
       Entered, Told, Marked
  <2>2. QED
    BY <1>23, <1>1, <2>1, OneChanged DEF SeeSignal, IInv, TypeOK
<1>24. ASSUME NEW c \in Ids, Insert(c) PROVE IInv'
  <2>1. ClientInv(c)'
    BY <1>24, <1>1, <1>2 DEF Insert, PerClient, TypeOK,
       ClientInv, Callbacks, Life, Unused, Unentered, InMap, Removed, Reported,
       Entered, Told, Marked
  <2>2. QED
    BY <1>24, <1>1, <2>1, OneChanged DEF Insert, IInv, TypeOK
<1>25. ASSUME NEW c \in Ids, Announce(c) PROVE IInv'
  <2>1. ClientInv(c)'
    BY <1>25, <1>1, <1>2 DEF Announce, PerClient, TypeOK,
       ClientInv, Callbacks, Life, Unused, Unentered, InMap, Removed, Reported,
       Entered, Told, Marked
  <2>2. QED
    BY <1>25, <1>1, <2>1, OneChanged DEF Announce, IInv, TypeOK
<1>26. ASSUME NEW c \in Ids, Drop(c) PROVE IInv'
  <2>1. ClientInv(c)'
    BY <1>26, <1>1, <1>2 DEF Drop, PerClient, TypeOK,
       ClientInv, Callbacks, Life, Unused, Unentered, InMap, Removed, Reported,
       Entered, Told, Marked
  <2>2. QED
    BY <1>26, <1>1, <2>1, OneChanged DEF Drop, IInv, TypeOK
<1>27. ASSUME NEW c \in Ids, Dropped(c) PROVE IInv'
  <2>1. ClientInv(c)'
    BY <1>27, <1>1, <1>2 DEF Dropped, PerClient, TypeOK,
       ClientInv, Callbacks, Life, Unused, Unentered, InMap, Removed, Reported,
       Entered, Told, Marked
  <2>2. QED
    BY <1>27, <1>1, <2>1, OneChanged DEF Dropped, IInv, TypeOK
<1>28. ASSUME NEW c \in Ids, KickTells(c) PROVE IInv'
  <2>1. ClientInv(c)'
    BY <1>28, <1>1, <1>2 DEF KickTells, PerClient, TypeOK,
       ClientInv, Callbacks, Life, Unused, Unentered, InMap, Removed, Reported,
       Entered, Told, Marked
  <2>2. QED
    BY <1>28, <1>1, <2>1, OneChanged DEF KickTells, IInv, TypeOK
<1>29. ASSUME NEW c \in Ids, Kicked(c) PROVE IInv'
  <2>1. ClientInv(c)'
    BY <1>29, <1>1, <1>2 DEF Kicked, PerClient, TypeOK,
       ClientInv, Callbacks, Life, Unused, Unentered, InMap, Removed, Reported,
       Entered, Told, Marked
  <2>2. QED
    BY <1>29, <1>1, <2>1, OneChanged DEF Kicked, IInv, TypeOK
<1>30. ASSUME NEW c \in Ids, OnMessage(c) PROVE IInv'
  <2>1. PICK does \in {"message", "send_to", "disconnect_client"} :
          of' = [of EXCEPT ![c].worker = does]
    BY <1>30, DispatchAssumption DEF OnMessage
  <2>2. ClientInv(c)'
    BY <1>30, <1>1, <1>2, <2>1 DEF OnMessage, PerClient, TypeOK,
       ClientInv, Callbacks, Life, Unused, Unentered, InMap, Removed, Reported,
       Entered, Told, Marked
  <2>3. QED
    BY <1>30, <1>1, <2>1, <2>2, OneChanged DEF OnMessage, IInv, TypeOK
<1>31. ASSUME Stop PROVE IInv'
  BY <1>31, <1>1, NoneChanged DEF Stop, IInv, TypeOK
<1>32. ASSUME LobbyJoined PROVE IInv'
  BY <1>32, <1>1, NoneChanged DEF LobbyJoined, IInv, TypeOK
<1>33. ASSUME PendingJoined PROVE IInv'
  BY <1>33, <1>1, NoneChanged DEF PendingJoined, IInv, TypeOK
<1>34. ASSUME NEW c \in Ids, Die(c) PROVE IInv'
  <2>1. ClientInv(c)'
    BY <1>34, <1>1, <1>2 DEF Die, PerClient, TypeOK,
       ClientInv, Callbacks, Life, Unused, Unentered, InMap, Removed, Reported,
       Entered, Told, Marked
  <2>2. QED
    BY <1>34, <1>1, <2>1, OneChanged DEF Die, IInv, TypeOK
<1>35. ASSUME NEW c \in Ids, HandlerDisconnected(c) PROVE IInv'
  <2>1. ClientInv(c)'
    BY <1>35, <1>1, <1>2 DEF HandlerDisconnected, PerClient, TypeOK,
       ClientInv, Callbacks, Life, Unused, Unentered, InMap, Removed, Reported,
       Entered, Told, Marked
  <2>2. QED
    BY <1>35, <1>1, <2>1, OneChanged DEF HandlerDisconnected, IInv, TypeOK
<1>36. CASE UNCHANGED vars
  BY <1>36, <1>1, NoneChanged DEF vars, IInv, TypeOK
<1>37. ASSUME NEW c \in Ids, WorkerStep(c) PROVE IInv'
  BY <1>14, <1>15, <1>16, <1>17, <1>18, <1>19, <1>20, <1>35, <1>37 DEF WorkerStep
<1>38. ASSUME NEW c \in Ids, PendingStep(c) \/ HelperStep(c) PROVE IInv'
  BY <1>21, <1>22, <1>23, <1>24, <1>25, <1>26, <1>27, <1>28, <1>29, <1>38
  DEF PendingStep, HelperStep
<1>39. QED
  BY <1>3, <1>4, <1>5, <1>6, <1>7, <1>8, <1>9, <1>10, <1>11, <1>12, <1>13,
     <1>30, <1>31, <1>32, <1>33, <1>34, <1>36, <1>37, <1>38
  DEF Next, LobbyStep, StopStep

-----------------------------------------------------------------------------
(* The theorems.                                                              *)

(* The invariant holds in every reachable state, for any number of clients.   *)
THEOREM Invariance == Spec => []IInv
<1>1. Init => IInv
  BY InitInv
<1>2. IInv /\ [Next]_vars => IInv'
  BY InvStep
<1>3. QED
  BY <1>1, <1>2, PTL DEF Spec

(* Every variable of the server keeps its type.                               *)
THEOREM TypeCorrect == Spec => []TypeOK
<1>1. IInv => TypeOK
  BY DEF IInv
<1>2. QED
  BY <1>1, Invariance, PTL

(* Whichever of the four threads removes an entered client - the worker in    *)
(* on_disconnect, a handler or a user in disconnect_client, the drain of      *)
(* stop() - on_client_disconnect is called for it once, and never for a       *)
(* client that was not entered.                                               *)
THEOREM DisconnectsOnce == Spec => []DisconnectOnce
<1>1. IInv => DisconnectOnce
  <2> SUFFICES ASSUME IInv, NEW c \in Ids
      PROVE  /\ of[c].connects <= 1 /\ of[c].disconnects <= 1
             /\ Entered(c) <=>
                  \/ c \in clients /\ OwesDisconnect(c) = {} /\ of[c].disconnects = 0
                  \/ c \notin clients /\ OwesDisconnect(c) # {} /\ of[c].disconnects = 0
                  \/ c \notin clients /\ OwesDisconnect(c) = {} /\ of[c].disconnects = 1
             /\ OwesDisconnect(c) # {"worker", "kicker"}
    BY DEF DisconnectOnce
  <2>1. Callbacks(c)
    BY DEF IInv, ClientInv
  <2>2. /\ OwesDisconnect(c) = {} <=> ~Told(c) /\ ~Marked(c)
        /\ OwesDisconnect(c) = {"worker", "kicker"} <=> Told(c) /\ Marked(c)
    BY DEF OwesDisconnect, Told, Marked
  <2>3. of[c].connects <= 1 /\ of[c].disconnects <= 1
    BY <2>1 DEF Callbacks, Unentered, InMap, Removed, Reported
  <2>4. ~(Told(c) /\ Marked(c))
    BY <2>1 DEF Callbacks, Unentered, InMap, Removed, Reported, Told, Marked
  <2>5. CASE Entered(c)
    BY <2>1, <2>2, <2>3, <2>4, <2>5
    DEF Callbacks, InMap, Removed, Reported, Told, Marked
  <2>6. CASE ~Entered(c)
    BY <2>1, <2>2, <2>3, <2>4, <2>6 DEF Callbacks, Unentered, Told, Marked
  <2>7. QED
    BY <2>5, <2>6
<1>2. QED
  BY <1>1, Invariance, PTL

(* A client found in the map has a worker that was not told to end.           *)
THEOREM EntriesAreLive == Spec => []EntryIsLive
<1>1. IInv => EntryIsLive
  <2> SUFFICES ASSUME IInv, NEW c \in clients
      PROVE  ~of[c].ending /\ of[c].worker \notin {"none", "done"}
    BY DEF EntryIsLive
  <2>1. ClientInv(c)
    BY DEF IInv, TypeOK
  <2>2. of[c].pending # "none"
    BY <2>1 DEF ClientInv, Callbacks, Unentered, Entered
  <2>3. QED
    BY <2>1, <2>2 DEF ClientInv, Life
<1>2. QED
  BY <1>1, Invariance, PTL

(* A client that was reported gone does not come back into the map, and is    *)
(* not reported again.                                                        *)
THEOREM GoneForGood ==
  Spec => [][\A c \in Ids : of[c].disconnects = 1 =>
                             c \notin clients' /\ of'[c].disconnects = 1]_vars
<1>1. ASSUME TypeOK, [Next]_vars, NEW c \in Ids
      PROVE  of'[c].disconnects \in {of[c].disconnects, of[c].disconnects + 1}
  <2> USE <1>1 DEF TypeOK, PerClient
  <2>1. CASE LobbyStep
    <3>1. CASE Register
      BY <3>1 DEF Register
    <3>2. CASE Reply \/ ReplyFails
      BY <3>2 DEF Reply, ReplyFails
    <3>3. CASE Reject \/ Joined \/ Drain \/ DrainDone
      BY <3>3 DEF Reject, Joined, Drain, DrainDone
    <3>4. ASSUME NEW d \in Ids, DrainNext(d)
          PROVE  of'[c].disconnects \in {of[c].disconnects, of[c].disconnects + 1}
      BY <3>4 DEF DrainNext
    <3>5. QED
      BY <2>1, <3>1, <3>2, <3>3, <3>4 DEF LobbyStep
  <2>2. CASE Stop \/ StopStep
    BY <2>2 DEF Stop, StopStep, LobbyJoined, PendingJoined
  <2>3. ASSUME NEW d \in Ids, Join(d) \/ Leave(d) \/ Die(d) \/ OnMessage(d) \/ Kick(d)
        PROVE  of'[c].disconnects = of[c].disconnects
    BY <2>3 DEF Join, Leave, Die, OnMessage, Kick
  <2>4. ASSUME NEW d \in Ids, WorkerStep(d)
        PROVE  of'[c].disconnects \in {of[c].disconnects, of[c].disconnects + 1}
    <3>1. ASSUME NEW e \in Ids, HandlerDisconnects(d, e)
          PROVE  of'[c].disconnects = of[c].disconnects
      BY <3>1 DEF HandlerDisconnects
    <3>2. QED
      BY <2>4, <3>1 DEF WorkerStep, HandlerReturns, HandlerSends, HandlerDisconnected,
         SeeDisconnect, ProxyDisconnect, ProxyTells, WorkerEnds
  <2>5. ASSUME NEW d \in Ids, PendingStep(d) \/ HelperStep(d)
        PROVE  of'[c].disconnects \in {of[c].disconnects, of[c].disconnects + 1}
    BY <2>5 DEF PendingStep, GiveUp, GaveUp, SeeSignal, Insert, Announce,
               HelperStep, Drop, Dropped, KickTells, Kicked
  <2>6. CASE UNCHANGED vars
    BY <2>6 DEF vars
  <2>7. QED
    BY <2>1, <2>2, <2>3, <2>4, <2>5, <2>6 DEF Next
<1>2. ASSUME IInv', NEW c \in Ids, of'[c].disconnects \in {1, 2}
      PROVE  c \notin clients' /\ of'[c].disconnects = 1
  BY <1>2 DEF IInv, ClientInv, Callbacks, Unentered, InMap, Removed, Reported
<1>3. IInv /\ IInv' /\ [Next]_vars =>
        [\A c \in Ids : of[c].disconnects = 1 =>
                         c \notin clients' /\ of'[c].disconnects = 1]_vars
  BY <1>1, <1>2 DEF IInv
<1>4. QED
  BY <1>3, Invariance, PTL DEF Spec
=============================================================================
