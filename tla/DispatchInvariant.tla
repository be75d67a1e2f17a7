--------------------------- MODULE DispatchInvariant ---------------------------
(* The inductive invariant of DispatchServer: what is true of each client     *)
(* between any two steps of its threads.                                      *)
EXTENDS Dispatch

(* The callbacks made for client c.  Before its entry no thread has anything  *)
(* to report; from then on exactly one of three things holds: it is in the    *)
(* map, or the one thread that removed it is about to call, or the call was   *)
(* made.                                                                      *)
Told(c)   == of[c].worker = "told"
Marked(c) == of[c].kicker = "mark"

Unentered(c) ==
    /\ c \notin clients /\ of[c].disconnects = 0
    /\ ~Told(c) /\ of[c].kicker = "none" /\ of[c].dropper = "none"
InMap(c) ==
    /\ c \in clients /\ of[c].disconnects = 0
    /\ ~Told(c) /\ of[c].kicker = "none" /\ of[c].dropper = "none"
Removed(c) ==
    /\ c \notin clients /\ of[c].disconnects = 0
    /\ (Told(c) \/ Marked(c)) /\ ~(Told(c) /\ Marked(c))
Reported(c) ==
    /\ c \notin clients /\ of[c].disconnects = 1
    /\ ~Told(c) /\ ~Marked(c)

Callbacks(c) ==
    /\ of[c].connects \in 0..1
    /\ of[c].connects = 1 => of[c].pending = "done"
    /\ IF Entered(c) THEN InMap(c) \/ Removed(c) \/ Reported(c) ELSE Unentered(c)

(* The life of client c: an id that was not given out has no threads, an      *)
(* AutoServer is not ended before its client was entered or given up, and not *)
(* while it is in the map, and its worker does not end before.                *)
Unused(c) == of[c].worker = "none" /\ of[c].pending = "none" /\ ~of[c].ending
Life(c) ==
    /\ c >= next => Unused(c)
    /\ of[c].worker = "none" => of[c].pending = "none"
    /\ of[c].worker = "done" => of[c].ending
    /\ of[c].pending \in {"wait", "insert"} => ~of[c].ending
    /\ c \in clients => ~of[c].ending
    /\ lobby = "reply" /\ serving = c =>
         /\ c < next /\ of[c].pending = "none"
         /\ of[c].worker # "none" /\ ~of[c].ending

ClientInv(c) == Callbacks(c) /\ Life(c)

(* Between any two steps, each client is before its entry, in the map, about  *)
(* to be reported by one thread, or reported, and its threads are those of    *)
(* that state (worker_loop, stop and disconnect_client of DispatchServer).    *)
IInv ==
    /\ TypeOK
    /\ lobby \in {"reply", "discard", "join"} => serving \in Ids
    /\ \A c \in Ids : ClientInv(c)
=============================================================================
