--------------------------- MODULE ProxyAbstract ---------------------------
(***************************************************************************)
(* What a channel promises its owner and its subscribers (spec 4.1,        *)
(* "Lifecycle" and "Stop"), with no threads and no subscriber objects: the *)
(* channel is started once and stopped once, for good; a handler joins     *)
(* once and receives at most one terminal notification, never while the    *)
(* channel runs.  A handler that joins a channel that is not running may   *)
(* be told at once that it is stopped; once stopped, the channel releases  *)
(* handlers that are still waiting.                                        *)
(***************************************************************************)
CONSTANT Handlers     \* the handlers passed to subscribe_stop or subscribe

VARIABLES
    life,             \* "new", "starting", "running" or "stopped"
    subscribed,       \* the handlers that have joined
    notified          \* per handler: terminal notifications received

pvars == <<life, subscribed, notified>>

Phases == {"new", "starting", "running", "stopped"}

Init ==
    /\ life = "new"
    /\ subscribed = {}
    /\ notified = [h \in Handlers |-> 0]

(* The handlers in S receive their terminal notification.                  *)
Terminate(S) == notified' = [h \in Handlers |-> IF h \in S THEN 1 ELSE notified[h]]

Begin ==
    /\ life = "new"
    /\ life' = "starting"
    /\ UNCHANGED <<subscribed, notified>>

Started ==
    /\ life = "starting"
    /\ life' = "running"
    /\ UNCHANGED <<subscribed, notified>>

Halt ==
    /\ life = "running"
    /\ life' = "stopped"
    /\ UNCHANGED <<subscribed, notified>>

(* A handler joins and waits.                                              *)
Join(h) ==
    /\ h \notin subscribed
    /\ subscribed' = subscribed \cup {h}
    /\ UNCHANGED <<life, notified>>

(* A handler joins a channel that is not running and is notified at once. *)
JoinStopped(h) ==
    /\ life # "running"
    /\ h \notin subscribed
    /\ subscribed' = subscribed \cup {h}
    /\ Terminate({h})
    /\ UNCHANGED life

(* A stopped channel notifies waiting handlers that were never notified.  *)
Release(S) ==
    /\ life = "stopped"
    /\ S \subseteq subscribed
    /\ \A h \in S : notified[h] = 0
    /\ Terminate(S)
    /\ UNCHANGED <<life, subscribed>>

Next ==
    \/ Begin \/ Started \/ Halt
    \/ \E h \in Handlers : Join(h) \/ JoinStopped(h)
    \/ \E S \in SUBSET Handlers : Release(S)

Spec == Init /\ [][Next]_pvars

=============================================================================
