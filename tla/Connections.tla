---------------------------- MODULE Connections ----------------------------
(***************************************************************************)
(* The connection registry of src/src/collections/connections.cpp: the     *)
(* channels_ list, its stopped_ flag and the reader/writer mutex_.         *)
(*                                                                         *)
(* store, remove and the flag-setting part of stop take the upgrade lock,  *)
(* which excludes every other upgrade and exclusive holder, so each of     *)
(* them is one atomic step.  exists, count and safe_copy take the shared   *)
(* lock and change nothing: they are the operators Exists and Count.       *)
(* stop iterates its copy of the list outside the lock, so the calls of    *)
(* channel->stop(ec) it makes are steps of their own, interleaved with     *)
(* stores, removes and other stop calls.                                   *)
(*                                                                         *)
(* channels_ is a vector; the model keeps it as a set, since nothing the   *)
(* registry does depends on the order of its members.                      *)
(***************************************************************************)
EXTENDS Naturals, FiniteSets

CONSTANTS
    Channels,     \* the channels that may be offered to store
    Authority,    \* channel->authority(), per channel
    Nonce,        \* channel->nonce(), per channel
    RegStoppers   \* threads that call connections::stop(ec)

ASSUME ConnectionsAssumption ==
    /\ DOMAIN Authority = Channels
    /\ DOMAIN Nonce = Channels

Codes == {"none", "success", "service_stopped", "address_in_use", "not_found"}

VARIABLES
    members,      \* channels_
    regStopped,   \* stopped_
    stopPc,       \* per stopper: "idle" or "iterating" its copy of the list
    snapshot,     \* per stopper: the channels of its copy not yet stopped
    chanStops,    \* per channel: calls of channel->stop(ec) the registry made
    result        \* per channel: the code last passed to a store/remove handler

vars == <<members, regStopped, stopPc, snapshot, chanStops, result>>

-----------------------------------------------------------------------------
(* The match of safe_store (140-143): same authority or same nonce.        *)
Clashes(e, c) == Authority[e] = Authority[c] \/ Nonce[e] = Nonce[c]

(* safe_exists (85-99) and safe_count (179-187).                           *)
Exists(a) == \E e \in members : Authority[e] = a
Count == Cardinality(members)

Init ==
    /\ members = {}
    /\ regStopped = FALSE
    /\ stopPc = [t \in RegStoppers |-> "idle"]
    /\ snapshot = [t \in RegStoppers |-> {}]
    /\ chanStops = [c \in Channels |-> 0]
    /\ result = [c \in Channels |-> "none"]

-----------------------------------------------------------------------------
(* Variant: a match on authority only.                                    *)
StoreByAuthority(c) ==
    /\ \/ /\ ~regStopped
          /\ ~\E e \in members : Authority[e] = Authority[c]
          /\ members' = members \cup {c}
          /\ result' = [result EXCEPT ![c] = "success"]
       \/ /\ regStopped
          /\ result' = [result EXCEPT ![c] = "service_stopped"]
          /\ UNCHANGED members
       \/ /\ ~regStopped
          /\ \E e \in members : Authority[e] = Authority[c]
          /\ result' = [result EXCEPT ![c] = "address_in_use"]
          /\ UNCHANGED members
    /\ UNCHANGED <<regStopped, stopPc, snapshot, chanStops>>

(* Variant: a store that does not test stopped_.                          *)
StoreIgnoringStop(c) ==
    /\ \/ /\ ~\E e \in members : Clashes(e, c)
          /\ members' = members \cup {c}
          /\ result' = [result EXCEPT ![c] = "success"]
       \/ /\ \E e \in members : Clashes(e, c)
          /\ result' = [result EXCEPT ![c] = "address_in_use"]
          /\ UNCHANGED members
    /\ UNCHANGED <<regStopped, stopPc, snapshot, chanStops>>

(* store (136-177): under the upgrade lock, reject when stopped or when a  *)
(* member clashes, else upgrade and push_back.                             *)
Store(c) ==
    /\ \/ /\ ~regStopped
          /\ ~\E e \in members : Clashes(e, c)
          /\ members' = members \cup {c}
          /\ result' = [result EXCEPT ![c] = "success"]
       \/ /\ regStopped
          /\ result' = [result EXCEPT ![c] = "service_stopped"]
          /\ UNCHANGED members
       \/ /\ ~regStopped
          /\ \E e \in members : Clashes(e, c)
          /\ result' = [result EXCEPT ![c] = "address_in_use"]
          /\ UNCHANGED members
    /\ UNCHANGED <<regStopped, stopPc, snapshot, chanStops>>

(* remove (106-134): erase the channel if it is a member.                  *)
Remove(c) ==
    /\ IF c \in members
         THEN members' = members \ {c} /\ result' = [result EXCEPT ![c] = "success"]
         ELSE result' = [result EXCEPT ![c] = "not_found"] /\ UNCHANGED members
    /\ UNCHANGED <<regStopped, stopPc, snapshot, chanStops>>

(* Variant: every call of stop copies the list.                           *)
RegStopUnguarded(t) ==
    /\ stopPc[t] = "idle"
    /\ stopPc' = [stopPc EXCEPT ![t] = "iterating"]
    /\ regStopped' = TRUE
    /\ snapshot' = [snapshot EXCEPT ![t] = members]
    /\ UNCHANGED <<members, chanStops, result>>

(* stop (47-68): under the lock, the first call sets stopped_ and copies   *)
(* the list; a later call copies nothing.                                  *)
RegStop(t) ==
    /\ stopPc[t] = "idle"
    /\ stopPc' = [stopPc EXCEPT ![t] = "iterating"]
    /\ regStopped' = TRUE
    /\ snapshot' = [snapshot EXCEPT ![t] = IF regStopped THEN {} ELSE members]
    /\ UNCHANGED <<members, chanStops, result>>

(* One iteration of the loop of stop (71-72): channel->stop(ec).           *)
StopChannel(t, c) ==
    /\ stopPc[t] = "iterating"
    /\ c \in snapshot[t]
    /\ snapshot' = [snapshot EXCEPT ![t] = @ \ {c}]
    /\ chanStops' = [chanStops EXCEPT ![c] = @ + 1]
    /\ UNCHANGED <<members, regStopped, stopPc, result>>

(* The loop ends and stop returns.                                         *)
RegStopReturn(t) ==
    /\ stopPc[t] = "iterating"
    /\ snapshot[t] = {}
    /\ stopPc' = [stopPc EXCEPT ![t] = "idle"]
    /\ UNCHANGED <<members, regStopped, snapshot, chanStops, result>>

Next ==
    \/ \E c \in Channels : Store(c) \/ Remove(c)
    \/ \E t \in RegStoppers :
          \/ RegStop(t)
          \/ RegStopReturn(t)
          \/ \E c \in Channels : StopChannel(t, c)

Spec == Init /\ [][Next]_vars

-----------------------------------------------------------------------------
TypeOK ==
    /\ members \subseteq Channels
    /\ regStopped \in BOOLEAN
    /\ stopPc \in [RegStoppers -> {"idle", "iterating"}]
    /\ snapshot \in [RegStoppers -> SUBSET Channels]
    /\ chanStops \in [Channels -> Nat]
    /\ result \in [Channels -> Codes]

(* Invariants R1 and R2 of the registry: no two members share an          *)
(* authority or a nonce, after any sequence of stores and removes.         *)
Unique ==
    \A c, d \in members : c # d => ~Clashes(c, d)

(* However many threads call stop, the registry stops each channel at most *)
(* once: only the call that sets stopped_ copies the list (spec 8,         *)
(* scenario 6, "no channel stopped more than once").                       *)
StopsEachChannelOnce ==
    \A c \in Channels : chanStops[c] <= 1

-----------------------------------------------------------------------------
(* The registry implements ConnectionsAbstract: its members are the       *)
(* abstract members, stopped_ is the closed flag, and the channels stopped *)
(* so far are those the loop of stop has called channel->stop on.  A       *)
(* refused store, a remove of a non-member, a stop after the first and the *)
(* end of the loop are stutters.                                           *)
Halted == {c \in Channels : chanStops[c] > 0}

Abstract == INSTANCE ConnectionsAbstract WITH closed <- regStopped, halted <- Halted

RefinesAbstract == Abstract!Spec

=============================================================================
