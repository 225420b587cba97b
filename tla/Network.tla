------------------------------ MODULE Network ------------------------------
(***************************************************************************)
(* The connection registry composed with the channels it holds and the    *)
(* session code that stores them (spec 2, "Data flow").                    *)
(*                                                                         *)
(* The registry is Connections, instantiated on the same variables: its    *)
(* store, remove and stop are the registry's own actions, conjoined here   *)
(* with what each call does to the channel.  A channel is a proxy seen     *)
(* from outside: new, running or stopped, and whether it holds the         *)
(* session's stop handler.  Its stop is one step: stop(ec) on a running    *)
(* proxy stops it and invokes every held stop handler (proxy.cpp           *)
(* 316-335, proved of the detailed model in ProxyProofs when no stop runs  *)
(* during start); on a stopped proxy it changes nothing.                   *)
(*                                                                         *)
(* The session code is not in this repository and is modelled from the    *)
(* spec's data flow: the session starts the channel, and once its          *)
(* handshake succeeds stores it in the registry; on success it subscribes  *)
(* a stop handler that removes the channel from the registry, and on a     *)
(* refused store it stops the channel.  A failed handshake stops the       *)
(* channel.  The stop handler runs on the thread that stopped the channel; *)
(* its remove is a step of its own.                                        *)
(***************************************************************************)
EXTENDS Naturals, FiniteSets

CONSTANTS
    Channels,     \* the channels the sessions create
    Authority,    \* channel->authority(), per channel
    Nonce,        \* channel->nonce(), per channel
    RegStoppers   \* threads that call connections::stop(ec)

(* The registry's assumption: every channel has an authority and a nonce. *)
ASSUME NetworkAssumption ==
    /\ DOMAIN Authority = Channels
    /\ DOMAIN Nonce = Channels

VARIABLES
    members, regStopped, stopPc, snapshot, chanStops, result,
    chan,          \* per channel: "new", "running" or "stopped"
    stopHeld,      \* per channel: its stop subscriber holds the remove handler
    removing,      \* per channel: the remove handler was invoked, remove is next
    sess           \* per channel: where the session's registration sequence is

(* The registry of Connections, read through ConnectionsProofs so that    *)
(* the theorems proved of it are at hand as Reg!...                        *)
Reg == INSTANCE ConnectionsProofs

regVars == <<members, regStopped, stopPc, snapshot, chanStops, result>>
chanVars == <<chan, stopHeld, removing>>
vars == <<regVars, chanVars, sess>>

SessSteps == {"idle", "started", "stored", "subscribed", "refused"}

Init ==
    /\ Reg!Init
    /\ chan = [c \in Channels |-> "new"]
    /\ stopHeld = [c \in Channels |-> FALSE]
    /\ removing = [c \in Channels |-> FALSE]
    /\ sess = [c \in Channels |-> "idle"]

-----------------------------------------------------------------------------
(* Variant: a stop that drops the held handlers without invoking them.    *)
StopProxyDropping(c) ==
    /\ chan' = [chan EXCEPT ![c] = "stopped"]
    /\ stopHeld' = [stopHeld EXCEPT ![c] = FALSE]
    /\ UNCHANGED removing

(* channel->stop(ec): on a running proxy, stopped_ is set and the stop     *)
(* subscriber relays to its handlers and is emptied; on a stopped proxy    *)
(* the relay finds no handler.                                             *)
StopProxy(c) ==
    IF chan[c] = "running"
      THEN /\ chan' = [chan EXCEPT ![c] = "stopped"]
           /\ stopHeld' = [stopHeld EXCEPT ![c] = FALSE]
           /\ removing' = IF stopHeld[c] THEN [removing EXCEPT ![c] = TRUE] ELSE removing
      ELSE UNCHANGED chanVars

(* channel->subscribe_stop(handler) (proxy.cpp 105-108): held by a running *)
(* proxy, invoked at once by a stopped one.                                *)
SubscribeStop(c) ==
    IF chan[c] = "stopped"
      THEN removing' = [removing EXCEPT ![c] = TRUE] /\ UNCHANGED <<chan, stopHeld>>
      ELSE stopHeld' = [stopHeld EXCEPT ![c] = TRUE] /\ UNCHANGED <<chan, removing>>

-----------------------------------------------------------------------------
(* The session starts the channel (proxy::start on a new proxy).           *)
SessionStart(c) ==
    /\ sess[c] = "idle"
    /\ chan' = [chan EXCEPT ![c] = "running"]
    /\ sess' = [sess EXCEPT ![c] = "started"]
    /\ UNCHANGED <<regVars, stopHeld, removing>>

(* The handshake fails: the session stops the channel.                     *)
SessionAbandon(c) ==
    /\ sess[c] = "started"
    /\ StopProxy(c)
    /\ sess' = [sess EXCEPT ![c] = "refused"]
    /\ UNCHANGED regVars

(* The handshake succeeded, possibly just before the channel stopped: the  *)
(* session calls store; a refused channel is stopped.                      *)
SessionStore(c) ==
    /\ sess[c] = "started"
    /\ Reg!Store(c)
    /\ IF result'[c] = "success"
         THEN sess' = [sess EXCEPT ![c] = "stored"] /\ UNCHANGED chanVars
         ELSE sess' = [sess EXCEPT ![c] = "refused"] /\ StopProxy(c)

(* A stored channel gets the session's remove-on-stop handler.             *)
SessionSubscribe(c) ==
    /\ sess[c] = "stored"
    /\ SubscribeStop(c)
    /\ sess' = [sess EXCEPT ![c] = "subscribed"]
    /\ UNCHANGED regVars

(* The channel stops itself: a read or write failure, a bad frame, or one  *)
(* of its timers.                                                          *)
ChannelFails(c) ==
    /\ chan[c] = "running"
    /\ StopProxy(c)
    /\ UNCHANGED <<regVars, sess>>

(* The stop handler calls connections::remove (connections.cpp 106-134).   *)
HandlerRemove(c) ==
    /\ removing[c]
    /\ Reg!Remove(c)
    /\ removing' = [removing EXCEPT ![c] = FALSE]
    /\ UNCHANGED <<chan, stopHeld, sess>>

(* connections::stop (47-68): the flag and the copy.                       *)
NetStop(t) ==
    /\ Reg!RegStop(t)
    /\ UNCHANGED <<chanVars, sess>>

(* Variant: the loop of stop that skips channel->stop(ec).                *)
RegStopChannelSkipping(t, c) ==
    /\ Reg!StopChannel(t, c)
    /\ UNCHANGED <<chanVars, sess>>

(* One iteration of stop's loop (71-72): channel->stop(ec).                *)
RegStopChannel(t, c) ==
    /\ Reg!StopChannel(t, c)
    /\ StopProxy(c)
    /\ UNCHANGED sess

NetStopReturn(t) ==
    /\ Reg!RegStopReturn(t)
    /\ UNCHANGED <<chanVars, sess>>

Next ==
    \/ \E c \in Channels :
          \/ SessionStart(c) \/ SessionAbandon(c) \/ SessionStore(c)
          \/ SessionSubscribe(c) \/ ChannelFails(c) \/ HandlerRemove(c)
    \/ \E t \in RegStoppers :
          \/ NetStop(t) \/ NetStopReturn(t)
          \/ \E c \in Channels : RegStopChannel(t, c)

(* A thread inside connections::stop runs its loop to the end; a stop     *)
(* handler, once invoked, calls remove; a session's handshake ends, by     *)
(* success or by its timer, and the handler of a stored channel then       *)
(* subscribes.                                                             *)
Fairness ==
    /\ \A t \in RegStoppers :
          WF_vars(NetStopReturn(t) \/ \E c \in Channels : RegStopChannel(t, c))
    /\ \A c \in Channels :
          /\ WF_vars(HandlerRemove(c))
          /\ WF_vars(SessionAbandon(c) \/ SessionStore(c))
          /\ WF_vars(SessionSubscribe(c))

Spec == Init /\ [][Next]_vars
FairSpec == Spec /\ Fairness

-----------------------------------------------------------------------------
TypeOK ==
    /\ Reg!TypeOK
    /\ chan \in [Channels -> {"new", "running", "stopped"}]
    /\ stopHeld \in [Channels -> BOOLEAN]
    /\ removing \in [Channels -> BOOLEAN]
    /\ sess \in [Channels -> SessSteps]

(* store does not ask whether the channel is still running (connections.cpp *)
(* 136-177), so a stopped channel may be a member; it must then be about  *)
(* to leave: its remove handler has been invoked, or the session has yet   *)
(* to subscribe it, which invokes the handler at once.  Otherwise it stays *)
(* a member for good and the destructor's assertion (43) fails.            *)
NoStaleMember ==
    \A c \in members : chan[c] = "stopped" => removing[c] \/ sess[c] = "stored"

(* Spec 8, registry stop convergence: once connections::stop has been      *)
(* called, the registry empties, through the stop handlers its own loop    *)
(* and the channels' own stops invoke.                                     *)
RegistryDrains == regStopped ~> members = {}

=============================================================================
