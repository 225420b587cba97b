------------------------------- MODULE Proxy -------------------------------
(***************************************************************************)
(* The channel proxy of src/src/proxy.cpp and proxy.hpp: one connected     *)
(* socket, its read loop, its sends and its stop sequence.                 *)
(*                                                                         *)
(* The threads that act on one proxy are modelled as independent actors:   *)
(*   - the owner, which calls start(handler) (proxy.cpp 83-100);           *)
(*   - the read loop, one chain of async reads per successful start        *)
(*     (read_heading / handle_read_heading / read_payload /                *)
(*     handle_read_payload, proxy.cpp 113-265), which calls stop(ec) on    *)
(*     its own thread when a frame is bad or the transport fails;          *)
(*   - the Externals, threads that call stop(ec) (timers of the channel    *)
(*     subclass, the connection registry, the session);                    *)
(*   - callers of subscribe_stop, subscribe<Message> and send.             *)
(* stop(ec) (proxy.cpp 316-335) is not guarded by a lock: each of its      *)
(* calls is a sequence of steps, and the steps of concurrent calls, of     *)
(* start and of subscriptions interleave.                                  *)
(*                                                                         *)
(* The two subscribers the proxy owns are libbitcoin's subscriber and      *)
(* resubscriber (not in this repository): they are created stopped,        *)
(* subscribe() on a stopped one invokes the handler at once with           *)
(* channel_stopped, and relay/broadcast swaps the list out and invokes     *)
(* each handler it held.  A handler is a model value; what the model       *)
(* keeps of a handler is whether it is in a list and how many terminal     *)
(* notifications it received.                                              *)
(***************************************************************************)
EXTENDS Naturals, Sequences, FiniteSets

CONSTANTS
    StopHandlers,     \* handlers passed to subscribe_stop
    MessageHandlers,  \* handlers passed to subscribe<Message>
    Externals,        \* threads other than the read loop that call stop(ec)
    Messages,         \* the messages passed to send, each sent once
    Pieces,           \* write_some calls async_write makes for one message
    MaxStarts,        \* bound on the owner's calls of start
    Restart,          \* whether the owner may call start on a stopped channel
    StopDuringStart,  \* whether an External may call stop before start returned
    Versions,         \* protocol versions set_negotiated_version may store
    ProtocolMaximum,  \* the protocol_maximum given to the constructor
    MaxPayload,       \* heading::maximum_payload_size, per version
    ProtocolMagic,    \* the protocol_magic given to the constructor
    OtherMagic        \* any other magic a peer may send

ASSUME ProxyAssumption ==
    /\ StopHandlers \cap MessageHandlers = {}
    /\ Externals \cap Nat = {}
    /\ Pieces \in Nat \ {0}
    /\ MaxStarts \in Nat \ {0}
    /\ Restart \in BOOLEAN
    /\ StopDuringStart \in BOOLEAN
    /\ Versions \subseteq Nat
    /\ ProtocolMaximum \in Versions
    /\ MaxPayload \in [Versions -> Nat]
    /\ ProtocolMagic # OtherMagic

-----------------------------------------------------------------------------
(* One read chain per successful start; chain c calls stop as stopper c.   *)
Chains == 1 .. MaxStarts
Stoppers == Externals \cup Chains
Handlers == StopHandlers \cup MessageHandlers

(* payload_buffer_ is constructed with maximum_payload_size(protocol_maximum) *)
(* bytes (proxy.cpp 48) and only ever resized below that.                  *)
Capacity == MaxPayload[ProtocolMaximum]

(* The payload sizes a peer may announce: up to one past every limit.      *)
Sizes == 0 .. (Capacity + 1)
Magics == {ProtocolMagic, OtherMagic}

(* The next step of a stop(ec) call, in the order of proxy.cpp 320-334.    *)
StopSteps == {"idle", "flag", "msgStop", "broadcast", "subStop", "relay", "close"}

VARIABLES
    stopped,         \* stopped_
    version,         \* version_
    startCalls,      \* calls of start so far
    epoch,           \* successful starts so far: the current read chain
    startPc,         \* next step of the start call in progress
    readPc,          \* per chain: the async read it has outstanding
    payloadSize,     \* per chain: head.payload_size of its payload read
    stopPc,          \* per stopper: the next step of its stop call
    socketOpen,      \* the socket has not been closed
    msgSubStopped,   \* message_subscriber_ is stopped
    msgSubs,         \* handlers held by message_subscriber_
    stopSubStopped,  \* stop_subscriber_ is stopped
    stopSubs,        \* handlers held by stop_subscriber_
    subscribed,      \* handlers that have been passed to a subscribe call
    notified,        \* per handler: terminal notifications it received
    sendPc,          \* per message: "unsent", "writing" or "done"
    writeLeft,       \* per message: write_some calls its async_write still makes
    wire,            \* the pieces written to the socket, by message
    sendOrder,       \* the messages whose async_write was started, in order
    dispatched,      \* the messages relayed to a message handler, as records
    stopReturned     \* a stop call has returned since the last start

startVars == <<startCalls, epoch, startPc>>
readVars == <<readPc, payloadSize>>
subVars == <<msgSubStopped, msgSubs, stopSubStopped, stopSubs, subscribed, notified>>
sendVars == <<sendPc, writeLeft, wire, sendOrder>>
dispVars == <<dispatched, stopReturned>>
vars == <<stopped, version, startVars, readVars, stopPc, socketOpen, subVars, sendVars,
          dispVars>>

-----------------------------------------------------------------------------
(* The handlers in S receive one terminal notification each.               *)
Notify(S) == [h \in Handlers |-> IF h \in S THEN notified[h] + 1 ELSE notified[h]]

(* A bad heading: fails is_valid(), wrong magic, or a payload larger than  *)
(* the payload buffer's capacity (proxy.cpp 146-173).                      *)
BadHeading(valid, magic, size) ==
    ~valid \/ magic # ProtocolMagic \/ size > Capacity

(* Stopper t enters stop(ec).                                              *)
BeginStop(t) == stopPc' = [stopPc EXCEPT ![t] = "flag"]

Init ==
    /\ stopped = TRUE
    /\ version = ProtocolMaximum
    /\ startCalls = 0
    /\ epoch = 0
    /\ startPc = "none"
    /\ readPc = [c \in Chains |-> "idle"]
    /\ payloadSize = [c \in Chains |-> 0]
    /\ stopPc = [t \in Stoppers |-> "idle"]
    /\ socketOpen = TRUE
    /\ msgSubStopped = TRUE
    /\ msgSubs = {}
    /\ stopSubStopped = TRUE
    /\ stopSubs = {}
    /\ subscribed = {}
    /\ notified = [h \in Handlers |-> 0]
    /\ sendPc = [m \in Messages |-> "unsent"]
    /\ writeLeft = [m \in Messages |-> 0]
    /\ wire = <<>>
    /\ sendOrder = <<>>
    /\ dispatched = {}
    /\ stopReturned = FALSE

-----------------------------------------------------------------------------
(* Start sequence (proxy.cpp 83-100).  The owner calls start once it has   *)
(* returned from any earlier call; it calls it on a stopped channel only   *)
(* the first time, unless Restart.                                         *)
OwnerMayStart ==
    /\ startPc \in {"none", "done"}
    /\ startCalls < MaxStarts
    /\ Restart \/ startPc = "none" \/ ~stopped

(* start on a running channel: handler(operation_failed) (85-89).          *)
StartFailed ==
    /\ OwnerMayStart
    /\ ~stopped
    /\ startCalls' = startCalls + 1
    /\ UNCHANGED <<stopped, version, epoch, startPc, readVars, stopPc, socketOpen,
                   subVars, sendVars, dispVars>>

(* start on a stopped channel clears stopped_ (91).                        *)
StartBegin ==
    /\ OwnerMayStart
    /\ stopped
    /\ stopped' = FALSE
    /\ startCalls' = startCalls + 1
    /\ epoch' = epoch + 1
    /\ startPc' = "subscribers"
    /\ stopReturned' = FALSE
    /\ UNCHANGED <<version, readVars, stopPc, socketOpen, subVars, sendVars, dispatched>>

(* Variant: start that starts stop_subscriber_ and not message_subscriber_. *)
StartSubscribersPartial ==
    /\ startPc = "subscribers"
    /\ stopSubStopped' = FALSE
    /\ startPc' = "read"
    /\ UNCHANGED <<stopped, version, startCalls, epoch, readVars, stopPc, socketOpen,
                   msgSubStopped, msgSubs, stopSubs, subscribed, notified, sendVars,
                   dispVars>>

(* stop_subscriber_->start(); message_subscriber_.start(); (92-93).        *)
StartSubscribers ==
    /\ startPc = "subscribers"
    /\ stopSubStopped' = FALSE
    /\ msgSubStopped' = FALSE
    /\ startPc' = "read"
    /\ UNCHANGED <<stopped, version, startCalls, epoch, readVars, stopPc, socketOpen,
                   msgSubs, stopSubs, subscribed, notified, sendVars, dispVars>>

(* handler(success), then read_heading(), which returns at once on a       *)
(* stopped channel and otherwise issues the heading read (96-99, 113-129). *)
StartRead ==
    /\ startPc = "read"
    /\ startPc' = "done"
    /\ readPc' = IF stopped THEN readPc ELSE [readPc EXCEPT ![epoch] = "heading"]
    /\ UNCHANGED <<stopped, version, startCalls, epoch, payloadSize, stopPc,
                   socketOpen, subVars, sendVars, dispVars>>

-----------------------------------------------------------------------------
(* Read cycle.  handle_read_heading (131-177) for chain c with the read's  *)
(* error ec and the parsed heading: return if stopped; stop(ec) on a       *)
(* transport error; stop(bad_stream) on a bad heading; else read_payload   *)
(* (179-198), which resizes the buffer and issues the payload read.        *)
HandleReadHeading(c, ec, valid, magic, size) ==
    /\ readPc[c] = "heading"
    /\ \/ /\ stopped
          /\ readPc' = [readPc EXCEPT ![c] = "idle"]
          /\ UNCHANGED <<payloadSize, stopPc, dispVars>>
       \/ /\ ~stopped
          /\ ec \/ BadHeading(valid, magic, size)
          /\ readPc' = [readPc EXCEPT ![c] = "idle"]
          /\ BeginStop(c)
          /\ UNCHANGED payloadSize
       \/ /\ ~stopped
          /\ ~ec /\ ~BadHeading(valid, magic, size)
          /\ readPc' = [readPc EXCEPT ![c] = "payload"]
          /\ payloadSize' = [payloadSize EXCEPT ![c] = size]
          /\ UNCHANGED stopPc
    /\ UNCHANGED <<stopped, version, startVars, socketOpen, subVars, sendVars, dispVars>>

(* handle_read_payload up to the parse (200-224): return if stopped;      *)
(* stop(ec) on a transport error; stop(bad_stream) on a checksum mismatch; *)
(* else the payload is handed to the parser.  stopped() is read here, once: *)
(* a stop that runs after this test does not keep the message from being   *)
(* relayed.                                                                *)
HandleReadPayload(c, ec, checksumOk) ==
    /\ readPc[c] = "payload"
    /\ \/ /\ stopped
          /\ readPc' = [readPc EXCEPT ![c] = "idle"]
          /\ UNCHANGED stopPc
       \/ /\ ~stopped
          /\ ec \/ ~checksumOk
          /\ readPc' = [readPc EXCEPT ![c] = "idle"]
          /\ BeginStop(c)
       \/ /\ ~stopped
          /\ ~ec /\ checksumOk
          /\ readPc' = [readPc EXCEPT ![c] = "load"]
          /\ UNCHANGED stopPc
    /\ UNCHANGED <<stopped, version, startVars, payloadSize, socketOpen, subVars,
                   sendVars, dispVars>>

(* message_subscriber_.load relays a message that parsed to the handlers   *)
(* of its type (libbitcoin's resubscriber, not in this repository).  The   *)
(* relay swaps the list out and invokes each handler, which asks to be     *)
(* resubscribed; on a stopped subscriber the resubscription invokes it at  *)
(* once with channel_stopped.  A delivery is recorded with whether its     *)
(* frame was exact and whether a stop call had already returned.           *)
Relay(exact) ==
    /\ dispatched' = IF msgSubs = {} THEN dispatched
                     ELSE dispatched \cup {[exact |-> exact, late |-> stopReturned]}
    /\ IF msgSubStopped
         THEN notified' = Notify(msgSubs) /\ msgSubs' = {}
         ELSE UNCHANGED <<notified, msgSubs>>

(* The rest of handle_read_payload (225-265): load the message, which      *)
(* relays it when it parsed; then stop(code) on a parse error and          *)
(* stop(bad_stream) on trailing bytes; else read_heading, which returns on *)
(* a stopped channel and otherwise issues the next heading read.           *)
LoadPayload(c, parsed, consumed) ==
    /\ readPc[c] = "load"
    /\ IF parsed THEN Relay(consumed) ELSE UNCHANGED <<dispatched, notified, msgSubs>>
    /\ \/ /\ ~parsed \/ ~consumed
          /\ readPc' = [readPc EXCEPT ![c] = "idle"]
          /\ BeginStop(c)
       \/ /\ parsed /\ consumed
          /\ readPc' = [readPc EXCEPT ![c] = IF stopped THEN "idle" ELSE "heading"]
          /\ UNCHANGED stopPc
    /\ UNCHANGED <<stopped, version, startVars, payloadSize, socketOpen, msgSubStopped,
                   stopSubStopped, stopSubs, subscribed, sendVars, stopReturned>>

(* A heading read completes with the peer's bytes or a transport error.    *)
HeadingArrives(c) ==
    /\ socketOpen
    /\ \E ec, valid \in BOOLEAN, magic \in Magics, size \in Sizes :
          HandleReadHeading(c, ec, valid, magic, size)

(* On a closed socket the outstanding heading read completes aborted.      *)
HeadingAborted(c) ==
    /\ ~socketOpen
    /\ HandleReadHeading(c, TRUE, FALSE, OtherMagic, 0)

PayloadArrives(c) ==
    /\ socketOpen
    /\ \E ec, checksumOk \in BOOLEAN : HandleReadPayload(c, ec, checksumOk)

PayloadAborted(c) ==
    /\ ~socketOpen
    /\ HandleReadPayload(c, TRUE, FALSE)

(* The payload's bytes decide whether it parses and whether the parser     *)
(* consumes all of them.                                                   *)
Load(c) == \E parsed, consumed \in BOOLEAN : LoadPayload(c, parsed, consumed)

-----------------------------------------------------------------------------
(* Stop sequence (316-335), one action per step of a call by stopper t.    *)
(* An External may call stop at any time after start returned, or at any   *)
(* time if StopDuringStart; it returns before it calls again.              *)
ExternalStop(t) ==
    /\ stopPc[t] = "idle"
    /\ StopDuringStart \/ startPc = "done"
    /\ BeginStop(t)
    /\ UNCHANGED <<stopped, version, startVars, readVars, socketOpen, subVars,
                   sendVars, dispVars>>

(* stopped_ = true (320).                                                  *)
StopFlag(t) ==
    /\ stopPc[t] = "flag"
    /\ stopped' = TRUE
    /\ stopPc' = [stopPc EXCEPT ![t] = "msgStop"]
    /\ UNCHANGED <<version, startVars, readVars, socketOpen, subVars, sendVars, dispVars>>

(* Variant: message_subscriber_.stop() left out of the stop sequence.      *)
StopMessagesOmitted(t) ==
    /\ stopPc[t] = "msgStop"
    /\ stopPc' = [stopPc EXCEPT ![t] = "broadcast"]
    /\ UNCHANGED <<stopped, version, startVars, readVars, socketOpen, subVars,
                   sendVars, dispVars>>

(* message_subscriber_.stop() (323).                                       *)
StopMessages(t) ==
    /\ stopPc[t] = "msgStop"
    /\ msgSubStopped' = TRUE
    /\ stopPc' = [stopPc EXCEPT ![t] = "broadcast"]
    /\ UNCHANGED <<stopped, version, startVars, readVars, socketOpen, msgSubs,
                   stopSubStopped, stopSubs, subscribed, notified, sendVars, dispVars>>

(* message_subscriber_.broadcast(channel_stopped) (324).                   *)
BroadcastStopped(t) ==
    /\ stopPc[t] = "broadcast"
    /\ notified' = Notify(msgSubs)
    /\ msgSubs' = {}
    /\ stopPc' = [stopPc EXCEPT ![t] = "subStop"]
    /\ UNCHANGED <<stopped, version, startVars, readVars, socketOpen, msgSubStopped,
                   stopSubStopped, stopSubs, subscribed, sendVars, dispVars>>

(* stop_subscriber_->stop() (327).                                         *)
StopSubscriber(t) ==
    /\ stopPc[t] = "subStop"
    /\ stopSubStopped' = TRUE
    /\ stopPc' = [stopPc EXCEPT ![t] = "relay"]
    /\ UNCHANGED <<stopped, version, startVars, readVars, socketOpen, msgSubStopped,
                   msgSubs, stopSubs, subscribed, notified, sendVars, dispVars>>

(* Variant: a relay that invokes the handlers but keeps them in the list.  *)
RelayStopKeeping(t) ==
    /\ stopPc[t] = "relay"
    /\ notified' = Notify(stopSubs)
    /\ stopPc' = [stopPc EXCEPT ![t] = "close"]
    /\ UNCHANGED <<stopped, version, startVars, readVars, socketOpen, msgSubStopped,
                   msgSubs, stopSubStopped, stopSubs, subscribed, sendVars, dispVars>>

(* stop_subscriber_->relay(ec) (328).                                      *)
RelayStop(t) ==
    /\ stopPc[t] = "relay"
    /\ notified' = Notify(stopSubs)
    /\ stopSubs' = {}
    /\ stopPc' = [stopPc EXCEPT ![t] = "close"]
    /\ UNCHANGED <<stopped, version, startVars, readVars, socketOpen, msgSubStopped,
                   msgSubs, stopSubStopped, subscribed, sendVars, dispVars>>

(* Variant: the stop sequence returns without closing the socket.         *)
CloseSocketOmitted(t) ==
    /\ stopPc[t] = "close"
    /\ stopPc' = [stopPc EXCEPT ![t] = "idle"]
    /\ stopReturned' = TRUE
    /\ UNCHANGED <<stopped, version, startVars, readVars, socketOpen, subVars, sendVars,
                   dispatched>>

(* handle_stopping(); socket_->close(); and return (331-334).              *)
CloseSocket(t) ==
    /\ stopPc[t] = "close"
    /\ socketOpen' = FALSE
    /\ stopPc' = [stopPc EXCEPT ![t] = "idle"]
    /\ stopReturned' = TRUE
    /\ UNCHANGED <<stopped, version, startVars, readVars, subVars, sendVars, dispatched>>

-----------------------------------------------------------------------------
(* subscribe_stop (105-108) and subscribe<Message> (proxy.hpp 72-77): the  *)
(* handler joins the list, or is invoked at once with channel_stopped when *)
(* the subscriber is stopped.                                              *)
SubscribeStop(h) ==
    /\ h \notin subscribed
    /\ subscribed' = subscribed \cup {h}
    /\ IF stopSubStopped
         THEN notified' = Notify({h}) /\ UNCHANGED stopSubs
         ELSE stopSubs' = stopSubs \cup {h} /\ UNCHANGED notified
    /\ UNCHANGED <<stopped, version, startVars, readVars, stopPc, socketOpen,
                   msgSubStopped, msgSubs, stopSubStopped, sendVars, dispVars>>

Subscribe(h) ==
    /\ h \notin subscribed
    /\ subscribed' = subscribed \cup {h}
    /\ IF msgSubStopped
         THEN notified' = Notify({h}) /\ UNCHANGED msgSubs
         ELSE msgSubs' = msgSubs \cup {h} /\ UNCHANGED notified
    /\ UNCHANGED <<stopped, version, startVars, readVars, stopPc, socketOpen,
                   msgSubStopped, stopSubStopped, stopSubs, sendVars, dispVars>>

(* set_negotiated_version (75-78) stores any value.                        *)
SetNegotiatedVersion(v) ==
    /\ version' = v
    /\ UNCHANGED <<stopped, startVars, readVars, stopPc, socketOpen, subVars, sendVars, dispVars>>

-----------------------------------------------------------------------------
(* Send sequence.  send (proxy.hpp 63-69) serializes on the caller's       *)
(* thread and calls do_send (270-294): on a stopped channel the handler    *)
(* gets channel_stopped; otherwise async_write is started under the        *)
(* socket's lock, which is released as soon as async_write returns.        *)
Send(m) ==
    /\ sendPc[m] = "unsent"
    /\ IF stopped
         THEN sendPc' = [sendPc EXCEPT ![m] = "done"] /\ UNCHANGED <<writeLeft, sendOrder>>
         ELSE /\ sendPc' = [sendPc EXCEPT ![m] = "writing"]
              /\ writeLeft' = [writeLeft EXCEPT ![m] = Pieces]
              /\ sendOrder' = Append(sendOrder, m)
    /\ UNCHANGED <<stopped, version, startVars, readVars, stopPc, socketOpen, subVars,
                   wire, dispVars>>

(* The place of message m among the writes started on the socket.          *)
CallPos(m) == CHOOSE i \in DOMAIN sendOrder : sendOrder[i] = m

(* async_write issues its first write_some before it returns (290), and    *)
(* the socket queues write_some operations in the order they are issued:  *)
(* a message's first piece goes out only after the first piece of every   *)
(* write started before it.  Later pieces are issued by completion        *)
(* handlers and may interleave with other writes.                          *)
FirstPieceInTurn(m) ==
    writeLeft[m] = Pieces =>
        \A i \in 1 .. (CallPos(m) - 1) :
            ~(sendPc[sendOrder[i]] = "writing" /\ writeLeft[sendOrder[i]] = Pieces)

(* Variant: a write_some step taken for a message whose write has ended.  *)
WriteSomeUnguarded(m) ==
    /\ socketOpen
    /\ wire' = Append(wire, m)
    /\ writeLeft' = [writeLeft EXCEPT ![m] = @ - 1]
    /\ sendPc' = IF writeLeft[m] = 1 THEN [sendPc EXCEPT ![m] = "done"] ELSE sendPc
    /\ UNCHANGED <<stopped, version, startVars, readVars, stopPc, socketOpen, subVars,
                   sendOrder, dispVars>>

(* async_write is a composed operation: one write_some per piece; the last *)
(* completes it and handle_send (296-307) invokes the handler.             *)
WriteSome(m) ==
    /\ sendPc[m] = "writing"
    /\ socketOpen
    /\ FirstPieceInTurn(m)
    /\ wire' = Append(wire, m)
    /\ writeLeft' = [writeLeft EXCEPT ![m] = @ - 1]
    /\ sendPc' = IF writeLeft[m] = 1 THEN [sendPc EXCEPT ![m] = "done"] ELSE sendPc
    /\ UNCHANGED <<stopped, version, startVars, readVars, stopPc, socketOpen, subVars,
                   sendOrder, dispVars>>

(* The write fails, by a transport error or because the socket was closed; *)
(* handle_send reports it and leaves the channel running.                  *)
WriteFails(m) ==
    /\ sendPc[m] = "writing"
    /\ sendPc' = [sendPc EXCEPT ![m] = "done"]
    /\ writeLeft' = [writeLeft EXCEPT ![m] = 0]
    /\ UNCHANGED <<stopped, version, startVars, readVars, stopPc, socketOpen, subVars,
                   wire, sendOrder, dispVars>>

WriteError(m) == socketOpen /\ WriteFails(m)
WriteAborted(m) == ~socketOpen /\ WriteFails(m)

-----------------------------------------------------------------------------
StopStep(t) ==
    \/ StopFlag(t) \/ StopMessages(t) \/ BroadcastStopped(t)
    \/ StopSubscriber(t) \/ RelayStop(t) \/ CloseSocket(t)

(* The steps the code takes by itself once it is enabled: the rest of a    *)
(* start, stop or read handler, and the completion of an operation on a   *)
(* closed socket.                                                          *)
Internal ==
    \/ StartSubscribers \/ StartRead
    \/ \E t \in Stoppers : StopStep(t)
    \/ \E c \in Chains : HeadingAborted(c) \/ PayloadAborted(c) \/ Load(c)
    \/ \E m \in Messages : WriteAborted(m)

(* What the peer and the callers do, whenever they like.                   *)
Environment ==
    \/ StartFailed \/ StartBegin
    \/ \E t \in Externals : ExternalStop(t)
    \/ \E c \in Chains : HeadingArrives(c) \/ PayloadArrives(c)
    \/ \E h \in StopHandlers : SubscribeStop(h)
    \/ \E h \in MessageHandlers : Subscribe(h)
    \/ \E v \in Versions : SetNegotiatedVersion(v)
    \/ \E m \in Messages : Send(m) \/ WriteSome(m) \/ WriteError(m)

Next == Internal \/ Environment

(* asio completes every operation on a closed socket, and a thread inside  *)
(* start or stop runs to its end: weak fairness on each such step.         *)
Fairness ==
    /\ WF_vars(StartSubscribers)
    /\ WF_vars(StartRead)
    /\ \A t \in Stoppers : WF_vars(StopStep(t))
    /\ \A c \in Chains : WF_vars(HeadingAborted(c)) /\ WF_vars(PayloadAborted(c))
    /\ \A c \in Chains : WF_vars(Load(c))
    /\ \A m \in Messages : WF_vars(WriteAborted(m))

Spec == Init /\ [][Next]_vars
FairSpec == Spec /\ Fairness

-----------------------------------------------------------------------------
TypeOK ==
    /\ stopped \in BOOLEAN
    /\ version \in Versions
    /\ startCalls \in 0 .. MaxStarts
    /\ epoch \in 0 .. MaxStarts
    /\ startPc \in {"none", "subscribers", "read", "done"}
    /\ readPc \in [Chains -> {"idle", "heading", "payload", "load"}]
    /\ payloadSize \in [Chains -> Sizes]
    /\ stopPc \in [Stoppers -> StopSteps]
    /\ socketOpen \in BOOLEAN
    /\ msgSubStopped \in BOOLEAN
    /\ msgSubs \subseteq MessageHandlers
    /\ stopSubStopped \in BOOLEAN
    /\ stopSubs \subseteq StopHandlers
    /\ subscribed \subseteq Handlers
    /\ notified \in [Handlers -> Nat]
    /\ sendPc \in [Messages -> {"unsent", "writing", "done"}]
    /\ writeLeft \in [Messages -> 0 .. Pieces]
    /\ wire \in Seq(Messages)
    /\ sendOrder \in Seq(Messages)
    /\ dispatched \subseteq [exact : BOOLEAN, late : BOOLEAN]
    /\ stopReturned \in BOOLEAN

(* No start and no stop call is in progress.                               *)
Quiescent ==
    /\ startPc \in {"none", "done"}
    /\ \A t \in Stoppers : stopPc[t] = "idle"

(* subscribe_stop promises each handler exactly one invocation with the    *)
(* terminal code, and subscribe<Message> one channel_stopped: no handler   *)
(* is notified twice, however many threads call stop(ec) at once, and once *)
(* the channel is stopped and every start and stop call has returned,      *)
(* every handler that subscribed, before or during a stop, has been        *)
(* notified.  This rests on the order of proxy.cpp 323-328: a subscriber   *)
(* is stopped before it relays.                                            *)
StopNotifiesEverySubscriber ==
    /\ \A h \in Handlers : notified[h] <= 1
    /\ (stopped /\ Quiescent) => \A h \in subscribed : notified[h] = 1

(* Reads are strictly sequential (spec 5, "read strand"): at most one read *)
(* is outstanding on the socket, so heading_buffer_ and payload_buffer_,   *)
(* which no lock protects (proxy.cpp 118, 187), have one user.             *)
ReadsSerialized ==
    \A c, d \in Chains : readPc[c] # "idle" /\ readPc[d] # "idle" => c = d

(* Once the channel is stopped, its outstanding I/O drains: the pending    *)
(* read completes and every started write completes and reports to its    *)
(* handler, even if the peer never sends or reads again.  The proxy's      *)
(* self-references held by those handlers (shared_from_this) are released  *)
(* only then.                                                              *)
Drained ==
    /\ \A c \in Chains : readPc[c] = "idle"
    /\ \A m \in Messages : sendPc[m] # "writing"

StopDrains == stopped ~> Drained

(* Sends are ordered (spec 4.1.2): the bytes on the wire are the messages  *)
(* in the order their async_write was started, none interleaved.           *)
SendsOrdered ==
    \A i, j \in DOMAIN wire : i < j => CallPos(wire[i]) <= CallPos(wire[j])

(* Spec 4.1.4 "Stop": after stop returns, no further inbound dispatches   *)
(* occur.  handle_read_payload tests stopped() once, on entry (proxy.cpp   *)
(* 203), and relays the message later (235); a stop may run to its end in *)
(* between.  It holds because stop stops message_subscriber_ and empties   *)
(* it before it returns (323-324), so the late relay finds no handler.     *)
NoDispatchAfterStop == \A d \in dispatched : ~d.late

(* Spec 10: for trailing bytes the channel stops with bad_stream and no    *)
(* subscriber receives a spurious message.  The code checks for trailing   *)
(* bytes only after load has relayed the message (proxy.cpp 234-255).      *)
DispatchesOnlyExactFrames == \A d \in dispatched : d.exact

(* A heading whose payload exceeds maximum_payload_size of the negotiated  *)
(* version is rejected before its payload is read (spec 8, "Oversized").   *)
OversizedPayloadRejected ==
    [][\A c \in Chains :
          readPc'[c] = "payload" /\ readPc[c] # "payload"
              => payloadSize'[c] <= MaxPayload[version]]_vars


-----------------------------------------------------------------------------
(* The phase of the channel as its owner sees it: before start, inside     *)
(* start, started and not stopped, and stopped.                            *)
Life ==
    CASE startPc = "none" -> "new"
      [] startPc \in {"subscribers", "read"} -> "starting"
      [] startPc = "done" /\ stopped -> "stopped"
      [] startPc = "done" /\ ~stopped -> "running"

Lifecycle == INSTANCE ProxyAbstract WITH life <- Life

(* The proxy implements the channel lifecycle of ProxyAbstract: started    *)
(* once and stopped for good, each handler notified at most once, after    *)
(* it subscribed, and never while the channel runs.  This rests on start   *)
(* starting both subscribers before handler(success) (proxy.cpp 92-96) and *)
(* on stop setting stopped_ before it stops either subscriber (320-327).   *)
RefinesLifecycle == Lifecycle!Spec

=============================================================================
