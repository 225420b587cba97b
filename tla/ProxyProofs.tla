---------------------------- MODULE ProxyProofs ----------------------------
(***************************************************************************)
(* Proofs about Proxy: the type invariant, and that every subscriber of    *)
(* the proxy is notified exactly once, for every value of the constants,   *)
(* when the owner does not restart the channel and no thread calls stop    *)
(* before start returned.                                                  *)
(***************************************************************************)
EXTENDS Proxy, TLAPS

(* The type invariant, strengthened by the two facts its preservation      *)
(* needs: a write in progress has a piece left, and a successful start     *)
(* never outnumbers the calls of start.  Its Boolean conjuncts are kept    *)
(* apart: the SMT backend handles them poorly alongside the others.        *)
BoolTypes ==
    /\ stopped \in BOOLEAN
    /\ socketOpen \in BOOLEAN
    /\ msgSubStopped \in BOOLEAN
    /\ stopSubStopped \in BOOLEAN
    /\ stopReturned \in BOOLEAN

StartTypes ==
    /\ version \in Versions
    /\ startCalls \in 0 .. MaxStarts
    /\ epoch \in 0 .. MaxStarts
    /\ epoch <= startCalls
    /\ startPc \in {"none", "subscribers", "read", "done"}

ReadTypes ==
    /\ readPc \in [Chains -> {"idle", "heading", "payload", "load"}]
    /\ payloadSize \in [Chains -> Sizes]
    /\ stopPc \in [Stoppers -> StopSteps]

SubTypes ==
    /\ msgSubs \subseteq MessageHandlers
    /\ stopSubs \subseteq StopHandlers
    /\ subscribed \subseteq Handlers
    /\ notified \in [Handlers -> Nat]
    /\ dispatched \subseteq [exact : BOOLEAN, late : BOOLEAN]

SendTypes ==
    /\ sendPc \in [Messages -> {"unsent", "writing", "done"}]
    /\ writeLeft \in [Messages -> 0 .. Pieces]
    /\ wire \in Seq(Messages)
    /\ sendOrder \in Seq(Messages)
    /\ \A m \in Messages : sendPc[m] = "writing" => writeLeft[m] \in 1 .. Pieces

DataInv == StartTypes /\ ReadTypes /\ SubTypes /\ SendTypes

TypeInv == BoolTypes /\ DataInv

(* Each handler is either still held by its subscriber, unnotified, or has *)
(* been notified exactly once; handlers that never subscribed are neither. *)
NotifyInv ==
    /\ \A h \in Handlers : notified[h] <= 1
    /\ msgSubs \cup stopSubs \subseteq subscribed
    /\ \A h \in msgSubs \cup stopSubs : notified[h] = 0
    /\ \A h \in Handlers \ subscribed : notified[h] = 0
    /\ \A h \in subscribed : notified[h] = 1 \/ h \in msgSubs \cup stopSubs

(* While start has not returned, no stop call and no read is in progress:  *)
(* Externals wait for start to return and chains begin only with a read.  *)
StartInv ==
    /\ startPc \in {"none", "subscribers", "read"} =>
          /\ \A t \in Stoppers : stopPc[t] = "idle"
          /\ \A c \in Chains : readPc[c] = "idle"
    /\ startPc \in {"subscribers", "read"} => ~stopped
    /\ startPc = "none" => msgSubStopped /\ stopSubStopped

(* A stopped subscriber holds handlers only while a stop call is about to  *)
(* relay to them; a stopped channel outside start has stopped subscribers  *)
(* or a stop call that is about to stop them.                              *)
SubInv ==
    /\ msgSubStopped /\ msgSubs # {} => \E t \in Stoppers : stopPc[t] = "broadcast"
    /\ stopSubStopped /\ stopSubs # {} => \E t \in Stoppers : stopPc[t] = "relay"
    /\ stopped /\ startPc \in {"none", "done"} =>
          msgSubStopped \/ \E t \in Stoppers : stopPc[t] = "msgStop"
    /\ stopped /\ startPc \in {"none", "done"} =>
          stopSubStopped \/ \E t \in Stoppers : stopPc[t] \in {"msgStop", "broadcast", "subStop"}

(* A read chain calls stop only from a completion handler, so while its   *)
(* stop call runs it has no read outstanding and cannot begin another.     *)
ChainInv ==
    \A c \in Chains : stopPc[c] # "idle" => readPc[c] = "idle"

(* Once a stop call has passed message_subscriber_.broadcast, the message  *)
(* subscriber is stopped and empty, and stays so: nothing starts it again  *)
(* and a subscription to it is answered at once.  No stop has returned     *)
(* while start runs, and no delivery was made after a stop returned.       *)
LateInv ==
    /\ \A t \in Stoppers : stopPc[t] = "broadcast" => msgSubStopped
    /\ \A t \in Stoppers : stopPc[t] \in {"subStop", "relay", "close"} =>
          msgSubStopped /\ msgSubs = {}
    /\ stopReturned => msgSubStopped /\ msgSubs = {}
    /\ startPc \in {"none", "subscribers", "read"} => ~stopReturned
    /\ \A d \in dispatched : ~d.late

IInv == TypeInv /\ NotifyInv /\ StartInv /\ SubInv /\ ChainInv /\ LateInv

-----------------------------------------------------------------------------
(* Type correctness.                                                       *)

LEMMA TypeInvInit == Init => TypeInv
<1> SUFFICES ASSUME Init PROVE TypeInv
  OBVIOUS
<1>1. BoolTypes
  BY DEF Init, BoolTypes
<1>2. DataInv
  BY ProxyAssumption DEF Init, DataInv, StartTypes, ReadTypes, SubTypes, SendTypes,
                         Chains, Stoppers, Handlers, Sizes, Capacity, StopSteps
<1>3. QED
  BY <1>1, <1>2 DEF TypeInv

LEMMA BoolTypesStep == BoolTypes /\ [Next]_vars => BoolTypes'
<1> SUFFICES ASSUME BoolTypes, [Next]_vars PROVE BoolTypes'
  OBVIOUS
<1> USE DEF BoolTypes, startVars, readVars, subVars, sendVars, dispVars
<1>1. CASE StartFailed \/ StartBegin \/ StartSubscribers \/ StartRead
  BY <1>1 DEF StartFailed, StartBegin, StartSubscribers, StartRead
<1>2. ASSUME NEW c \in Chains, HeadingArrives(c) \/ HeadingAborted(c)
                              \/ PayloadArrives(c) \/ PayloadAborted(c) \/ Load(c)
      PROVE BoolTypes'
  BY <1>2 DEF HeadingArrives, HeadingAborted, PayloadArrives, PayloadAborted,
              HandleReadHeading, HandleReadPayload, Load, LoadPayload, Relay, dispVars
<1>3. ASSUME NEW t, ExternalStop(t) \/ StopStep(t) PROVE BoolTypes'
  BY <1>3 DEF ExternalStop, StopStep, StopFlag, StopMessages, BroadcastStopped,
              StopSubscriber, RelayStop, CloseSocket
<1>4. ASSUME NEW h, NEW v, NEW m,
             \/ SubscribeStop(h) \/ Subscribe(h) \/ SetNegotiatedVersion(v)
             \/ Send(m) \/ WriteSome(m) \/ WriteFails(m)
      PROVE BoolTypes'
  BY <1>4 DEF SubscribeStop, Subscribe, SetNegotiatedVersion, Send, WriteSome, WriteFails
<1>5. CASE UNCHANGED vars
  BY <1>5 DEF vars
<1>6. QED
  BY <1>1, <1>2, <1>3, <1>4, <1>5
  DEF Next, Internal, Environment, WriteError, WriteAborted

LEMMA DataInvStep == TypeInv /\ [Next]_vars => DataInv'
<1> SUFFICES ASSUME TypeInv, [Next]_vars PROVE DataInv'
  OBVIOUS
<1> USE ProxyAssumption DEF TypeInv, DataInv, Chains, Stoppers, Handlers, StopSteps,
                           Sizes, Capacity, startVars, readVars, subVars, sendVars,
                           dispVars
<1>1. CASE StartFailed
  <2>1. StartTypes'
    BY <1>1 DEF StartFailed, OwnerMayStart, StartTypes
  <2>2. (ReadTypes /\ SubTypes /\ SendTypes)'
    BY <1>1 DEF StartFailed, ReadTypes, SubTypes, SendTypes
  <2>3. QED
    BY <2>1, <2>2
<1>2. CASE StartBegin
  <2>1. StartTypes'
    BY <1>2 DEF StartBegin, OwnerMayStart, StartTypes
  <2>2. (ReadTypes /\ SubTypes /\ SendTypes)'
    BY <1>2 DEF StartBegin, ReadTypes, SubTypes, SendTypes
  <2>3. QED
    BY <2>1, <2>2
<1>3. CASE StartSubscribers
  BY <1>3 DEF StartSubscribers, StartTypes, ReadTypes, SubTypes, SendTypes
<1>4. CASE StartRead
  BY <1>4 DEF StartRead, StartTypes, ReadTypes, SubTypes, SendTypes
<1>5. ASSUME NEW c \in Chains, NEW ec \in BOOLEAN, NEW valid \in BOOLEAN,
             NEW magic \in Magics, NEW size \in Sizes,
             HandleReadHeading(c, ec, valid, magic, size)
      PROVE DataInv'
  <2>1. ReadTypes'
    <3>1. CASE stopped
      BY <1>5, <3>1 DEF HandleReadHeading, ReadTypes
    <3>2. CASE ~stopped /\ (ec \/ BadHeading(valid, magic, size))
      BY <1>5, <3>2 DEF HandleReadHeading, BeginStop, ReadTypes
    <3>3. CASE ~stopped /\ ~ec /\ ~BadHeading(valid, magic, size)
      <4>1. /\ readPc' = [readPc EXCEPT ![c] = "payload"]
            /\ payloadSize' = [payloadSize EXCEPT ![c] = size]
            /\ stopPc' = stopPc
        BY <1>5, <3>3 DEF HandleReadHeading
      <4>2. QED
        BY <4>1 DEF ReadTypes
    <3>4. QED
      BY <3>1, <3>2, <3>3
  <2>2. (StartTypes /\ SubTypes /\ SendTypes)'
    BY <1>5 DEF HandleReadHeading, StartTypes, SubTypes, SendTypes
  <2>3. QED
    BY <2>1, <2>2
<1>6. ASSUME NEW c \in Chains, NEW ec \in BOOLEAN, NEW ok \in BOOLEAN,
             HandleReadPayload(c, ec, ok)
      PROVE DataInv'
  <2>1. ReadTypes'
    BY <1>6 DEF HandleReadPayload, BeginStop, ReadTypes
  <2>2. (StartTypes /\ SubTypes /\ SendTypes)'
    BY <1>6 DEF HandleReadPayload, StartTypes, SubTypes, SendTypes
  <2>3. QED
    BY <2>1, <2>2
<1>6a. ASSUME NEW c \in Chains, NEW parsed \in BOOLEAN, NEW consumed \in BOOLEAN,
              LoadPayload(c, parsed, consumed)
       PROVE DataInv'
  <2>1. ReadTypes'
    BY <1>6a DEF LoadPayload, BeginStop, ReadTypes
  <2>2. SubTypes'
    <3>1. CASE parsed
      <4>1. dispatched' \subseteq [exact : BOOLEAN, late : BOOLEAN]
        BY <1>6a, <3>1 DEF LoadPayload, Relay, SubTypes, BoolTypes
      <4>2. msgSubs' \subseteq MessageHandlers /\ notified' \in [Handlers -> Nat]
        BY <1>6a, <3>1 DEF LoadPayload, Relay, Notify, SubTypes
      <4>3. QED
        BY <1>6a, <4>1, <4>2 DEF LoadPayload, SubTypes
    <3>2. CASE ~parsed
      BY <1>6a, <3>2 DEF LoadPayload, SubTypes
    <3>3. QED
      BY <3>1, <3>2
  <2>3. (StartTypes /\ SendTypes)'
    BY <1>6a DEF LoadPayload, Relay, StartTypes, SendTypes
  <2>4. QED
    BY <2>1, <2>2, <2>3
<1>7. ASSUME NEW t \in Externals, ExternalStop(t) PROVE DataInv'
  BY <1>7 DEF ExternalStop, BeginStop, StartTypes, ReadTypes, SubTypes, SendTypes
<1>8. ASSUME NEW t \in Stoppers, StopFlag(t) \/ StopMessages(t) \/ StopSubscriber(t)
                                \/ CloseSocket(t)
      PROVE DataInv'
  BY <1>8 DEF StopFlag, StopMessages, StopSubscriber, CloseSocket, StartTypes, ReadTypes,
              SubTypes, SendTypes
<1>9. ASSUME NEW t \in Stoppers, BroadcastStopped(t) \/ RelayStop(t) PROVE DataInv'
  <2>1. SubTypes'
    BY <1>9 DEF BroadcastStopped, RelayStop, Notify, SubTypes
  <2>2. (StartTypes /\ ReadTypes /\ SendTypes)'
    BY <1>9 DEF BroadcastStopped, RelayStop, StartTypes, ReadTypes, SendTypes
  <2>3. QED
    BY <2>1, <2>2
<1>10. ASSUME NEW h,
              \/ h \in StopHandlers /\ SubscribeStop(h)
              \/ h \in MessageHandlers /\ Subscribe(h)
       PROVE DataInv'
  <2>1. SubTypes'
    BY <1>10 DEF SubscribeStop, Subscribe, Notify, SubTypes
  <2>2. (StartTypes /\ ReadTypes /\ SendTypes)'
    BY <1>10 DEF SubscribeStop, Subscribe, StartTypes, ReadTypes, SendTypes
  <2>3. QED
    BY <2>1, <2>2
<1>11. ASSUME NEW v \in Versions, SetNegotiatedVersion(v) PROVE DataInv'
  BY <1>11 DEF SetNegotiatedVersion, StartTypes, ReadTypes, SubTypes, SendTypes
<1>12. ASSUME NEW m \in Messages, Send(m) \/ WriteSome(m) \/ WriteFails(m) PROVE DataInv'
  <2>1. SendTypes'
    <3>1. CASE Send(m) /\ stopped
      BY <3>1 DEF Send, SendTypes
    <3>2. CASE Send(m) /\ ~stopped
      <4>1. /\ sendPc' = [sendPc EXCEPT ![m] = "writing"]
            /\ writeLeft' = [writeLeft EXCEPT ![m] = Pieces]
            /\ sendOrder' = Append(sendOrder, m)
            /\ wire' = wire
        BY <3>2 DEF Send
      <4>2. QED
        BY <4>1 DEF SendTypes
    <3>3. CASE WriteSome(m)
      BY <3>3 DEF WriteSome, SendTypes
    <3>4. CASE WriteFails(m)
      BY <3>4 DEF WriteFails, SendTypes
    <3>5. QED
      BY <1>12, <3>1, <3>2, <3>3, <3>4
  <2>2. (StartTypes /\ ReadTypes /\ SubTypes)'
    BY <1>12 DEF Send, WriteSome, WriteFails, StartTypes, ReadTypes, SubTypes
  <2>3. QED
    BY <2>1, <2>2
<1>13. CASE UNCHANGED vars
  BY <1>13 DEF vars, StartTypes, ReadTypes, SubTypes, SendTypes
<1>14. CASE Internal
  <2>1. ASSUME NEW t \in Stoppers, StopStep(t) PROVE DataInv'
    BY <1>8, <1>9, <2>1 DEF StopStep
  <2>2. ASSUME NEW c \in Chains, HeadingAborted(c) PROVE DataInv'
    <3>1. OtherMagic \in Magics /\ 0 \in Sizes
      BY DEF Magics
    <3>2. QED
      BY <1>5, <2>2, <3>1, Zenon DEF HeadingAborted
  <2>3. ASSUME NEW c \in Chains, PayloadAborted(c) PROVE DataInv'
    BY <1>6, <2>3 DEF PayloadAborted
  <2>4. ASSUME NEW m \in Messages, WriteAborted(m) PROVE DataInv'
    BY <1>12, <2>4 DEF WriteAborted
  <2>6. ASSUME NEW c \in Chains, Load(c) PROVE DataInv'
    BY <1>6a, <2>6 DEF Load
  <2>5. QED
    BY <1>3, <1>4, <1>14, <2>1, <2>2, <2>3, <2>4, <2>6 DEF Internal
<1>15. CASE Environment
  <2>1. ASSUME NEW c \in Chains, HeadingArrives(c) PROVE DataInv'
    BY <1>5, <2>1 DEF HeadingArrives
  <2>2. ASSUME NEW c \in Chains, PayloadArrives(c) PROVE DataInv'
    BY <1>6, <2>2 DEF PayloadArrives
  <2>3. ASSUME NEW m \in Messages, WriteError(m) PROVE DataInv'
    BY <1>12, <2>3 DEF WriteError
  <2>4. ASSUME NEW h \in StopHandlers, SubscribeStop(h) PROVE DataInv'
    BY <1>10, <2>4, Zenon
  <2>5. ASSUME NEW h \in MessageHandlers, Subscribe(h) PROVE DataInv'
    BY <1>10, <2>5, Zenon
  <2>6. QED
    BY <1>1, <1>2, <1>7, <1>11, <1>12, <1>15, <2>1, <2>2, <2>3, <2>4, <2>5
    DEF Environment
<1>16. QED
  BY <1>13, <1>14, <1>15 DEF Next

LEMMA TypeInvStep == TypeInv /\ [Next]_vars => TypeInv'
BY BoolTypesStep, DataInvStep DEF TypeInv

(* Proxy's variables always have their types.                              *)
THEOREM TypeCorrect == Spec => []TypeOK
<1>1. Spec => []TypeInv
  BY TypeInvInit, TypeInvStep, PTL DEF Spec
<1>2. QED
  BY <1>1, PTL DEF TypeInv, BoolTypes, DataInv, StartTypes, ReadTypes, SubTypes,
                 SendTypes, TypeOK

-----------------------------------------------------------------------------
(* Every subscriber is notified exactly once.                              *)

LEMMA IInvInit == Init => IInv
BY TypeInvInit, ProxyAssumption
DEF IInv, Init, NotifyInv, StartInv, SubInv, ChainInv, LateInv, Handlers, Stoppers, Chains

(* A handler that subscribes to a stopped subscriber is notified at once  *)
(* and joins no list: the notification invariant is kept.                 *)
LEMMA NotifyOnSubscribe ==
    ASSUME NEW h \in Handlers, h \notin subscribed, subscribed \subseteq Handlers, NotifyInv,
           subscribed' = subscribed \cup {h}, msgSubs' = msgSubs, stopSubs' = stopSubs,
           notified'[h] = 1, \A g \in Handlers \ {h} : notified'[g] = notified[g]
    PROVE  NotifyInv'
<1>1. \A g \in Handlers : notified'[g] <= 1
  BY DEF NotifyInv
<1>2. (msgSubs \cup stopSubs \subseteq subscribed)'
  BY DEF NotifyInv
<1>3. \A g \in msgSubs' \cup stopSubs' : notified'[g] = 0
  BY DEF NotifyInv, Handlers
<1>4. \A g \in Handlers \ subscribed' : notified'[g] = 0
  BY DEF NotifyInv
<1>5. \A g \in subscribed' : notified'[g] = 1 \/ g \in msgSubs' \cup stopSubs'
  BY DEF NotifyInv
<1>6. QED
  BY <1>1, <1>2, <1>3, <1>4, <1>5 DEF NotifyInv

LEMMA IInvStep ==
    ASSUME ~Restart, ~StopDuringStart, IInv, [Next]_vars
    PROVE  IInv'
<1> USE ProxyAssumption DEF Chains, Stoppers, Handlers, StopSteps, startVars, readVars,
                           subVars, sendVars, dispVars
<1>0. TypeInv'
  BY TypeInvStep DEF IInv
<1> USE DEF TypeInv, BoolTypes, DataInv, StartTypes, ReadTypes, SubTypes, SendTypes
<1>1. CASE StartFailed
  <2>1. NotifyInv'
    BY <1>1 DEF IInv, StartFailed, OwnerMayStart, NotifyInv
  <2>2. StartInv'
    BY <1>1 DEF IInv, StartFailed, OwnerMayStart, StartInv
  <2>3. SubInv'
    BY <1>1 DEF IInv, StartFailed, OwnerMayStart, SubInv
  <2>4. ChainInv'
    BY <1>1 DEF IInv, StartFailed, OwnerMayStart, ChainInv
  <2>6. LateInv'
    BY <1>1 DEF IInv, StartFailed, OwnerMayStart, LateInv
  <2>5. QED
    BY <1>0, <2>1, <2>2, <2>3, <2>4, <2>6, Zenon DEF IInv
<1>2. CASE StartBegin
  <2>1. NotifyInv'
    BY <1>2 DEF IInv, StartBegin, OwnerMayStart, NotifyInv
  <2>2. StartInv'
    BY <1>2 DEF IInv, StartBegin, OwnerMayStart, StartInv
  <2>3. SubInv'
    BY <1>2 DEF IInv, StartBegin, OwnerMayStart, SubInv
  <2>4. ChainInv'
    BY <1>2 DEF IInv, StartBegin, OwnerMayStart, ChainInv
  <2>6. LateInv'
    BY <1>2 DEF IInv, StartBegin, OwnerMayStart, LateInv
  <2>5. QED
    BY <1>0, <2>1, <2>2, <2>3, <2>4, <2>6, Zenon DEF IInv
<1>3. CASE StartSubscribers
  <2>1. NotifyInv'
    BY <1>3 DEF IInv, StartSubscribers, NotifyInv
  <2>2. StartInv'
    BY <1>3 DEF IInv, StartSubscribers, StartInv
  <2>3. SubInv'
    BY <1>3 DEF IInv, StartSubscribers, SubInv
  <2>4. ChainInv'
    BY <1>3 DEF IInv, StartSubscribers, ChainInv
  <2>6. LateInv'
    BY <1>3 DEF IInv, StartSubscribers, LateInv, StartInv
  <2>5. QED
    BY <1>0, <2>1, <2>2, <2>3, <2>4, <2>6, Zenon DEF IInv
<1>4. CASE StartRead
  <2>1. NotifyInv'
    BY <1>4 DEF IInv, StartRead, NotifyInv
  <2>2. StartInv'
    BY <1>4 DEF IInv, StartRead, StartInv
  <2>3. SubInv'
    BY <1>4 DEF IInv, StartRead, SubInv, StartInv
  <2>4. ChainInv'
    BY <1>4 DEF IInv, StartRead, ChainInv, StartInv
  <2>6. LateInv'
    BY <1>4 DEF IInv, StartRead, LateInv, StartInv
  <2>5. QED
    BY <1>0, <2>1, <2>2, <2>3, <2>4, <2>6, Zenon DEF IInv
<1>5. ASSUME NEW c \in Chains, NEW ec \in BOOLEAN, NEW valid \in BOOLEAN,
             NEW magic \in Magics, NEW size \in Sizes,
             HandleReadHeading(c, ec, valid, magic, size)
      PROVE IInv'
  <2>1. NotifyInv'
    BY <1>5 DEF IInv, HandleReadHeading, BeginStop, NotifyInv
  <2>2. StartInv'
    BY <1>5 DEF IInv, HandleReadHeading, BeginStop, StartInv
  <2>3. SubInv'
    <3>1. stopPc[c] = "idle"
      BY <1>5 DEF IInv, HandleReadHeading, ChainInv
    <3>2. QED
      BY <1>5, <3>1 DEF IInv, HandleReadHeading, BeginStop, SubInv
  <2>4. ChainInv'
    BY <1>5 DEF IInv, HandleReadHeading, BeginStop, ChainInv
  <2>6. LateInv'
    BY <1>5 DEF IInv, HandleReadHeading, BeginStop, LateInv
  <2>5. QED
    BY <1>0, <2>1, <2>2, <2>3, <2>4, <2>6, Zenon DEF IInv
<1>6. ASSUME NEW c \in Chains, NEW ec \in BOOLEAN, NEW ok \in BOOLEAN,
             HandleReadPayload(c, ec, ok)
      PROVE IInv'
  <2>1. NotifyInv'
    BY <1>6 DEF IInv, HandleReadPayload, BeginStop, NotifyInv
  <2>2. StartInv'
    BY <1>6 DEF IInv, HandleReadPayload, BeginStop, StartInv
  <2>3. SubInv'
    <3>1. stopPc[c] = "idle"
      BY <1>6 DEF IInv, HandleReadPayload, ChainInv
    <3>2. QED
      BY <1>6, <3>1 DEF IInv, HandleReadPayload, BeginStop, SubInv
  <2>4. ChainInv'
    BY <1>6 DEF IInv, HandleReadPayload, BeginStop, ChainInv
  <2>6. LateInv'
    BY <1>6 DEF IInv, HandleReadPayload, BeginStop, LateInv
  <2>5. QED
    BY <1>0, <2>1, <2>2, <2>3, <2>4, <2>6, Zenon DEF IInv
<1>6a. ASSUME NEW c \in Chains, NEW parsed \in BOOLEAN, NEW consumed \in BOOLEAN,
              LoadPayload(c, parsed, consumed)
       PROVE IInv'
  <2>0. stopPc[c] = "idle"
    BY <1>6a DEF IInv, LoadPayload, ChainInv
  <2>1. NotifyInv'
    <3>1. CASE parsed /\ msgSubStopped
      <4>1. /\ notified' = Notify(msgSubs) /\ msgSubs' = {}
            /\ stopSubs' = stopSubs /\ subscribed' = subscribed
        BY <1>6a, <3>1 DEF LoadPayload, Relay
      <4>2. QED
        BY <4>1 DEF IInv, Notify, NotifyInv
    <3>2. CASE ~(parsed /\ msgSubStopped)
      <4>1. /\ notified' = notified /\ msgSubs' = msgSubs
            /\ stopSubs' = stopSubs /\ subscribed' = subscribed
        BY <1>6a, <3>2 DEF LoadPayload, Relay
      <4>2. QED
        BY <4>1 DEF IInv, NotifyInv
    <3>3. QED
      BY <3>1, <3>2
  <2>2. StartInv'
    BY <1>6a DEF IInv, LoadPayload, Relay, BeginStop, StartInv
  <2>3. SubInv'
    <3>1. msgSubs' \subseteq msgSubs
      BY <1>6a DEF LoadPayload, Relay
    <3>2. QED
      BY <1>6a, <2>0, <3>1 DEF IInv, LoadPayload, BeginStop, SubInv
  <2>4. ChainInv'
    BY <1>6a DEF IInv, LoadPayload, BeginStop, ChainInv
  <2>6. LateInv'
    <3>1. stopReturned => msgSubs = {}
      BY DEF IInv, LateInv
    <3>2. \A d \in dispatched' : ~d.late
      <4>1. \A d \in dispatched : ~d.late
        BY DEF IInv, LateInv
      <4>2. CASE parsed /\ msgSubs # {}
        <5>1. dispatched' = dispatched \cup {[exact |-> consumed, late |-> stopReturned]}
          BY <1>6a, <4>2 DEF LoadPayload, Relay
        <5>2. ~stopReturned
          BY <3>1, <4>2
        <5>3. QED
          BY <4>1, <5>1, <5>2
      <4>3. CASE ~(parsed /\ msgSubs # {})
        <5>1. dispatched' = dispatched
          BY <1>6a, <4>3 DEF LoadPayload, Relay
        <5>2. QED
          BY <4>1, <5>1
      <4>4. QED
        BY <4>2, <4>3
    <3>3. /\ msgSubStopped' = msgSubStopped /\ msgSubs' \subseteq msgSubs
          /\ stopReturned' = stopReturned /\ startPc' = startPc
      BY <1>6a DEF LoadPayload, Relay
    <3>4. \A t \in Stoppers : stopPc'[t] # "flag" => stopPc'[t] = stopPc[t]
      <4>1. CASE ~parsed \/ ~consumed
        <5>1. stopPc' = [stopPc EXCEPT ![c] = "flag"]
          BY <1>6a, <4>1 DEF LoadPayload, BeginStop
        <5>2. QED
          BY <5>1
      <4>2. CASE parsed /\ consumed
        <5>1. stopPc' = stopPc
          BY <1>6a, <4>2 DEF LoadPayload
        <5>2. QED
          BY <5>1
      <4>3. QED
        BY <4>1, <4>2
    <3>5. QED
      BY <3>2, <3>3, <3>4 DEF IInv, LateInv
  <2>5. QED
    BY <1>0, <2>1, <2>2, <2>3, <2>4, <2>6, Zenon DEF IInv
<1>7. ASSUME NEW t \in Externals, ExternalStop(t) PROVE IInv'
  <2>1. NotifyInv'
    BY <1>7 DEF IInv, ExternalStop, BeginStop, NotifyInv
  <2>2. StartInv'
    BY <1>7 DEF IInv, ExternalStop, BeginStop, StartInv
  <2>3. SubInv'
    BY <1>7 DEF IInv, ExternalStop, BeginStop, SubInv
  <2>4. ChainInv'
    <3>1. t \notin Chains
      OBVIOUS
    <3>2. QED
      BY <1>7, <3>1 DEF IInv, ExternalStop, BeginStop, ChainInv
  <2>6. LateInv'
    BY <1>7 DEF IInv, ExternalStop, BeginStop, LateInv
  <2>5. QED
    BY <1>0, <2>1, <2>2, <2>3, <2>4, <2>6, Zenon DEF IInv
<1>8. ASSUME NEW t \in Stoppers, StopFlag(t) PROVE IInv'
  <2>1. NotifyInv'
    BY <1>8 DEF IInv, StopFlag, NotifyInv
  <2>2. StartInv'
    BY <1>8 DEF IInv, StopFlag, StartInv
  <2>3. SubInv'
    BY <1>8 DEF IInv, StopFlag, SubInv
  <2>4. ChainInv'
    BY <1>8 DEF IInv, StopFlag, ChainInv
  <2>6. LateInv'
    BY <1>8 DEF IInv, StopFlag, LateInv
  <2>5. QED
    BY <1>0, <2>1, <2>2, <2>3, <2>4, <2>6, Zenon DEF IInv
<1>9. ASSUME NEW t \in Stoppers, StopMessages(t) PROVE IInv'
  <2>1. NotifyInv'
    BY <1>9 DEF IInv, StopMessages, NotifyInv
  <2>2. StartInv'
    BY <1>9 DEF IInv, StopMessages, StartInv
  <2>3. SubInv'
    BY <1>9 DEF IInv, StopMessages, SubInv
  <2>4. ChainInv'
    BY <1>9 DEF IInv, StopMessages, ChainInv
  <2>6. LateInv'
    BY <1>9 DEF IInv, StopMessages, LateInv
  <2>5. QED
    BY <1>0, <2>1, <2>2, <2>3, <2>4, <2>6, Zenon DEF IInv
<1>10. ASSUME NEW t \in Stoppers, BroadcastStopped(t) PROVE IInv'
  <2>1. NotifyInv'
    BY <1>10 DEF IInv, BroadcastStopped, Notify, NotifyInv
  <2>2. StartInv'
    BY <1>10 DEF IInv, BroadcastStopped, Notify, StartInv
  <2>3. SubInv'
    BY <1>10 DEF IInv, BroadcastStopped, Notify, SubInv
  <2>4. ChainInv'
    BY <1>10 DEF IInv, BroadcastStopped, Notify, ChainInv
  <2>6. LateInv'
    BY <1>10 DEF IInv, BroadcastStopped, Notify, LateInv
  <2>5. QED
    BY <1>0, <2>1, <2>2, <2>3, <2>4, <2>6, Zenon DEF IInv
<1>11. ASSUME NEW t \in Stoppers, StopSubscriber(t) PROVE IInv'
  <2>1. NotifyInv'
    BY <1>11 DEF IInv, StopSubscriber, NotifyInv
  <2>2. StartInv'
    BY <1>11 DEF IInv, StopSubscriber, StartInv
  <2>3. SubInv'
    BY <1>11 DEF IInv, StopSubscriber, SubInv
  <2>4. ChainInv'
    BY <1>11 DEF IInv, StopSubscriber, ChainInv
  <2>6. LateInv'
    BY <1>11 DEF IInv, StopSubscriber, LateInv
  <2>5. QED
    BY <1>0, <2>1, <2>2, <2>3, <2>4, <2>6, Zenon DEF IInv
<1>12. ASSUME NEW t \in Stoppers, RelayStop(t) PROVE IInv'
  <2>1. NotifyInv'
    BY <1>12 DEF IInv, RelayStop, Notify, NotifyInv
  <2>2. StartInv'
    BY <1>12 DEF IInv, RelayStop, Notify, StartInv
  <2>3. SubInv'
    BY <1>12 DEF IInv, RelayStop, Notify, SubInv
  <2>4. ChainInv'
    BY <1>12 DEF IInv, RelayStop, Notify, ChainInv
  <2>6. LateInv'
    BY <1>12 DEF IInv, RelayStop, Notify, LateInv
  <2>5. QED
    BY <1>0, <2>1, <2>2, <2>3, <2>4, <2>6, Zenon DEF IInv
<1>13. ASSUME NEW t \in Stoppers, CloseSocket(t) PROVE IInv'
  <2>1. NotifyInv'
    BY <1>13 DEF IInv, CloseSocket, NotifyInv
  <2>2. StartInv'
    BY <1>13 DEF IInv, CloseSocket, StartInv
  <2>3. SubInv'
    BY <1>13 DEF IInv, CloseSocket, SubInv
  <2>4. ChainInv'
    BY <1>13 DEF IInv, CloseSocket, ChainInv
  <2>6. LateInv'
    <3>1. msgSubStopped /\ msgSubs = {} /\ startPc = "done"
      BY <1>13 DEF IInv, CloseSocket, LateInv, StartInv
    <3>2. QED
      BY <1>13, <3>1 DEF IInv, CloseSocket, LateInv
  <2>5. QED
    BY <1>0, <2>1, <2>2, <2>3, <2>4, <2>6, Zenon DEF IInv
<1>14. ASSUME NEW h \in StopHandlers, SubscribeStop(h) PROVE IInv'
  <2>1. NotifyInv'
    <3>1. h \notin MessageHandlers /\ notified[h] = 0
      BY <1>14 DEF IInv, SubscribeStop, NotifyInv
    <3>2. CASE stopSubStopped
      <4>1. /\ notified'[h] = 1
            /\ \A g \in Handlers \ {h} : notified'[g] = notified[g]
        <5>1. notified' = Notify({h})
          BY <1>14, <3>2 DEF IInv, SubscribeStop
        <5>2. QED
          BY <3>1, <5>1 DEF IInv, Notify
      <4>2. QED
        <5>1. /\ h \in Handlers /\ h \notin subscribed
              /\ subscribed' = subscribed \cup {h}
              /\ msgSubs' = msgSubs /\ stopSubs' = stopSubs
          BY <1>14, <3>2 DEF SubscribeStop
        <5>2. QED
          BY <4>1, <5>1, NotifyOnSubscribe DEF IInv, TypeInv, DataInv, SubTypes
    <3>3. CASE ~stopSubStopped
      BY <1>14, <3>1, <3>3 DEF IInv, SubscribeStop, NotifyInv
    <3>4. QED
      BY <3>2, <3>3
  <2>2. StartInv'
    BY <1>14 DEF IInv, SubscribeStop, Notify, StartInv
  <2>3. SubInv'
    BY <1>14 DEF IInv, SubscribeStop, Notify, SubInv
  <2>4. ChainInv'
    BY <1>14 DEF IInv, SubscribeStop, Notify, ChainInv
  <2>6. LateInv'
    BY <1>14 DEF IInv, SubscribeStop, Notify, LateInv
  <2>5. QED
    BY <1>0, <2>1, <2>2, <2>3, <2>4, <2>6, Zenon DEF IInv
<1>15. ASSUME NEW h \in MessageHandlers, Subscribe(h) PROVE IInv'
  <2>1. NotifyInv'
    <3>1. h \notin StopHandlers /\ notified[h] = 0
      BY <1>15 DEF IInv, Subscribe, NotifyInv
    <3>2. CASE msgSubStopped
      <4>1. /\ notified'[h] = 1
            /\ \A g \in Handlers \ {h} : notified'[g] = notified[g]
        <5>1. notified' = Notify({h})
          BY <1>15, <3>2 DEF IInv, Subscribe
        <5>2. QED
          BY <3>1, <5>1 DEF IInv, Notify
      <4>2. QED
        <5>1. /\ h \in Handlers /\ h \notin subscribed
              /\ subscribed' = subscribed \cup {h}
              /\ msgSubs' = msgSubs /\ stopSubs' = stopSubs
          BY <1>15, <3>2 DEF Subscribe
        <5>2. QED
          BY <4>1, <5>1, NotifyOnSubscribe DEF IInv, TypeInv, DataInv, SubTypes
    <3>3. CASE ~msgSubStopped
      BY <1>15, <3>1, <3>3 DEF IInv, Subscribe, NotifyInv
    <3>4. QED
      BY <3>2, <3>3
  <2>2. StartInv'
    BY <1>15 DEF IInv, Subscribe, Notify, StartInv
  <2>3. SubInv'
    BY <1>15 DEF IInv, Subscribe, Notify, SubInv
  <2>4. ChainInv'
    BY <1>15 DEF IInv, Subscribe, Notify, ChainInv
  <2>6. LateInv'
    BY <1>15 DEF IInv, Subscribe, Notify, LateInv
  <2>5. QED
    BY <1>0, <2>1, <2>2, <2>3, <2>4, <2>6, Zenon DEF IInv
<1>16. ASSUME NEW v \in Versions, SetNegotiatedVersion(v) PROVE IInv'
  <2>1. NotifyInv'
    BY <1>16 DEF IInv, SetNegotiatedVersion, NotifyInv
  <2>2. StartInv'
    BY <1>16 DEF IInv, SetNegotiatedVersion, StartInv
  <2>3. SubInv'
    BY <1>16 DEF IInv, SetNegotiatedVersion, SubInv
  <2>4. ChainInv'
    BY <1>16 DEF IInv, SetNegotiatedVersion, ChainInv
  <2>6. LateInv'
    BY <1>16 DEF IInv, SetNegotiatedVersion, LateInv
  <2>5. QED
    BY <1>0, <2>1, <2>2, <2>3, <2>4, <2>6, Zenon DEF IInv
<1>17. ASSUME NEW m \in Messages, Send(m) \/ WriteSome(m) \/ WriteFails(m) PROVE IInv'
  <2>0. UNCHANGED <<stopped, startVars, readVars, stopPc, subVars, dispVars>>
    BY <1>17 DEF Send, WriteSome, WriteFails
  <2>1. NotifyInv'
    BY <2>0 DEF IInv, NotifyInv, subVars
  <2>2. StartInv'
    BY <2>0 DEF IInv, StartInv, startVars, readVars, subVars
  <2>3. SubInv'
    BY <2>0 DEF IInv, SubInv, startVars, subVars
  <2>4. ChainInv'
    BY <2>0 DEF IInv, ChainInv, readVars
  <2>6. LateInv'
    BY <2>0 DEF IInv, LateInv, startVars, subVars, dispVars
  <2>5. QED
    BY <1>0, <2>1, <2>2, <2>3, <2>4, <2>6, Zenon DEF IInv
<1>18. CASE UNCHANGED vars
  <2>1. NotifyInv'
    BY <1>18 DEF IInv, vars, NotifyInv
  <2>2. StartInv'
    BY <1>18 DEF IInv, vars, StartInv
  <2>3. SubInv'
    BY <1>18 DEF IInv, vars, SubInv
  <2>4. ChainInv'
    BY <1>18 DEF IInv, vars, ChainInv
  <2>6. LateInv'
    BY <1>18 DEF IInv, vars, LateInv
  <2>5. QED
    BY <1>0, <2>1, <2>2, <2>3, <2>4, <2>6, Zenon DEF IInv
<1>19. QED
  <2>1. ASSUME NEW t \in Stoppers, StopStep(t) PROVE IInv'
    BY <1>8, <1>9, <1>10, <1>11, <1>12, <1>13, <2>1 DEF IInv, StopStep
  <2>2. ASSUME NEW c \in Chains, HeadingArrives(c) \/ HeadingAborted(c) PROVE IInv'
    <3>1. CASE HeadingArrives(c)
      <4>1. PICK ec \in BOOLEAN, valid \in BOOLEAN, magic \in Magics, size \in Sizes :
                  HandleReadHeading(c, ec, valid, magic, size)
        BY <3>1 DEF IInv, HeadingArrives
      <4>2. QED
        BY <1>5, <4>1
    <3>2. CASE HeadingAborted(c)
      <4>1. OtherMagic \in Magics /\ 0 \in Sizes
        BY DEF IInv, Magics, Sizes, Capacity
      <4>2. HandleReadHeading(c, TRUE, FALSE, OtherMagic, 0)
        BY <3>2 DEF IInv, HeadingAborted
      <4>3. QED
        BY <1>5, <4>1, <4>2
    <3>3. QED
      BY <2>2, <3>1, <3>2
  <2>3. ASSUME NEW c \in Chains, PayloadArrives(c) \/ PayloadAborted(c) PROVE IInv'
    <3>1. CASE PayloadArrives(c)
      <4>1. PICK ec \in BOOLEAN, ok \in BOOLEAN : HandleReadPayload(c, ec, ok)
        BY <3>1 DEF IInv, PayloadArrives
      <4>2. QED
        BY <1>6, <4>1
    <3>2. CASE PayloadAborted(c)
      BY <1>6, <3>2 DEF IInv, PayloadAborted
    <3>3. QED
      BY <2>3, <3>1, <3>2
  <2>4. ASSUME NEW m \in Messages, WriteError(m) \/ WriteAborted(m) PROVE IInv'
    BY <1>17, <2>4 DEF IInv, WriteError, WriteAborted
  <2>8. ASSUME NEW c \in Chains, Load(c) PROVE IInv'
    <3>1. PICK parsed \in BOOLEAN, consumed \in BOOLEAN : LoadPayload(c, parsed, consumed)
      BY <2>8 DEF Load
    <3>2. QED
      BY <1>6a, <3>1
  <2>5. CASE Internal
    BY <1>3, <1>4, <2>1, <2>2, <2>3, <2>4, <2>5, <2>8 DEF IInv, Internal
  <2>6. CASE Environment
    BY <1>1, <1>2, <1>7, <1>14, <1>15, <1>16, <1>17, <2>2, <2>3, <2>4, <2>6
    DEF Environment
  <2>7. QED
    BY <1>18, <2>5, <2>6 DEF IInv, Next

LEMMA IInvNotifies == IInv => StopNotifiesEverySubscriber
<1> SUFFICES ASSUME IInv PROVE StopNotifiesEverySubscriber
  OBVIOUS
<1>1. \A h \in Handlers : notified[h] <= 1
  BY DEF IInv, NotifyInv
<1>2. ASSUME stopped, Quiescent PROVE \A h \in subscribed : notified[h] = 1
  <2>1. /\ \A t \in Stoppers : stopPc[t] = "idle"
        /\ startPc \in {"none", "done"}
    BY <1>2 DEF Quiescent
  <2>2. msgSubStopped
    <3>1. msgSubStopped \/ \E t \in Stoppers : stopPc[t] = "msgStop"
      BY <1>2, <2>1 DEF IInv, SubInv
    <3>2. QED
      BY <2>1, <3>1
  <2>3. stopSubStopped
    <3>1. stopSubStopped \/ \E t \in Stoppers : stopPc[t] \in {"msgStop", "broadcast", "subStop"}
      BY <1>2, <2>1 DEF IInv, SubInv
    <3>2. QED
      BY <2>1, <3>1
  <2>4. msgSubs = {} /\ stopSubs = {}
    BY <2>1, <2>2, <2>3 DEF IInv, SubInv
  <2>5. QED
    BY <2>4 DEF IInv, NotifyInv
<1>3. QED
  BY <1>1, <1>2 DEF StopNotifiesEverySubscriber

(* stop(ec) notifies every stop and message subscriber exactly once, for   *)
(* any number of handlers and of concurrent stop calls, provided the owner *)
(* never restarts a stopped channel and no thread calls stop before start  *)
(* returned (proxy.cpp 83-100 and 316-335; the runs proxy_start_race and   *)
(* proxy_restart show what happens otherwise).                             *)
THEOREM NotifiesEverySubscriber ==
    ASSUME ~Restart, ~StopDuringStart
    PROVE  Spec => []StopNotifiesEverySubscriber
<1>1. IInv /\ [Next]_vars => IInv'
  BY IInvStep
<1>2. Spec => []IInv
  BY IInvInit, <1>1, PTL DEF Spec
<1>3. QED
  BY <1>2, IInvNotifies, PTL


(* A read handler that passed its stopped() test before a stop ran to its *)
(* end relays to nobody: no message reaches a handler after a stop call   *)
(* returned (proxy.cpp 203-235 against 323-324), for any number of        *)
(* handlers, chains and concurrent stop calls, provided the owner never   *)
(* restarts the channel and no thread calls stop before start returned.   *)
THEOREM NoLateDispatch ==
    ASSUME ~Restart, ~StopDuringStart
    PROVE  Spec => []NoDispatchAfterStop
<1>1. IInv /\ [Next]_vars => IInv'
  BY IInvStep
<1>2. Spec => []IInv
  BY IInvInit, <1>1, PTL DEF Spec
<1>3. IInv => NoDispatchAfterStop
  BY DEF IInv, LateInv, NoDispatchAfterStop
<1>4. QED
  BY <1>2, <1>3, PTL

=============================================================================
