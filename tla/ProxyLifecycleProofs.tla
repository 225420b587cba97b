------------------------- MODULE ProxyLifecycleProofs -------------------------
(***************************************************************************)
(* Proof that Proxy implements the channel lifecycle of ProxyAbstract,     *)
(* under the mapping Life of Proxy, for every value of the constants, when *)
(* the owner does not restart the channel and no thread calls stop before  *)
(* start returned.  It rests on the invariant IInv of ProxyProofs and on   *)
(* RunInv below.                                                           *)
(***************************************************************************)
EXTENDS ProxyProofs

(* While the channel runs, neither subscriber is stopped: start starts     *)
(* both before it issues the first read, and stop sets stopped_ before it  *)
(* stops either.  A stop call past its first step has set stopped_, and   *)
(* nothing clears it again.                                                *)
RunInv ==
    /\ startPc = "read" => ~msgSubStopped /\ ~stopSubStopped
    /\ startPc = "done" /\ ~stopped => ~msgSubStopped /\ ~stopSubStopped
    /\ \A t \in Stoppers : stopPc[t] \notin {"idle", "flag"} => stopped

-----------------------------------------------------------------------------
(* Notify(S) gives each handler of S its first notification when none of  *)
(* them has had one: it is the abstract Terminate(S).                      *)
LEMMA NotifyFresh ==
    ASSUME notified \in [Handlers -> Nat],
           NEW S \in SUBSET Handlers,
           \A h \in S : notified[h] = 0
    PROVE  Notify(S) = [h \in Handlers |-> IF h \in S THEN 1 ELSE notified[h]]
BY DEF Notify

(* Next, flattened into the handlers of the code with their inputs.       *)
LEMMA NextSplit ==
    ASSUME [Next]_vars
    PROVE  \/ StartFailed \/ StartBegin \/ StartSubscribers \/ StartRead
           \/ \E c \in Chains, ec, valid \in BOOLEAN, magic \in Magics, size \in Sizes :
                 HandleReadHeading(c, ec, valid, magic, size)
           \/ \E c \in Chains, ec, ok \in BOOLEAN : HandleReadPayload(c, ec, ok)
           \/ \E c \in Chains, parsed, consumed \in BOOLEAN :
                 LoadPayload(c, parsed, consumed)
           \/ \E t \in Externals : ExternalStop(t)
           \/ \E t \in Stoppers : StopFlag(t) \/ StopMessages(t) \/ BroadcastStopped(t)
           \/ \E t \in Stoppers : StopSubscriber(t) \/ RelayStop(t) \/ CloseSocket(t)
           \/ \E h \in StopHandlers : SubscribeStop(h)
           \/ \E h \in MessageHandlers : Subscribe(h)
           \/ \E v \in Versions : SetNegotiatedVersion(v)
           \/ \E m \in Messages : Send(m) \/ WriteSome(m) \/ WriteFails(m)
           \/ UNCHANGED vars
<1>1. OtherMagic \in Magics /\ 0 \in Sizes
  BY ProxyAssumption DEF Magics, Sizes, Capacity
<1>2. CASE Internal
  BY <1>1, <1>2, Zenon
  DEF Internal, StopStep, HeadingAborted, PayloadAborted, Load, WriteAborted
<1>3. CASE Environment
  BY <1>3, Zenon DEF Environment, HeadingArrives, PayloadArrives, WriteError
<1>4. QED
  BY <1>2, <1>3 DEF Next

LEMMA LifeInit == Init => Lifecycle!Init /\ RunInv
<1> SUFFICES ASSUME Init PROVE Lifecycle!Init /\ RunInv
  OBVIOUS
<1>1. Life = "new"
  BY DEF Init, Life
<1>2. Lifecycle!Init
  BY <1>1 DEF Init, Lifecycle!Init
<1>3. RunInv
  BY DEF Init, RunInv
<1>4. QED
  BY <1>2, <1>3


(* A step of Proxy preserves RunInv and is a step of the lifecycle, or     *)
(* leaves the phase, the subscriptions and the notifications alone.        *)
LEMMA LifeStep ==
    ASSUME ~Restart, ~StopDuringStart, IInv, RunInv, [Next]_vars
    PROVE  RunInv' /\ [Lifecycle!Next]_Lifecycle!pvars
<1> USE ProxyAssumption DEF Chains, Stoppers, Handlers, StopSteps, startVars, readVars,
                           subVars, sendVars, dispVars
<1>0. /\ TypeInv /\ NotifyInv /\ StartInv
      /\ startPc \in {"none", "subscribers", "read", "done"}
  BY DEF IInv, TypeInv, DataInv, StartTypes
<1>1. CASE StartFailed
  <2>1. RunInv'
    BY <1>1 DEF StartFailed, RunInv
  <2>2. UNCHANGED Lifecycle!pvars
    BY <1>1 DEF StartFailed, Life, Lifecycle!pvars
  <2>3. QED
    BY <2>1, <2>2
<1>2. CASE StartBegin
  <2>0. startPc = "none" /\ \A t \in Stoppers : stopPc[t] = "idle"
    BY <1>0, <1>2 DEF StartBegin, OwnerMayStart, StartInv
  <2>1. RunInv'
    BY <1>2, <2>0 DEF StartBegin, RunInv
  <2>2. Lifecycle!Begin
    BY <1>2, <2>0 DEF StartBegin, Life, Lifecycle!Begin
  <2>3. QED
    BY <2>1, <2>2 DEF Lifecycle!Next
<1>3. CASE StartSubscribers
  <2>1. RunInv'
    BY <1>3 DEF StartSubscribers, RunInv
  <2>2. UNCHANGED Lifecycle!pvars
    BY <1>3 DEF StartSubscribers, Life, Lifecycle!pvars
  <2>3. QED
    BY <2>1, <2>2
<1>4. CASE StartRead
  <2>0. ~stopped
    BY <1>0, <1>4 DEF StartRead, StartInv
  <2>1. RunInv'
    BY <1>4 DEF StartRead, RunInv
  <2>2. Lifecycle!Started
    BY <1>4, <2>0 DEF StartRead, Life, Lifecycle!Started
  <2>3. QED
    BY <2>1, <2>2 DEF Lifecycle!Next
<1>5. ASSUME NEW c \in Chains, NEW ec \in BOOLEAN, NEW valid \in BOOLEAN,
             NEW magic \in Magics, NEW size \in Sizes,
             HandleReadHeading(c, ec, valid, magic, size)
      PROVE  RunInv' /\ [Lifecycle!Next]_Lifecycle!pvars
  <2>1. RunInv'
    BY <1>0, <1>5 DEF HandleReadHeading, BeginStop, RunInv, TypeInv, DataInv, ReadTypes
  <2>2. UNCHANGED Lifecycle!pvars
    BY <1>5 DEF HandleReadHeading, Life, Lifecycle!pvars
  <2>3. QED
    BY <2>1, <2>2
<1>6. ASSUME NEW c \in Chains, NEW ec \in BOOLEAN, NEW ok \in BOOLEAN,
             HandleReadPayload(c, ec, ok)
      PROVE  RunInv' /\ [Lifecycle!Next]_Lifecycle!pvars
  <2>1. RunInv'
    BY <1>0, <1>6 DEF HandleReadPayload, BeginStop, RunInv, TypeInv, DataInv, ReadTypes
  <2>2. UNCHANGED Lifecycle!pvars
    BY <1>6 DEF HandleReadPayload, Life, Lifecycle!pvars
  <2>3. QED
    BY <2>1, <2>2

<1>7. ASSUME NEW c \in Chains, NEW parsed \in BOOLEAN, NEW consumed \in BOOLEAN,
             LoadPayload(c, parsed, consumed)
      PROVE  RunInv' /\ [Lifecycle!Next]_Lifecycle!pvars
  <2>1. RunInv'
    BY <1>0, <1>7 DEF LoadPayload, BeginStop, RunInv, TypeInv, DataInv, ReadTypes
  <2>2. CASE parsed /\ msgSubStopped
    <3>1. startPc = "done"
      BY <1>0, <1>7 DEF LoadPayload, StartInv
    <3>2. stopped
      BY <3>1, <2>2 DEF RunInv
    <3>3. /\ msgSubs \in SUBSET Handlers
          /\ msgSubs \subseteq subscribed
          /\ \A h \in msgSubs : notified[h] = 0
      BY <1>0 DEF TypeInv, DataInv, SubTypes, NotifyInv
    <3>4. notified' = Notify(msgSubs) /\ UNCHANGED <<startPc, stopped, subscribed>>
      BY <1>7, <2>2 DEF LoadPayload, Relay
    <3>5. Notify(msgSubs) = [h \in Handlers |-> IF h \in msgSubs THEN 1 ELSE notified[h]]
      BY <1>0, <3>3, NotifyFresh DEF TypeInv, DataInv, SubTypes
    <3>6. Lifecycle!Release(msgSubs)
      BY <3>1, <3>2, <3>3, <3>4, <3>5 DEF Life, Lifecycle!Release, Lifecycle!Terminate
    <3>7. QED
      BY <2>1, <3>3, <3>6 DEF Lifecycle!Next
  <2>3. CASE ~(parsed /\ msgSubStopped)
    <3>1. UNCHANGED Lifecycle!pvars
      BY <1>7, <2>3 DEF LoadPayload, Relay, Life, Lifecycle!pvars
    <3>2. QED
      BY <2>1, <3>1
  <2>4. QED
    BY <2>2, <2>3
<1>8. ASSUME NEW t \in Externals, ExternalStop(t)
      PROVE  RunInv' /\ [Lifecycle!Next]_Lifecycle!pvars
  <2>1. RunInv'
    BY <1>0, <1>8 DEF ExternalStop, BeginStop, RunInv
  <2>2. UNCHANGED Lifecycle!pvars
    BY <1>8 DEF ExternalStop, Life, Lifecycle!pvars
  <2>3. QED
    BY <2>1, <2>2
<1>9. ASSUME NEW t \in Stoppers, StopFlag(t)
      PROVE  RunInv' /\ [Lifecycle!Next]_Lifecycle!pvars
  <2>0. startPc = "done"
    BY <1>0, <1>9 DEF StopFlag, StartInv
  <2>1. RunInv'
    BY <1>0, <1>9 DEF StopFlag, RunInv
  <2>2. CASE stopped
    <3>1. UNCHANGED Lifecycle!pvars
      BY <1>9, <2>2 DEF StopFlag, Life, Lifecycle!pvars
    <3>2. QED
      BY <2>1, <3>1
  <2>3. CASE ~stopped
    <3>1. Lifecycle!Halt
      BY <1>9, <2>0, <2>3 DEF StopFlag, Life, Lifecycle!Halt
    <3>2. QED
      BY <2>1, <3>1 DEF Lifecycle!Next
  <2>4. QED
    BY <2>2, <2>3
<1>10. ASSUME NEW t \in Stoppers, StopMessages(t) \/ StopSubscriber(t) \/ CloseSocket(t)
       PROVE  RunInv' /\ [Lifecycle!Next]_Lifecycle!pvars
  <2>0. startPc = "done" /\ stopped
    BY <1>0, <1>10 DEF StopMessages, StopSubscriber, CloseSocket, StartInv, RunInv
  <2>1. RunInv'
    BY <1>0, <1>10, <2>0 DEF StopMessages, StopSubscriber, CloseSocket, RunInv
  <2>2. UNCHANGED <<stopped, startPc, subscribed, notified>>
    BY <1>10 DEF StopMessages, StopSubscriber, CloseSocket
  <2>4. UNCHANGED Lifecycle!pvars
    BY <2>2 DEF Life, Lifecycle!pvars
  <2>3. QED
    BY <2>1, <2>4
<1>11. ASSUME NEW t \in Stoppers, BroadcastStopped(t)
       PROVE  RunInv' /\ [Lifecycle!Next]_Lifecycle!pvars
  <2>0. startPc = "done" /\ stopped
    BY <1>0, <1>11 DEF BroadcastStopped, StartInv, RunInv
  <2>1. RunInv'
    BY <1>0, <1>11, <2>0 DEF BroadcastStopped, RunInv
  <2>2. /\ msgSubs \in SUBSET Handlers
        /\ msgSubs \subseteq subscribed
        /\ \A h \in msgSubs : notified[h] = 0
    BY <1>0 DEF TypeInv, DataInv, SubTypes, NotifyInv
  <2>3. Notify(msgSubs) = [h \in Handlers |-> IF h \in msgSubs THEN 1 ELSE notified[h]]
    BY <1>0, <2>2, NotifyFresh DEF TypeInv, DataInv, SubTypes
  <2>4. Lifecycle!Release(msgSubs)
    BY <1>11, <2>0, <2>2, <2>3
    DEF BroadcastStopped, Life, Lifecycle!Release, Lifecycle!Terminate
  <2>5. QED
    BY <2>1, <2>2, <2>4 DEF Lifecycle!Next
<1>12. ASSUME NEW t \in Stoppers, RelayStop(t)
       PROVE  RunInv' /\ [Lifecycle!Next]_Lifecycle!pvars
  <2>0. startPc = "done" /\ stopped
    BY <1>0, <1>12 DEF RelayStop, StartInv, RunInv
  <2>1. RunInv'
    BY <1>0, <1>12, <2>0 DEF RelayStop, RunInv
  <2>2. /\ stopSubs \in SUBSET Handlers
        /\ stopSubs \subseteq subscribed
        /\ \A h \in stopSubs : notified[h] = 0
    BY <1>0 DEF TypeInv, DataInv, SubTypes, NotifyInv
  <2>3. Notify(stopSubs) = [h \in Handlers |-> IF h \in stopSubs THEN 1 ELSE notified[h]]
    BY <1>0, <2>2, NotifyFresh DEF TypeInv, DataInv, SubTypes
  <2>4. Lifecycle!Release(stopSubs)
    BY <1>12, <2>0, <2>2, <2>3 DEF RelayStop, Life, Lifecycle!Release, Lifecycle!Terminate
  <2>5. QED
    BY <2>1, <2>2, <2>4 DEF Lifecycle!Next

<1>13. ASSUME NEW h \in StopHandlers, SubscribeStop(h)
       PROVE  RunInv' /\ [Lifecycle!Next]_Lifecycle!pvars
  <2>1. RunInv'
    BY <1>13 DEF SubscribeStop, RunInv
  <2>2. CASE stopSubStopped
    <3>1. Life # "running"
      BY <1>0, <2>2 DEF Life, RunInv
    <3>2. notified[h] = 0
      BY <1>0, <1>13 DEF NotifyInv, SubscribeStop
    <3>3. Notify({h}) = [g \in Handlers |-> IF g \in {h} THEN 1 ELSE notified[g]]
      BY <1>0, <3>2, NotifyFresh DEF TypeInv, DataInv, SubTypes
    <3>4. Lifecycle!JoinStopped(h)
      BY <1>13, <2>2, <3>1, <3>3 DEF SubscribeStop, Life, Lifecycle!JoinStopped,
                                     Lifecycle!Terminate
    <3>5. QED
      BY <2>1, <3>4 DEF Lifecycle!Next
  <2>3. CASE ~stopSubStopped
    <3>1. Lifecycle!Join(h)
      BY <1>13, <2>3 DEF SubscribeStop, Life, Lifecycle!Join
    <3>2. QED
      BY <2>1, <3>1 DEF Lifecycle!Next
  <2>4. QED
    BY <2>2, <2>3
<1>14. ASSUME NEW h \in MessageHandlers, Subscribe(h)
       PROVE  RunInv' /\ [Lifecycle!Next]_Lifecycle!pvars
  <2>1. RunInv'
    BY <1>14 DEF Subscribe, RunInv
  <2>2. CASE msgSubStopped
    <3>1. Life # "running"
      BY <1>0, <2>2 DEF Life, RunInv
    <3>2. notified[h] = 0
      BY <1>0, <1>14 DEF NotifyInv, Subscribe
    <3>3. Notify({h}) = [g \in Handlers |-> IF g \in {h} THEN 1 ELSE notified[g]]
      BY <1>0, <3>2, NotifyFresh DEF TypeInv, DataInv, SubTypes
    <3>4. Lifecycle!JoinStopped(h)
      BY <1>14, <2>2, <3>1, <3>3 DEF Subscribe, Life, Lifecycle!JoinStopped,
                                     Lifecycle!Terminate
    <3>5. QED
      BY <2>1, <3>4 DEF Lifecycle!Next
  <2>3. CASE ~msgSubStopped
    <3>1. Lifecycle!Join(h)
      BY <1>14, <2>3 DEF Subscribe, Life, Lifecycle!Join
    <3>2. QED
      BY <2>1, <3>1 DEF Lifecycle!Next
  <2>4. QED
    BY <2>2, <2>3
<1>15. ASSUME NEW v \in Versions, SetNegotiatedVersion(v)
       PROVE  RunInv' /\ [Lifecycle!Next]_Lifecycle!pvars
  <2>1. RunInv'
    BY <1>15 DEF SetNegotiatedVersion, RunInv
  <2>2. UNCHANGED Lifecycle!pvars
    BY <1>15 DEF SetNegotiatedVersion, Life, Lifecycle!pvars
  <2>3. QED
    BY <2>1, <2>2
<1>16. ASSUME NEW m \in Messages, Send(m) \/ WriteSome(m) \/ WriteFails(m)
       PROVE  RunInv' /\ [Lifecycle!Next]_Lifecycle!pvars
  <2>0. UNCHANGED <<stopped, startPc, stopPc, msgSubStopped, stopSubStopped,
                    subscribed, notified>>
    BY <1>16 DEF Send, WriteSome, WriteFails
  <2>1. RunInv'
    BY <2>0 DEF RunInv
  <2>2. UNCHANGED Lifecycle!pvars
    BY <2>0 DEF Life, Lifecycle!pvars
  <2>3. QED
    BY <2>1, <2>2
<1>17. CASE UNCHANGED vars
  <2>1. RunInv'
    BY <1>17 DEF vars, RunInv
  <2>2. UNCHANGED Lifecycle!pvars
    BY <1>17 DEF vars, Life, Lifecycle!pvars
  <2>3. QED
    BY <2>1, <2>2
<1>18. QED
  BY NextSplit, <1>1, <1>2, <1>3, <1>4, <1>5, <1>6, <1>7, <1>8, <1>9, <1>10,
     <1>11, <1>12, <1>13, <1>14, <1>15, <1>16, <1>17


(* The proxy implements the channel lifecycle (spec 4.1): it is started    *)
(* once and stopped for good, each stop and message handler gets at most   *)
(* one terminal notification, only after it subscribed, and none while the *)
(* channel runs, for any number of handlers, chains and concurrent stop   *)
(* calls (proxy.cpp 83-108, 316-335 and proxy.hpp 72-77), provided the     *)
(* owner never restarts a stopped channel and no thread calls stop before  *)
(* start returned.                                                         *)
THEOREM LifecycleRefinement ==
    ASSUME ~Restart, ~StopDuringStart
    PROVE  Spec => RefinesLifecycle
<1>1. Init => IInv /\ RunInv /\ Lifecycle!Init
  BY IInvInit, LifeInit
<1>2. IInv /\ RunInv /\ [Next]_vars => (IInv /\ RunInv)'
  BY IInvStep, LifeStep
<1>3. IInv /\ RunInv /\ [Next]_vars => [Lifecycle!Next]_Lifecycle!pvars
  BY LifeStep
<1>4. QED
  BY <1>1, <1>2, <1>3, PTL DEF Spec, RefinesLifecycle, Lifecycle!Spec

=============================================================================
