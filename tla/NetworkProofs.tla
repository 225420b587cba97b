--------------------------- MODULE NetworkProofs ---------------------------
(***************************************************************************)
(* Proofs about Network: for every set of channels, authorities, nonces    *)
(* and stopping threads, a stopped channel is a member of the registry     *)
(* only while its removal is under way.                                    *)
(***************************************************************************)
EXTENDS Network, TLAPS

(* Why a stopped member is about to leave.  Only a session's store adds a  *)
(* member; the session's handler is held only by a running channel and     *)
(* only once the session subscribed; a handler is invoked only by a        *)
(* stopped channel; and a subscribed member holds its handler or has had   *)
(* it invoked.  A channel whose session has not started it is new.         *)
ChanInv ==
    \A c \in Channels :
       /\ c \in members => sess[c] \in {"stored", "subscribed"}
       /\ stopHeld[c] => chan[c] = "running" /\ sess[c] = "subscribed"
       /\ removing[c] => chan[c] = "stopped"
       /\ sess[c] = "subscribed" /\ c \in members => stopHeld[c] \/ removing[c]
       /\ sess[c] = "idle" => chan[c] = "new"
       /\ sess[c] # "idle" => chan[c] # "new"

NInv == TypeOK /\ ChanInv
-----------------------------------------------------------------------------
LEMMA NInvInit == Init => NInv
<1> SUFFICES ASSUME Init PROVE NInv
  OBVIOUS
<1>1. TypeOK
  BY DEF Init, Reg!Init, TypeOK, Reg!TypeOK, Reg!Codes, SessSteps
<1>2. ChanInv
  BY DEF Init, Reg!Init, ChanInv
<1>3. QED
  BY <1>1, <1>2 DEF NInv

(* What StopProxy does to channel c, and that it leaves the others alone.  *)
LEMMA StopProxyFacts ==
    ASSUME TypeOK, NEW c \in Channels, StopProxy(c)
    PROVE  /\ chan' \in [Channels -> {"new", "running", "stopped"}]
           /\ stopHeld' \in [Channels -> BOOLEAN]
           /\ removing' \in [Channels -> BOOLEAN]
           /\ \A d \in Channels \ {c} :
                 chan'[d] = chan[d] /\ stopHeld'[d] = stopHeld[d] /\ removing'[d] = removing[d]
           /\ chan[c] = "running" =>
                 chan'[c] = "stopped" /\ ~stopHeld'[c] /\ removing'[c] = (stopHeld[c] \/ removing[c])
           /\ chan[c] # "running" =>
                 chan'[c] = chan[c] /\ stopHeld'[c] = stopHeld[c] /\ removing'[c] = removing[c]
<1>1. CASE chan[c] = "running"
  BY <1>1 DEF StopProxy, TypeOK
<1>2. CASE chan[c] # "running"
  BY <1>2 DEF StopProxy, TypeOK, chanVars
<1>3. QED
  BY <1>1, <1>2

LEMMA NInvStep == NInv /\ [Next]_vars => NInv'
<1> SUFFICES ASSUME NInv, [Next]_vars PROVE NInv'
  OBVIOUS
<1> USE DEF NInv, regVars, chanVars
<1>1. ASSUME NEW c \in Channels, SessionStart(c) PROVE NInv'
  <2>1. TypeOK'
    BY <1>1 DEF SessionStart, TypeOK, Reg!TypeOK, SessSteps
  <2>2. ChanInv'
    BY <1>1 DEF SessionStart, TypeOK, ChanInv
  <2>3. QED
    BY <2>1, <2>2
<1>2. ASSUME NEW c \in Channels, SessionAbandon(c) PROVE NInv'
  <2>1. StopProxy(c) /\ sess' = [sess EXCEPT ![c] = "refused"] /\ UNCHANGED regVars
    BY <1>2 DEF SessionAbandon
  <2>2. sess[c] = "started" /\ ~stopHeld[c] /\ c \notin members
    BY <1>2 DEF SessionAbandon, ChanInv
  <2>3. TypeOK'
    BY <2>1, StopProxyFacts DEF TypeOK, Reg!TypeOK, SessSteps
  <2>4. ChanInv'
    BY <2>1, <2>2, StopProxyFacts DEF TypeOK, ChanInv
  <2>5. QED
    BY <2>3, <2>4
<1>3. ASSUME NEW c \in Channels, SessionStore(c) PROVE NInv'
  <2>1. c \notin members /\ ~stopHeld[c] /\ sess[c] = "started"
    BY <1>3 DEF SessionStore, ChanInv
  <2>2. CASE result'[c] = "success"
    <3>1. /\ members' = members \cup {c}
          /\ UNCHANGED <<regStopped, stopPc, snapshot, chanStops, chanVars>>
          /\ result' = [result EXCEPT ![c] = "success"]
          /\ sess' = [sess EXCEPT ![c] = "stored"]
      BY <1>3, <2>2 DEF SessionStore, Reg!Store, TypeOK, Reg!TypeOK, Reg!Codes
    <3>2. TypeOK'
      BY <3>1 DEF TypeOK, Reg!TypeOK, Reg!Codes, SessSteps
    <3>3. ChanInv'
      BY <2>1, <3>1 DEF TypeOK, ChanInv
    <3>4. QED
      BY <3>2, <3>3
  <2>3. CASE result'[c] # "success"
    <3>1. /\ members' = members
          /\ UNCHANGED <<regStopped, stopPc, snapshot, chanStops>>
          /\ result' \in [Channels -> Reg!Codes]
          /\ sess' = [sess EXCEPT ![c] = "refused"]
          /\ StopProxy(c)
      BY <1>3, <2>3 DEF SessionStore, Reg!Store, TypeOK, Reg!TypeOK, Reg!Codes
    <3>2. TypeOK'
      BY <3>1, StopProxyFacts DEF TypeOK, Reg!TypeOK, SessSteps
    <3>3. ChanInv'
      BY <2>1, <3>1, StopProxyFacts DEF TypeOK, ChanInv
    <3>4. QED
      BY <3>2, <3>3
  <2>4. QED
    BY <2>2, <2>3
<1>4. ASSUME NEW c \in Channels, SessionSubscribe(c) PROVE NInv'
  <2>1. sess[c] = "stored" /\ chan[c] # "new"
    BY <1>4 DEF SessionSubscribe, ChanInv
  <2>2. TypeOK'
    BY <1>4 DEF SessionSubscribe, SubscribeStop, TypeOK, Reg!TypeOK, SessSteps
  <2>3. ChanInv'
    BY <1>4, <2>1 DEF SessionSubscribe, SubscribeStop, TypeOK, ChanInv
  <2>4. QED
    BY <2>2, <2>3
<1>5. ASSUME NEW c \in Channels, ChannelFails(c) PROVE NInv'
  <2>1. chan[c] = "running" /\ StopProxy(c) /\ UNCHANGED <<regVars, sess>>
    BY <1>5 DEF ChannelFails
  <2>2. TypeOK'
    BY <2>1, StopProxyFacts DEF TypeOK, Reg!TypeOK
  <2>3. ChanInv'
    BY <2>1, StopProxyFacts DEF TypeOK, ChanInv
  <2>4. QED
    BY <2>2, <2>3
<1>6. ASSUME NEW c \in Channels, HandlerRemove(c) PROVE NInv'
  <2>1. /\ members' = members \ {c}
        /\ UNCHANGED <<regStopped, stopPc, snapshot, chanStops, chan, stopHeld, sess>>
        /\ result' \in [Channels -> Reg!Codes]
        /\ removing' = [removing EXCEPT ![c] = FALSE]
    BY <1>6 DEF HandlerRemove, Reg!Remove, TypeOK, Reg!TypeOK, Reg!Codes
  <2>2. TypeOK'
    BY <2>1 DEF TypeOK, Reg!TypeOK
  <2>3. ChanInv'
    BY <2>1 DEF TypeOK, ChanInv
  <2>4. QED
    BY <2>2, <2>3
<1>7. ASSUME NEW t \in RegStoppers, NetStop(t) \/ NetStopReturn(t) PROVE NInv'
  <2>1. TypeOK'
    BY <1>7 DEF NetStop, NetStopReturn, Reg!RegStop, Reg!RegStopReturn, TypeOK, Reg!TypeOK
  <2>2. ChanInv'
    BY <1>7 DEF NetStop, NetStopReturn, Reg!RegStop, Reg!RegStopReturn, ChanInv
  <2>3. QED
    BY <2>1, <2>2
<1>8. ASSUME NEW t \in RegStoppers, NEW c \in Channels, RegStopChannel(t, c) PROVE NInv'
  <2>1. /\ StopProxy(c) /\ UNCHANGED <<members, regStopped, stopPc, result, sess>>
        /\ snapshot' = [snapshot EXCEPT ![t] = @ \ {c}]
        /\ chanStops' = [chanStops EXCEPT ![c] = @ + 1]
    BY <1>8 DEF RegStopChannel, Reg!StopChannel
  <2>2. TypeOK'
    BY <2>1, StopProxyFacts DEF TypeOK, Reg!TypeOK
  <2>3. ChanInv'
    BY <2>1, StopProxyFacts DEF TypeOK, ChanInv
  <2>4. QED
    BY <2>2, <2>3
<1>9. CASE UNCHANGED vars
  BY <1>9 DEF vars, TypeOK, Reg!TypeOK, ChanInv
<1>10. QED
  BY <1>1, <1>2, <1>3, <1>4, <1>5, <1>6, <1>7, <1>8, <1>9 DEF Next

(* A channel that stopped before or after connections::store took it is a *)
(* member only while its remove handler is pending or about to be invoked *)
(* by the session's subscription: store's missing test of the channel     *)
(* (connections.cpp 136-177) leaves no stale member, for every number of   *)
(* channels and stopping threads.                                          *)
THEOREM NoStaleMembers == Spec => []NoStaleMember
<1>1. Spec => []NInv
  BY NInvInit, NInvStep, PTL DEF Spec
<1>2. NInv => NoStaleMember
  BY DEF NInv, ChanInv, NoStaleMember, TypeOK, Reg!TypeOK
<1>3. QED
  BY <1>1, <1>2, PTL


-----------------------------------------------------------------------------
(* Every step of the composition is a step of the registry alone or leaves *)
(* the registry's variables alone: the channel and session effects that    *)
(* Network conjoins with store, remove and stop do not change the          *)
(* registry's state behind its lock.                                       *)
LEMMA RegistryStep == [Next]_vars => [Reg!Next]_Reg!vars
<1> SUFFICES ASSUME [Next]_vars PROVE [Reg!Next]_Reg!vars
  OBVIOUS
<1> USE DEF regVars, Reg!vars
<1>1. ASSUME NEW c \in Channels,
             SessionStart(c) \/ SessionAbandon(c) \/ SessionSubscribe(c) \/ ChannelFails(c)
      PROVE  UNCHANGED Reg!vars
  BY <1>1 DEF SessionStart, SessionAbandon, SessionSubscribe, ChannelFails
<1>2. ASSUME NEW c \in Channels, SessionStore(c) PROVE Reg!Next
  BY <1>2 DEF SessionStore, Reg!Next
<1>3. ASSUME NEW c \in Channels, HandlerRemove(c) PROVE Reg!Next
  BY <1>3 DEF HandlerRemove, Reg!Next
<1>4. ASSUME NEW t \in RegStoppers, NetStop(t) \/ NetStopReturn(t) PROVE Reg!Next
  BY <1>4 DEF NetStop, NetStopReturn, Reg!Next
<1>5. ASSUME NEW t \in RegStoppers, NEW c \in Channels, RegStopChannel(t, c)
      PROVE  Reg!Next
  BY <1>5 DEF RegStopChannel, Reg!Next
<1>6. CASE UNCHANGED vars
  BY <1>6 DEF vars
<1>7. QED
  BY <1>1, <1>2, <1>3, <1>4, <1>5, <1>6 DEF Next

(* Composed with its channels and sessions, the registry is still the      *)
(* registry of Connections: the composition implements it.                 *)
LEMMA ImplementsRegistry == Spec => Reg!Spec
<1>1. Init => Reg!Init
  BY DEF Init
<1>2. QED
  BY <1>1, RegistryStep, PTL DEF Spec, Reg!Spec

(* The registry's assumption holds of the constants of the composition.   *)
LEMMA RegAssumption == Reg!ConnectionsAssumption
BY NetworkAssumption

(* So what ConnectionsProofs proves of the registry holds inside the       *)
(* composition: no two members share an authority or a nonce (R1, R2), the *)
(* registry stops each channel at most once, and the registry implements   *)
(* ConnectionsAbstract (a join only while open, R3), whatever the channels *)
(* and sessions do around connections.cpp.                                 *)
THEOREM RegistryGuarantees ==
    Spec => /\ [](Reg!Unique /\ Reg!StopsEachChannelOnce)
            /\ Reg!RefinesAbstract
<1>1. Reg!Spec => [](Reg!Unique /\ Reg!StopsEachChannelOnce)
  BY RegAssumption, Reg!MembersUnique, Reg!StopsOnce, PTL
<1>2. QED
  BY ImplementsRegistry, <1>1, RegAssumption, Reg!Refinement, PTL

=============================================================================
