------------------------- MODULE ConnectionsProofs -------------------------
(***************************************************************************)
(* Proofs about Connections, for every set of channels, every assignment  *)
(* of authorities and nonces and any number of threads calling stop: the  *)
(* type invariant, the uniqueness of members, and that the registry stops *)
(* each channel at most once.                                              *)
(***************************************************************************)
EXTENDS Connections, TLAPS

(* What the stop calls have done so far.  A stopper's copy is empty while *)
(* it is idle; before the registry is stopped no copy holds a channel and *)
(* no channel was stopped; the copies are disjoint; a channel still in a   *)
(* copy has not been stopped; and none was stopped twice.                  *)
SnapInv ==
    /\ \A t \in RegStoppers : stopPc[t] = "idle" => snapshot[t] = {}
    /\ ~regStopped => /\ \A t \in RegStoppers : snapshot[t] = {}
                      /\ \A c \in Channels : chanStops[c] = 0
    /\ \A t, u \in RegStoppers : t # u => snapshot[t] \cap snapshot[u] = {}
    /\ \A t \in RegStoppers : \A c \in snapshot[t] : chanStops[c] = 0
    /\ \A c \in Channels : chanStops[c] <= 1

RInv == TypeOK /\ Unique /\ SnapInv

-----------------------------------------------------------------------------
LEMMA RInvInit == Init => RInv
<1> SUFFICES ASSUME Init PROVE RInv
  OBVIOUS
<1>1. TypeOK
  BY DEF Init, TypeOK, Codes
<1>2. Unique /\ SnapInv
  BY DEF Init, Unique, SnapInv
<1>3. QED
  BY <1>1, <1>2 DEF RInv

LEMMA RInvStep == RInv /\ [Next]_vars => RInv'
<1> SUFFICES ASSUME RInv, [Next]_vars PROVE RInv'
  OBVIOUS
<1> USE DEF RInv, TypeOK
<1>1. ASSUME NEW c \in Channels, Store(c) PROVE RInv'
  <2>1. TypeOK'
    BY <1>1 DEF Store, Codes
  <2>2. Unique'
    <3>1. CASE ~regStopped /\ ~\E e \in members : Clashes(e, c)
      BY <1>1, <3>1 DEF Store, Unique, Clashes
    <3>2. CASE regStopped \/ \E e \in members : Clashes(e, c)
      BY <1>1, <3>2 DEF Store, Unique
    <3>3. QED
      BY <3>1, <3>2
  <2>3. SnapInv'
    BY <1>1 DEF Store, SnapInv
  <2>4. QED
    BY <2>1, <2>2, <2>3
<1>2. ASSUME NEW c \in Channels, Remove(c) PROVE RInv'
  BY <1>2 DEF Remove, Codes, Unique, SnapInv
<1>3. ASSUME NEW t \in RegStoppers, RegStop(t) PROVE RInv'
  <2>1. CASE regStopped
    BY <1>3, <2>1 DEF RegStop, Unique, SnapInv
  <2>2. CASE ~regStopped
    BY <1>3, <2>2 DEF RegStop, Unique, SnapInv
  <2>3. QED
    BY <2>1, <2>2
<1>4. ASSUME NEW t \in RegStoppers, NEW c \in Channels, StopChannel(t, c) PROVE RInv'
  <2>1. TypeOK'
    BY <1>4 DEF StopChannel
  <2>2. Unique'
    BY <1>4 DEF StopChannel, Unique
  <2>3. regStopped
    BY <1>4 DEF StopChannel, SnapInv
  <2>4. chanStops[c] = 0 /\ \A u \in RegStoppers \ {t} : c \notin snapshot[u]
    BY <1>4 DEF StopChannel, SnapInv
  <2>5. SnapInv'
    BY <1>4, <2>3, <2>4 DEF StopChannel, SnapInv
  <2>6. QED
    BY <2>1, <2>2, <2>5
<1>5. ASSUME NEW t \in RegStoppers, RegStopReturn(t) PROVE RInv'
  BY <1>5 DEF RegStopReturn, Unique, SnapInv
<1>6. CASE UNCHANGED vars
  BY <1>6 DEF vars, Unique, SnapInv
<1>7. QED
  BY <1>1, <1>2, <1>3, <1>4, <1>5, <1>6 DEF Next

-----------------------------------------------------------------------------
(* The registry's variables always have their types.                      *)
THEOREM RegistryTypeCorrect == Spec => []TypeOK
<1>1. Spec => []RInv
  BY RInvInit, RInvStep, PTL DEF Spec
<1>2. QED
  BY <1>1, PTL DEF RInv

(* store never admits a channel whose authority or nonce a member already *)
(* has (connections.cpp 136-177), whatever the stores and removes.         *)
THEOREM MembersUnique == Spec => []Unique
<1>1. Spec => []RInv
  BY RInvInit, RInvStep, PTL DEF Spec
<1>2. QED
  BY <1>1, PTL DEF RInv

(* However many threads call connections::stop, each channel is stopped   *)
(* at most once by the registry (connections.cpp 47-72).                   *)
THEOREM StopsOnce == Spec => []StopsEachChannelOnce
<1>1. Spec => []RInv
  BY RInvInit, RInvStep, PTL DEF Spec
<1>2. RInv => StopsEachChannelOnce
  BY DEF RInv, SnapInv, StopsEachChannelOnce
<1>3. QED
  BY <1>1, <1>2, PTL

-----------------------------------------------------------------------------
(* Each step of the registry is a step of ConnectionsAbstract or leaves   *)
(* its members, its closed flag and its stopped channels alone.            *)
LEMMA StepRefines == RInv /\ [Next]_vars => [Abstract!Next]_Abstract!avars
<1> SUFFICES ASSUME RInv, [Next]_vars PROVE [Abstract!Next]_Abstract!avars
  OBVIOUS
<1> USE DEF RInv, TypeOK, Abstract!avars
<1>1. ASSUME NEW c \in Channels, Store(c) PROVE [Abstract!Next]_Abstract!avars
  <2>1. CASE ~regStopped /\ ~\E e \in members : Clashes(e, c)
    <3>1. members' = members \cup {c} /\ regStopped' = regStopped /\ chanStops' = chanStops
      BY <1>1, <2>1 DEF Store
    <3>2. Abstract!Join(c)
      BY <2>1, <3>1 DEF Abstract!Join, Abstract!Clash, Clashes, Halted
    <3>3. QED
      BY <3>2 DEF Abstract!Next
  <2>2. CASE regStopped \/ \E e \in members : Clashes(e, c)
    BY <1>1, <2>2 DEF Store, Halted
  <2>3. QED
    BY <2>1, <2>2
<1>2. ASSUME NEW c \in Channels, Remove(c) PROVE [Abstract!Next]_Abstract!avars
  <2>1. Abstract!Leave(c)
    BY <1>2 DEF Remove, Abstract!Leave, Halted
  <2>2. QED
    BY <2>1 DEF Abstract!Next
<1>3. ASSUME NEW t \in RegStoppers, RegStop(t) PROVE [Abstract!Next]_Abstract!avars
  <2>1. Abstract!Close
    BY <1>3 DEF RegStop, Abstract!Close, Halted
  <2>2. QED
    BY <2>1 DEF Abstract!Next
<1>4. ASSUME NEW t \in RegStoppers, NEW c \in Channels, StopChannel(t, c)
      PROVE [Abstract!Next]_Abstract!avars
  <2>1. regStopped /\ chanStops[c] = 0
    BY <1>4 DEF StopChannel, SnapInv
  <2>2. Halted' = Halted \cup {c}
    BY <1>4, <2>1 DEF StopChannel, Halted
  <2>3. Abstract!Halt(c)
    BY <1>4, <2>1, <2>2 DEF StopChannel, Abstract!Halt, Halted
  <2>4. QED
    BY <2>3 DEF Abstract!Next
<1>5. ASSUME NEW t \in RegStoppers, RegStopReturn(t) PROVE [Abstract!Next]_Abstract!avars
  BY <1>5 DEF RegStopReturn, Halted
<1>6. CASE UNCHANGED vars
  BY <1>6 DEF vars, Halted
<1>7. QED
  BY <1>1, <1>2, <1>3, <1>4, <1>5, <1>6 DEF Next

(* The registry implements its abstract specification under the mapping   *)
(* of Connections (members, stopped_, the channels its loop stopped), for  *)
(* every set of channels, authorities, nonces and stopping threads.        *)
THEOREM Refinement == Spec => RefinesAbstract
<1>1. Spec => []RInv
  BY RInvInit, RInvStep, PTL DEF Spec
<1>2. Init => Abstract!Init
  BY DEF Init, Abstract!Init, Halted
<1>3. QED
  BY <1>1, <1>2, StepRefines, PTL DEF Spec, RefinesAbstract, Abstract!Spec

=============================================================================
