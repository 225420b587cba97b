------------------------------ MODULE MCProxy ------------------------------
(* Small instances of Proxy for TLC.                                       *)
EXTENDS Proxy, TLC

(* Two versions whose payload limits differ, so that narrowing the         *)
(* negotiated version changes the limit the spec states.                   *)
MCVersions == 1 .. 2
MCMaxPayload == [v \in MCVersions |-> v]
MCProtocolMaximum == 2

(* External stoppers are interchangeable, and so are stop handlers.        *)
MCSymmetry == Permutations(Externals) \cup Permutations(StopHandlers)
=============================================================================
