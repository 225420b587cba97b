--------------------------- MODULE MCConnections ---------------------------
(* Three channels: c1 and c2 share an authority, c1 and c3 share a nonce,  *)
(* c2 and c3 may be members together.                                      *)
EXTENDS Connections

MCAuthority == [c \in Channels |-> IF c = "c3" THEN "a2" ELSE "a1"]
MCNonce == [c \in Channels |-> IF c = "c2" THEN 2 ELSE 1]
=============================================================================
