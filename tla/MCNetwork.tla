----------------------------- MODULE MCNetwork -----------------------------
(* Three channels: c1 and c2 share an authority, so one of them may be    *)
(* refused with address_in_use; c3 clashes with neither.                   *)
EXTENDS Network

MCAuthority == [c \in Channels |-> IF c = "c3" THEN "a2" ELSE "a1"]
MCNonce == [c \in Channels |-> IF c = "c1" THEN 1 ELSE IF c = "c2" THEN 2 ELSE 3]
=============================================================================
