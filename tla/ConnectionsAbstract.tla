------------------------ MODULE ConnectionsAbstract ------------------------
(***************************************************************************)
(* What the connection registry promises (spec 3, "Connection registry",  *)
(* and its invariants R1-R3), with no lock, no copy and no loop: a set of  *)
(* members of which no two share an authority or a nonce, a closed flag    *)
(* that is set once and after which nothing joins, and the channels the    *)
(* registry has stopped, each at most once and only after it closed.       *)
(***************************************************************************)
CONSTANTS
    Channels,     \* the channels that may be offered to the registry
    Authority,    \* the authority of each channel
    Nonce         \* the nonce of each channel

VARIABLES
    members,      \* the channels the registry holds
    closed,       \* the registry has been stopped
    halted        \* the channels the registry has stopped

avars == <<members, closed, halted>>

(* Two channels clash when they share an authority or a nonce.            *)
Clash(e, c) == Authority[e] = Authority[c] \/ Nonce[e] = Nonce[c]

Init ==
    /\ members = {}
    /\ closed = FALSE
    /\ halted = {}

(* A channel joins an open registry that holds no channel it clashes with. *)
Join(c) ==
    /\ ~closed
    /\ \A e \in members : ~Clash(e, c)
    /\ members' = members \cup {c}
    /\ UNCHANGED <<closed, halted>>

(* A channel leaves, whether the registry is open or closed.               *)
Leave(c) ==
    /\ members' = members \ {c}
    /\ UNCHANGED <<closed, halted>>

Close ==
    /\ closed' = TRUE
    /\ UNCHANGED <<members, halted>>

(* A closed registry stops a channel it has not stopped before.            *)
Halt(c) ==
    /\ closed
    /\ c \notin halted
    /\ halted' = halted \cup {c}
    /\ UNCHANGED <<members, closed>>

Next ==
    \/ Close
    \/ \E c \in Channels : Join(c) \/ Leave(c) \/ Halt(c)

Spec == Init /\ [][Next]_avars

=============================================================================
