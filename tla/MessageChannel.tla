--------------------------- MODULE MessageChannel ---------------------------
(***************************************************************************)
(* What a connection between a switch and its controller promises: the     *)
(* messages arrive whole and in the order in which they were sent, and     *)
(* all of them arrive as long as the connection stands.                    *)
(***************************************************************************)
EXTENDS Naturals

CONSTANT Count          \* how many messages there are, sent in turn

VARIABLES
    sent,               \* how many messages the sender has handed over
    received,           \* how many of them the receiver has been given
    connected

vars == <<sent, received, connected>>

Init == sent = 0 /\ received = 0 /\ connected = TRUE

Send ==
    /\ sent < Count
    /\ sent' = sent + 1
    /\ UNCHANGED <<received, connected>>

(* One event may bring several messages.                                   *)
Receive ==
    /\ received' \in received + 1 .. sent
    /\ UNCHANGED <<sent, connected>>

Break ==
    /\ connected
    /\ connected' = FALSE
    /\ UNCHANGED <<sent, received>>

Next == Send \/ Receive \/ Break

Spec == Init /\ [][Next]_vars /\ (<>[]connected => []<>(received = sent))

=============================================================================
