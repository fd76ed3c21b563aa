--------------------------- MODULE MCRelayMailbox ---------------------------
(* Instances of RelayMailbox for TLC: two users and up to three messages,  *)
(* two from b to a and one that a wrote, to itself or to b.                *)
EXTENDS RelayMailbox

CONSTANTS a, b, m1, m2, m3

MCFrom == [m \in Msgs |-> IF m = m3 THEN a ELSE b]

MCTo == [m \in Msgs |-> a]

\* The messages go to two recipients.
MCToBoth == [m \in Msgs |-> IF m = m3 THEN b ELSE a]

\* The clients and the bot send seq 1 with every message.
MCSeq == [m \in Msgs |-> 1]

=============================================================================
