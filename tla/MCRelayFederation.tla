------------------------- MODULE MCRelayFederation -------------------------
(* Instances of RelayFederation for TLC: two relays that are configured as *)
(* each other's peers, one of which also has a peer outside.               *)
EXTENDS RelayFederation

CONSTANTS r1, r2, r3, x1, n1

MCConfigured == [r \in Relays |-> IF r = r1 THEN {r2, x1} ELSE {}]

\* Both relays are configured as each other's peers.
MCMesh == [r \in Relays |-> Relays \ {r}]

=============================================================================
