-------------------------------- MODULE MCDht --------------------------------
(***************************************************************************)
(* The parts around the bootstrap servers: the DHT node, presence, the     *)
(* node's rate limiter and the relay's limit on connections, which extends *)
(* the limiter and moves its variables its own way.  One behaviour moves   *)
(* only one part (focus) and the run checks the behaviours of all.         *)
(***************************************************************************)
EXTENDS DhtNode, Presence, RelayConnections

CONSTANTS Focuses  \* the parts this run checks

VARIABLES focus

vars == <<focus, dhtvars, rcvars, pvars>>

Init ==
    /\ focus \in Focuses
    /\ DhtInit /\ RCInit /\ PresenceInit
    /\ host = CHOOSE h \in Hosts : TRUE  \* the hosts are symmetric
    /\ focus # "presence" => added = "pq"

DhtSteps == /\ focus = "dht" /\ DhtNext
            /\ UNCHANGED <<focus, rcvars, pvars>>

LimiterSteps == /\ focus = "limiter" /\ RLNext
                /\ UNCHANGED <<focus, dhtvars, recent, lastUse, pvars>>

ConnectionSteps == /\ focus = "connections" /\ RCNext
                   /\ UNCHANGED <<focus, dhtvars, pvars>>

PresenceSteps == /\ focus = "presence" /\ PresenceNext
                 /\ UNCHANGED <<focus, dhtvars, rcvars>>

Next == DhtSteps \/ LimiterSteps \/ ConnectionSteps \/ PresenceSteps

Spec == Init /\ [][Next]_vars
=============================================================================
