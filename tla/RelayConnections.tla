--------------------------- MODULE RelayConnections ---------------------------
(***************************************************************************)
(* The relay's limit on connections per address (handle_connection and the *)
(* clean-up task of relay/src/main.rs): a map from addresses to limiters,  *)
(* each used for one address only, that evicts the least recently used     *)
(* entry when it is over its size and forgets idle ones.  buckets[ip] is   *)
(* the only bucket of ip's limiter, Callers are the addresses, MaxBuckets  *)
(* is MAX_PEER_LIMITERS.                                                   *)
(***************************************************************************)
EXTENDS RateLimiter, Integers

CONSTANTS Cleanup  \* PEER_LIMITER_CLEANUP_SECS

\* The window is 60 seconds, the interval of the clean-up 120.
ASSUME CleanupAssumption == Cleanup \in Nat /\ Window < 2 * Cleanup

VARIABLES
    recent,  \* remembered addresses, the least recently accessed first
    lastUse  \* lastUse[ip]: when ip was last accessed

rcvars == <<clock, buckets, granted, recent, lastUse>>

RCInit == RLInit /\ recent = <<>> /\ lastUse = <<>>

Keep(f, ips) == [ip \in DOMAIN f \cap ips |-> f[ip]]
KeepSeq(order, ips) == SelectSeq(order, LAMBDA ip : ip \in ips)

\* entry.1 = now
Accessed(ip) == [x \in DOMAIN lastUse \cup {ip} |-> IF x = ip THEN clock ELSE lastUse[x]]

\* The entry with the oldest access goes when the map is over its size.
Evicted(order) == IF Len(order) > MaxBuckets THEN {order[1]} ELSE {}

\* A connection from ip.  A refused one returns before the eviction.
handle_connection(ip) ==
    LET out   == Outcome(ip)
        order == Append(KeepSeq(recent, Callers \ {ip}), ip)
        gone  == IF out.ok THEN Evicted(order) ELSE {}
        all   == [x \in DOMAIN buckets \cup {ip} |->
                     IF x = ip THEN out.entries ELSE buckets[x]]
    IN  /\ buckets' = Keep(all, Callers \ gone)
        /\ lastUse' = Keep(Accessed(ip), Callers \ gone)
        /\ recent' = KeepSeq(order, Callers \ gone)
        /\ granted' = GrantedAfter(ip, out.ok, gone)
        /\ UNCHANGED clock

\* Mutant of Inactive: the age of an entry does not matter.
InactiveAlways(ip) == lastUse[ip] <= clock

\* Not accessed within the last two intervals.
Inactive(ip) == lastUse[ip] <= clock - 2 * Cleanup

\* Every Cleanup: retain the others.
limiter_cleanup ==
    LET active == {ip \in DOMAIN lastUse : ~Inactive(ip)} IN
    /\ active # DOMAIN lastUse
    /\ buckets' = Keep(buckets, active)
    /\ lastUse' = Keep(lastUse, active)
    /\ recent' = KeepSeq(recent, active)
    /\ UNCHANGED <<clock, granted>>

RCTick == RLTick /\ UNCHANGED <<recent, lastUse>>

RCNext == RCTick \/ limiter_cleanup \/ \E ip \in Callers : handle_connection(ip)

RCSpec == RCInit /\ [][RCNext]_rcvars
=============================================================================
