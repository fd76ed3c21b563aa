----------------------------- MODULE RateLimiter -----------------------------
(***************************************************************************)
(* The sliding-window rate limiter of dht-core/src/ratelimit.rs, as the    *)
(* DHT node uses it: one limiter for many keys (addresses, publishers),    *)
(* with a cap on the number of keys it remembers.                          *)
(***************************************************************************)
EXTENDS Naturals, FiniteSets, Sequences, SequencesExt, Functions

CONSTANTS
    Callers,     \* addresses or publishers
    Limit,       \* operations allowed per caller and window
    Window,      \* length of the window
    MaxBuckets,  \* callers remembered
    MaxClock     \* bound: clock

ASSUME LimiterAssumption == Limit \in Nat /\ Window \in Nat

VARIABLES
    clock,    \* now_unix
    buckets,  \* buckets[k]: k's operations, for the callers remembered
    granted   \* granted[k]: all k was allowed since it was last evicted

rlvars == <<clock, buckets, granted>>

RLInit ==
    /\ clock = 0
    /\ buckets = <<>>
    /\ granted = [k \in Callers |-> {}]

-----------------------------------------------------------------------------

\* Those of a set of operations that the window still holds.
InWindow(entries) == {e \in entries : e.at + Window >= clock}

\* entries.retain(|&t| t >= cutoff)
Retained(entries) == InWindow(entries)

\* The bucket of k before the call: a caller that is not remembered has none.
Bucket(k) == IF k \in DOMAIN buckets THEN buckets[k] ELSE {}

\* The bucket that makes room for k, if one must: the first key of a hash
\* map, which may be any.
Victims(k) ==
    IF /\ Cardinality(DOMAIN buckets) >= MaxBuckets /\ k \notin DOMAIN buckets
       /\ DOMAIN buckets # {}
    THEN {{v} : v \in DOMAIN buckets} ELSE {{}}

\* The operation allowed to k now.  The code keeps its time; the number tells
\* operations of one second apart.
Operation(k) == [at |-> clock, nth |-> Cardinality(granted[k])]

\* What the call answers and leaves in the bucket, which it prunes first.
Outcome(k) ==
    LET kept == Retained(Bucket(k)) IN
    IF Cardinality(kept) >= Limit
    THEN [ok |-> FALSE, entries |-> kept]
    ELSE [ok |-> TRUE,  entries |-> kept \cup {Operation(k)}]

\* What was allowed once k has been answered and the callers gone were evicted.
GrantedAfter(k, ok, gone) ==
    [x \in Callers |->
        IF x \in gone THEN {}
        ELSE IF x = k /\ ok THEN granted[x] \cup {Operation(x)}
        ELSE granted[x]]

\* allow(k) makes room first, then prunes, then decides.
allow(k) ==
    \E victim \in Victims(k) :
       /\ buckets' = [x \in (DOMAIN buckets \ victim) \cup {k} |->
                         IF x = k THEN Outcome(k).entries ELSE buckets[x]]
       /\ granted' = GrantedAfter(k, Outcome(k).ok, victim)
       /\ UNCHANGED clock

RLTick == clock < MaxClock /\ clock' = clock + 1 /\ UNCHANGED <<buckets, granted>>

RLNext == RLTick \/ \E k \in Callers : allow(k)

RLSpec == RLInit /\ [][RLNext]_rlvars

-----------------------------------------------------------------------------

\* No limiter forgets too early: whatever a caller that was not evicted was
\* allowed within the window is still counted, and is no more than Limit
\* (RateLimiter::allow, and the relay's clean-up of idle limiters, whenever it
\* runs).
WindowBound ==
    \A k \in Callers :
       /\ InWindow(granted[k]) \subseteq Bucket(k)
       /\ Cardinality(InWindow(granted[k])) <= Limit

=============================================================================
