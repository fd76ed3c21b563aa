------------------------------- MODULE KeyPins -------------------------------
(***************************************************************************)
(* Trust on first use.  On disk, the keys of servers: the TLS pins of      *)
(* PinnedCertVerifier, client/src/main.rs, and the bootstrap pins of       *)
(* dht-core/src/pin_cache.rs work alike: load the whole file, compare, and *)
(* write the whole file back with the new pin.  In memory, the verifying   *)
(* keys of peers: the bounded cache of dht-core/src/crypto_helpers.rs.     *)
(***************************************************************************)
EXTENDS Naturals, FiniteSets, SequencesExt

CONSTANTS
    Conns,       \* connections, of one command or of several, and their threads
    Hosts,       \* servers
    Values,      \* keys (hashes of keys), positive numbers
    Peers,       \* fingerprints
    Capacity     \* CERT_CACHE_MAX_ENTRIES

ASSUME PinsAssumption ==
    /\ Values \subseteq Nat \ {0} /\ 0 \notin Peers
    /\ Capacity \in Nat

VARIABLES
    pins,        \* the file: pins[h], 0 if none
    conn,        \* conn[p]: a connection about to pin its host
    taken,       \* taken[h]: the keys accepted for h
    lost,        \* hosts whose pin was lost: another writer, or a torn file
    keys,        \* keys[f]: the key cached for f, 0 if none
    recent,      \* the cached fingerprints by the time of their last use
    looking,     \* looking[p]: the fingerprint p has looked up, its use not yet written
    used         \* the fingerprint whose use was written last

pinvars == <<pins, conn, taken, lost, keys, recent, looking, used>>

diskvars == <<pins, conn, taken, lost>>
cachevars == <<keys, recent, looking, used>>

NoConn == [host |-> 0, pins |-> [h \in Hosts |-> 0]]

PinsInit ==
    /\ pins = [h \in Hosts |-> 0]
    /\ conn = [p \in Conns |-> NoConn]
    /\ taken = [h \in Hosts |-> {}]
    /\ lost = {}
    /\ keys = [f \in Peers |-> 0]
    /\ recent = <<>> /\ used = 0
    /\ looking = [p \in Conns |-> 0]

\* Bug: a key that was replaced passes.
MatchesAny(pinned, v) == pinned # 0

\* Does key v pass for a host whose pin is pinned?
Matches(pinned, v) == pinned = v

\* verify_server_cert, bootstrap_pin_check: a key that differs is refused; a
\* host without a pin is pinned, which takes a second step.
Check(p, h, v) ==
    /\ conn[p] = NoConn
    /\ \/ /\ Matches(pins[h], v)
          /\ taken' = [taken EXCEPT ![h] = @ \cup {v}]
          /\ UNCHANGED conn
       \/ /\ pins[h] = 0
          /\ conn' = [conn EXCEPT ![p] = [host |-> h, pins |-> [pins EXCEPT ![h] = v]]]
          /\ UNCHANGED taken
    /\ UNCHANGED <<pins, lost, cachevars>>

\* The file is replaced by what was loaded, and the pin.
save_pins(p) ==
    /\ conn[p] # NoConn
    /\ LET c == conn[p] IN
       /\ pins' = c.pins
       /\ taken' = [taken EXCEPT ![c.host] = @ \cup {c.pins[c.host]}]
       /\ lost' = lost \cup {h \in Hosts : pins[h] \notin {0, c.pins[h]}}
    /\ conn' = [conn EXCEPT ![p] = NoConn]
    /\ UNCHANGED cachevars

\* The file cannot be opened, which is ignored: it stays, the key is accepted.
save_fails(p) ==
    /\ conn[p] # NoConn
    /\ LET c == conn[p] IN
       /\ taken' = [taken EXCEPT ![c.host] = @ \cup {c.pins[c.host]}]
       /\ lost' = lost \cup {c.host}
    /\ conn' = [conn EXCEPT ![p] = NoConn]
    /\ UNCHANGED <<pins, cachevars>>

\* Killed while it writes, or the disk is full, which is ignored (the key is
\* accepted): a file that does not parse is an empty one.
Tear(p) ==
    /\ conn[p] # NoConn
    /\ pins' = [h \in Hosts |-> 0]
    /\ LET c == conn[p] IN
       \/ UNCHANGED taken /\ lost' = lost \cup {h \in Hosts : pins[h] # 0}
       \/ /\ taken' = [taken EXCEPT ![c.host] = @ \cup {c.pins[c.host]}]
          /\ lost' = lost \cup {c.host} \cup {h \in Hosts : pins[h] # 0}
    /\ conn' = [conn EXCEPT ![p] = NoConn]
    /\ UNCHANGED cachevars

-----------------------------------------------------------------------------

\* Bug: the time of the last use is not written.
TouchedNew(f) == IF f \in ToSet(recent) THEN recent ELSE Append(recent, f)

\* f was used: it moves to the end.
Touched(f) ==
    IF \E i \in DOMAIN recent : recent[i] = f
    THEN Append(RemoveAt(recent, CHOOSE i \in DOMAIN recent : recent[i] = f), f)
    ELSE Append(recent, f)

\* Insert, and evict the least recently used entry over the capacity.
Bind(f, v) ==
    LET r == Touched(f)
        full == Len(r) > Capacity
    IN  /\ recent' = IF full THEN Tail(r) ELSE r
        /\ keys' = [g \in Peers |-> IF full /\ g = Head(r) THEN 0
                                    ELSE IF g = f THEN v ELSE keys[g]]

cache_verifying_key(f, v) ==
    Bind(f, v) /\ used' = f /\ UNCHANGED <<diskvars, looking>>

\* A different key is refused: Err, and nothing changes.
pin_verifying_key(f, v) ==
    /\ keys[f] \in {0, v}
    /\ IF keys[f] = v THEN recent' = Touched(f) /\ UNCHANGED keys ELSE Bind(f, v)
    /\ used' = f /\ UNCHANGED <<diskvars, looking>>

\* The key is copied under the read lock, which is dropped ...
get_cached_verifying_key(p, f) ==
    /\ looking[p] = 0 /\ keys[f] # 0
    /\ looking' = [looking EXCEPT ![p] = f]
    /\ UNCHANGED <<diskvars, keys, recent, used>>

\* ... before the write lock is taken for the time of the access; an entry that
\* is gone by then stays gone.
update_access(p) ==
    /\ looking[p] # 0
    /\ IF keys[looking[p]] # 0 THEN recent' = Touched(looking[p]) /\ used' = looking[p]
       ELSE UNCHANGED <<recent, used>>
    /\ looking' = [looking EXCEPT ![p] = 0]
    /\ UNCHANGED <<diskvars, keys>>

DiskNext ==
    \E p \in Conns :
        \/ \E h \in Hosts, v \in Values : Check(p, h, v)
        \/ save_pins(p) \/ save_fails(p) \/ Tear(p)

CacheNext ==
    \/ \E f \in Peers, v \in Values : cache_verifying_key(f, v) \/ pin_verifying_key(f, v)
    \/ \E p \in Conns : update_access(p) \/ \E f \in Peers : get_cached_verifying_key(p, f)

PinsSpec == PinsInit /\ [][DiskNext \/ CacheNext]_pinvars

-----------------------------------------------------------------------------

\* Trust on first use: a client accepts one key per server over all its
\* connections, unless the pin was lost: two connections pinned at the same
\* time, or the file could not be written or was torn.
TofuHolds == \A h \in Hosts : h \notin lost => Cardinality(taken[h]) <= 1

\* The key that was pinned last, or whose look-up was the last to be written
\* down, is not the one the next binding evicts, whatever look-ups of other
\* threads are between their two locks: the peer in use stays pinned.
StaysBound == [][Capacity >= 2 /\ used # 0 => keys'[used] # 0]_pinvars
=============================================================================
