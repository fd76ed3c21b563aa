----------------------------- MODULE LocalProofs -----------------------------
(***************************************************************************)
(* The pins, the message store and the identity files of a client, for any *)
(* number of connections, servers, keys, commands, messages and            *)
(* passphrases; the post-quantum ratchet, for any secrets and capacities;  *)
(* the kit of a daemon, for any lines and keys.                            *)
(***************************************************************************)
EXTENDS KeyPins, MessageStore, ClientFiles, PqRatchet, ShardKit, DataFacts,
        FiniteSetTheorems, FunctionTheorems, SequenceTheorems, TLAPS

-----------------------------------------------------------------------------
(* Pins on disk.                                                           *)

PinFiles == [Hosts -> Nat]

\* A connection that is about to pin its host.
Pinning(c) == c.host \in Hosts /\ c.pins \in PinFiles /\ c.pins[c.host] # 0

\* Unless its pin was lost, the keys accepted for a host are at most the one in
\* the file.
Pinned ==
    /\ pins \in PinFiles
    /\ conn = [p \in Conns |-> conn[p]]
    /\ \A p \in Conns : conn[p] = NoConn \/ Pinning(conn[p])
    /\ taken = [h \in Hosts |-> taken[h]]
    /\ \A h \in Hosts : h \notin lost => taken[h] \subseteq {pins[h]} \ {0}

LEMMA PinnedInit == PinsInit => Pinned
BY DEF PinsInit, Pinned, PinFiles

LEMMA PinnedCheck ==
    ASSUME Pinned, NEW p \in Conns, NEW h \in Hosts, NEW v \in Values, Check(p, h, v)
    PROVE  Pinned'
<1>1. v \in Nat \ {0} /\ UNCHANGED <<pins, lost>>
  BY PinsAssumption DEF Check
<1>2. CASE /\ pins[h] = v /\ taken' = [taken EXCEPT ![h] = @ \cup {v}] /\ UNCHANGED conn
  <2>1. /\ taken' = [g \in Hosts |-> taken'[g]]
        /\ \A g \in Hosts : taken'[g] = IF g = h THEN taken[h] \cup {v} ELSE taken[g]
    BY <1>2 DEF Pinned
  <2> QED
    BY <1>1, <1>2, <2>1 DEF Pinned
<1>3. CASE /\ conn' = [conn EXCEPT ![p] = [host |-> h, pins |-> [pins EXCEPT ![h] = v]]]
           /\ UNCHANGED taken
  <2> DEFINE c == [host |-> h, pins |-> [pins EXCEPT ![h] = v]]
  <2>1. Pinning(c)
    BY <1>1 DEF Pinning, Pinned, PinFiles
  <2> HIDE DEF c
  <2>2. /\ conn' = [q \in Conns |-> conn'[q]]
        /\ \A q \in Conns : conn'[q] = IF q = p THEN c ELSE conn[q]
    BY <1>3 DEF Pinned, c
  <2> QED
    BY <1>1, <1>3, <2>1, <2>2 DEF Pinned
<1> QED
  BY <1>2, <1>3 DEF Check, Matches

LEMMA PinnedWrite ==
    ASSUME Pinned, NEW p \in Conns, save_pins(p) \/ save_fails(p) \/ Tear(p)
    PROVE  Pinned'
<1>1. PICK c : c = conn[p]
  OBVIOUS
<1>2. c.host \in Hosts /\ c.pins \in PinFiles /\ c.pins[c.host] # 0
  BY <1>1 DEF Pinned, Pinning, save_pins, save_fails, Tear
<1>3. /\ conn' = [q \in Conns |-> conn'[q]]
      /\ \A q \in Conns : conn'[q] = IF q = p THEN NoConn ELSE conn[q]
  BY DEF Pinned, save_pins, save_fails, Tear
<1>4. \A q \in Conns : conn'[q] = NoConn \/ Pinning(conn'[q])
  BY <1>3 DEF Pinned
<1>5. ASSUME taken' = [taken EXCEPT ![c.host] = @ \cup {c.pins[c.host]}]
      PROVE  /\ taken' = [h \in Hosts |-> taken'[h]]
             /\ \A h \in Hosts : taken'[h] = IF h = c.host THEN taken[h] \cup {c.pins[h]} ELSE taken[h]
  BY <1>2, <1>5 DEF Pinned
<1>6. CASE save_pins(p)
  <2>1. /\ pins' = c.pins /\ taken' = [taken EXCEPT ![c.host] = @ \cup {c.pins[c.host]}]
        /\ lost' = lost \cup {h \in Hosts : pins[h] \notin {0, c.pins[h]}}
    BY <1>1, <1>6 DEF save_pins
  <2>2. ASSUME NEW h \in Hosts, h \notin lost'
        PROVE  taken'[h] \subseteq {pins'[h]} \ {0}
    <3>1. taken[h] \subseteq {pins[h]} \ {0} /\ pins[h] \in {0, c.pins[h]}
      BY <2>1, <2>2 DEF Pinned
    <3>2. taken[h] \subseteq {c.pins[h]} \ {0}
      BY <3>1
    <3> QED
      BY <1>2, <1>5, <2>1, <3>2
  <2> QED
    BY <1>2, <1>3, <1>4, <1>5, <2>1, <2>2 DEF Pinned
<1>7. CASE Tear(p)
  <2>1. /\ pins' = [h \in Hosts |-> 0] /\ lost \cup {h \in Hosts : pins[h] # 0} \subseteq lost'
        /\ \/ UNCHANGED taken
           \/ taken' = [taken EXCEPT ![c.host] = @ \cup {c.pins[c.host]}] /\ c.host \in lost'
    BY <1>1, <1>7 DEF Tear
  <2>2. pins' \in PinFiles
    BY <2>1 DEF PinFiles
  <2>3. taken' = [h \in Hosts |-> taken'[h]]
    BY <1>5, <2>1 DEF Pinned
  <2>4. ASSUME NEW h \in Hosts, h \notin lost'
        PROVE  taken'[h] \subseteq {pins'[h]} \ {0}
    <3>1. pins[h] = 0 /\ taken[h] \subseteq {pins[h]} \ {0}
      BY <2>1, <2>4 DEF Pinned
    <3>2. taken'[h] = taken[h]
      BY <1>5, <2>1, <2>4
    <3> QED
      BY <3>1, <3>2
  <2> QED
    BY <1>3, <1>4, <2>2, <2>3, <2>4 DEF Pinned
<1>8. CASE save_fails(p)
  <2>1. /\ UNCHANGED pins /\ lost' = lost \cup {c.host}
        /\ taken' = [taken EXCEPT ![c.host] = @ \cup {c.pins[c.host]}]
    BY <1>1, <1>8 DEF save_fails
  <2> QED
    BY <1>3, <1>4, <1>5, <2>1 DEF Pinned
<1> QED
  BY <1>6, <1>7, <1>8

\* A client accepts one key per server over all its connections, unless another
\* writer, or a file torn or not written, lost the pin.
THEOREM TrustOnFirstUse == PinsSpec => []TofuHolds
<1>1. Pinned /\ [DiskNext \/ CacheNext]_pinvars => Pinned'
  <2> SUFFICES ASSUME Pinned, [DiskNext \/ CacheNext]_pinvars PROVE Pinned'
    OBVIOUS
  <2>1. CASE UNCHANGED diskvars
    BY <2>1 DEF Pinned, diskvars
  <2>2. CASE DiskNext
    BY <2>2, PinnedCheck, PinnedWrite DEF DiskNext
  <2>3. CASE CacheNext
    BY <2>1, <2>3 DEF CacheNext, cache_verifying_key, pin_verifying_key, get_cached_verifying_key,
       update_access
  <2> QED
    BY <2>1, <2>2, <2>3 DEF pinvars, diskvars
<1>2. Pinned => TofuHolds
  <2> SUFFICES ASSUME Pinned, NEW h \in Hosts, h \notin lost
               PROVE  Cardinality(taken[h]) <= 1
    BY DEF TofuHolds
  <2>1. taken[h] = {} \/ taken[h] = {pins[h]}
    BY DEF Pinned
  <2>2. Cardinality({}) = 0 /\ Cardinality({pins[h]}) = 1
    BY FS_EmptySet, FS_Singleton
  <2> QED
    BY <2>1, <2>2
<1> QED
  BY <1>1, <1>2, PinnedInit, PTL DEF PinsSpec

-----------------------------------------------------------------------------
(* The cache of verifying keys.                                            *)

Distinct(s) == \A i, j \in DOMAIN s : s[i] = s[j] => i = j

\* The fingerprint used last is at the end of the order, and bound unless the
\* cache has no room for it.
Cached ==
    /\ recent \in Seq(Peers) /\ Distinct(recent)
    /\ keys = [f \in Peers |-> keys[f]]
    /\ \A p \in Conns : looking[p] = 0 \/ looking[p] \in Peers
    /\ looking = [p \in Conns |-> looking[p]]
    /\ used # 0 => /\ used \in Peers /\ keys[used] # 0
                   /\ Len(recent) > 0 /\ recent[Len(recent)] = used

\* A fingerprint that is used moves to the end; the one used before stays next
\* to it.
LEMMA TouchedOrder ==
    ASSUME NEW f \in Peers, recent \in Seq(Peers), Distinct(recent)
    PROVE  LET r == Touched(f)
           IN  /\ r \in Seq(Peers) /\ Distinct(r) /\ Len(r) > 0 /\ r[Len(r)] = f
               /\ Len(recent) > 0 /\ recent[Len(recent)] # f =>
                     Len(r) > 1 /\ r[Len(r) - 1] = recent[Len(recent)]
<1>1. Len(recent) \in Nat /\ DOMAIN recent = 1..Len(recent)
  OBVIOUS
<1>2. CASE ~\E i \in DOMAIN recent : recent[i] = f
  <2>1. PICK r : r = Append(recent, f)
    OBVIOUS
  <2>2. /\ r \in Seq(Peers) /\ Len(r) = Len(recent) + 1 /\ r[Len(r)] = f
        /\ DOMAIN r = 1..Len(r) /\ \A i \in 1..Len(recent) : r[i] = recent[i]
    BY <2>1
  <2>3. Distinct(r)
    BY <1>1, <1>2, <2>2 DEF Distinct
  <2>4. Touched(f) = r
    BY <1>2, <2>1 DEF Touched
  <2> QED
    BY <1>1, <2>2, <2>3, <2>4
<1>3. CASE \E i \in DOMAIN recent : recent[i] = f
  <2>1. PICK k \in DOMAIN recent : k = CHOOSE i \in DOMAIN recent : recent[i] = f
    BY <1>3
  <2>2. recent[k] = f /\ k \in 1..Len(recent)
    BY <1>1, <1>3, <2>1
  <2>3. PICK a, b : a = SubSeq(recent, 1, k - 1) /\ b = SubSeq(recent, k + 1, Len(recent))
    OBVIOUS
  <2>4. /\ a \in Seq(Peers) /\ Len(a) = k - 1 /\ \A i \in 1..(k - 1) : a[i] = recent[i]
        /\ b \in Seq(Peers) /\ Len(b) = Len(recent) - k
        /\ \A i \in 1..(Len(recent) - k) : b[i] = recent[k + i]
    BY <1>1, <2>2, <2>3
  <2>5. PICK s : s = a \o b
    OBVIOUS
  <2>6. /\ s \in Seq(Peers) /\ Len(s) = Len(recent) - 1
        /\ \A i \in 1..Len(s) : s[i] = IF i < k THEN recent[i] ELSE recent[i + 1]
    <3>1. /\ s \in Seq(Peers) /\ Len(s) = Len(a) + Len(b)
          /\ \A i \in 1..(Len(a) + Len(b)) : s[i] = IF i <= Len(a) THEN a[i] ELSE b[i - Len(a)]
      BY <2>4, <2>5, ConcatProperties
    <3>2. Len(s) = Len(recent) - 1
      BY <1>1, <2>2, <2>4, <3>1
    <3>3. ASSUME NEW i \in 1..Len(s)
          PROVE  s[i] = IF i < k THEN recent[i] ELSE recent[i + 1]
      <4>1. i \in 1..(Len(recent) - 1) /\ s[i] = IF i <= k - 1 THEN a[i] ELSE b[i - (k - 1)]
        BY <1>1, <2>2, <2>4, <3>1, <3>2
      <4>2. CASE i < k
        BY <1>1, <2>2, <2>4, <4>1, <4>2
      <4>3. CASE i >= k
        <5>1. i - (k - 1) \in 1..(Len(recent) - k) /\ k + (i - (k - 1)) = i + 1
          BY <1>1, <2>2, <4>1, <4>3
        <5>2. b[i - (k - 1)] = recent[k + (i - (k - 1))]
          BY <2>4, <5>1
        <5> QED
          BY <1>1, <2>2, <4>1, <4>3, <5>1, <5>2
      <4> QED
        BY <1>1, <2>2, <4>1, <4>2, <4>3
    <3> QED
      BY <3>1, <3>2, <3>3
  <2>7. PICK r : r = Append(s, f)
    OBVIOUS
  <2>8. /\ r \in Seq(Peers) /\ Len(r) = Len(recent) /\ r[Len(r)] = f
        /\ DOMAIN r = 1..Len(r)
        /\ \A i \in 1..(Len(r) - 1) : r[i] = IF i < k THEN recent[i] ELSE recent[i + 1]
    <3>1. /\ r \in Seq(Peers) /\ Len(r) = Len(s) + 1 /\ r[Len(s) + 1] = f
          /\ \A i \in 1..Len(s) : r[i] = s[i]
      BY <2>6, <2>7
    <3>2. Len(r) = Len(recent) /\ Len(r) - 1 = Len(s) /\ Len(r) = Len(s) + 1
      BY <1>1, <2>2, <2>6, <3>1
    <3>3. DOMAIN r = 1..Len(r)
      BY <3>1
    <3> QED
      BY <2>6, <3>1, <3>2, <3>3
  <2>9. Distinct(r)
    <3>1. PICK n \in Nat : n = Len(recent)
      BY <1>1
    <3>2. k \in 1..n /\ Len(r) = n /\ DOMAIN r = 1..n /\ DOMAIN recent = 1..n
      BY <1>1, <2>2, <2>8, <3>1
    <3>3. \A i \in 1..n : r[i] = IF i = n THEN recent[k] ELSE IF i < k THEN recent[i] ELSE recent[i + 1]
      BY <2>2, <2>8, <3>2
    <3>4. ASSUME NEW i \in 1..n, NEW j \in 1..n, r[i] = r[j]
          PROVE  i = j
      <4>1. PICK x \in 1..n : /\ r[i] = recent[x]
                              /\ x = IF i = n THEN k ELSE IF i < k THEN i ELSE i + 1
        BY <3>2, <3>3
      <4>2. PICK y \in 1..n : /\ r[j] = recent[y]
                              /\ y = IF j = n THEN k ELSE IF j < k THEN j ELSE j + 1
        BY <3>2, <3>3
      <4>3. x = y
        BY <3>2, <3>4, <4>1, <4>2 DEF Distinct
      <4> QED
        BY <3>2, <4>1, <4>2, <4>3
    <3> QED
      BY <3>2, <3>4 DEF Distinct
  <2>10. Touched(f) = r
    BY <1>3, <2>1, <2>3, <2>5, <2>7 DEF Touched, RemoveAt
  <2> QED
    BY <1>1, <2>2, <2>8, <2>9, <2>10
<1> QED
  BY <1>2, <1>3
\* f is used; nothing is evicted.
LEMMA CachedTouch ==
    ASSUME Cached, NEW f \in Peers, recent' = Touched(f), used' = f, UNCHANGED keys, keys[f] # 0,
           \A p \in Conns : looking'[p] = 0 \/ looking'[p] \in Peers,
           looking' = [p \in Conns |-> looking'[p]]
    PROVE  Cached'
BY TouchedOrder DEF Cached

\* Bind keeps the key of f and, with room for two, that of the one used before.
LEMMA CachedBind ==
    ASSUME Cached, Capacity >= 2, NEW f \in Peers, NEW v, v # 0, Bind(f, v), used' = f,
           UNCHANGED looking
    PROVE  Cached' /\ (used # 0 => keys'[used] # 0)
<1>1. PICK r : r = Touched(f)
  OBVIOUS
<1>2. /\ r \in Seq(Peers) /\ Distinct(r) /\ Len(r) > 0 /\ r[Len(r)] = f
      /\ Len(recent) > 0 /\ recent[Len(recent)] # f =>
            Len(r) > 1 /\ r[Len(r) - 1] = recent[Len(recent)]
  BY <1>1, TouchedOrder DEF Cached
<1>3. Len(r) \in Nat /\ DOMAIN r = 1..Len(r)
  BY <1>2
<1>4. /\ recent' = IF Len(r) > Capacity THEN Tail(r) ELSE r
      /\ keys' = [g \in Peers |-> IF Len(r) > Capacity /\ g = Head(r) THEN 0
                                  ELSE IF g = f THEN v ELSE keys[g]]
  BY <1>1 DEF Bind
<1>5. keys' = [g \in Peers |-> keys'[g]]
  BY <1>4
<1>6. ASSUME NEW i \in 1..Len(r), i > 1, Len(r) > Capacity
      PROVE  r[i] # Head(r)
  <2>1. Head(r) = r[1]
    BY <1>2, <1>3
  <2> QED
    BY <1>2, <1>3, <1>6, <2>1 DEF Distinct
<1>7. keys'[f] # 0
  <2>1. Len(r) > Capacity => r[Len(r)] # Head(r)
    BY <1>2, <1>3, <1>6, PinsAssumption
  <2> QED
    BY <1>2, <1>4, <2>1
<1>8. used # 0 => keys'[used] # 0
  <2>1. SUFFICES ASSUME used # 0, used # f PROVE keys'[used] # 0
    BY <1>7
  <2>2. used \in Peers /\ keys[used] # 0 /\ Len(recent) > 0 /\ recent[Len(recent)] = used
    BY <2>1 DEF Cached
  <2>3. Len(r) > 1 /\ r[Len(r) - 1] = used
    BY <1>2, <2>1, <2>2
  <2>4. Len(r) > Capacity => r[Len(r) - 1] # Head(r)
    BY <1>3, <1>6, PinsAssumption
  <2> QED
    BY <1>4, <2>1, <2>2, <2>3, <2>4
<1>9. recent' \in Seq(Peers) /\ Distinct(recent') /\ Len(recent') > 0 /\ recent'[Len(recent')] = f
  <2>1. CASE ~(Len(r) > Capacity)
    BY <1>2, <1>4, <2>1
  <2>2. CASE Len(r) > Capacity
    <3>1. PICK s : s = Tail(r)
      OBVIOUS
    <3>2. /\ s \in Seq(Peers) /\ Len(s) = Len(r) - 1 /\ DOMAIN s = 1..(Len(r) - 1)
          /\ \A i \in 1..(Len(r) - 1) : s[i] = r[i + 1]
      BY <1>2, <1>3, <3>1
    <3>3. Distinct(s)
      <4> SUFFICES ASSUME NEW i \in 1..(Len(r) - 1), NEW j \in 1..(Len(r) - 1), s[i] = s[j]
                   PROVE  i = j
        BY <3>2 DEF Distinct
      <4>1. i + 1 \in 1..Len(r) /\ j + 1 \in 1..Len(r) /\ r[i + 1] = r[j + 1]
        BY <1>3, <3>2
      <4>2. i + 1 = j + 1
        BY <1>2, <1>3, <4>1 DEF Distinct
      <4> QED
        BY <1>3, <4>2
    <3>4. Len(s) > 0 /\ s[Len(s)] = f
      BY <1>2, <1>3, <2>2, <3>2, PinsAssumption
    <3> QED
      BY <1>4, <2>2, <3>1, <3>2, <3>3, <3>4
  <2> QED
    BY <2>1, <2>2
<1>10. Cached'
  BY <1>5, <1>7, <1>9 DEF Cached
<1> QED
  BY <1>8, <1>10

LEMMA CachedNext ==
    ASSUME Capacity >= 2, Cached, [DiskNext \/ CacheNext]_pinvars
    PROVE  Cached' /\ (used # 0 => keys'[used] # 0)
<1>1. CASE UNCHANGED cachevars
  BY <1>1 DEF Cached, cachevars
<1>2. CASE DiskNext
  BY <1>1, <1>2 DEF DiskNext, Check, save_pins, save_fails, Tear
<1>3. ASSUME NEW f \in Peers, NEW v \in Values, cache_verifying_key(f, v)
      PROVE  Cached' /\ (used # 0 => keys'[used] # 0)
  BY <1>3, CachedBind, PinsAssumption DEF cache_verifying_key
<1>4. ASSUME NEW f \in Peers, NEW v \in Values, pin_verifying_key(f, v)
      PROVE  Cached' /\ (used # 0 => keys'[used] # 0)
  <2>1. v # 0 /\ used' = f /\ UNCHANGED looking
    BY <1>4, PinsAssumption DEF pin_verifying_key
  <2>2. CASE Bind(f, v)
    BY <2>1, <2>2, CachedBind
  <2>3. CASE keys[f] = v /\ recent' = Touched(f) /\ UNCHANGED keys
    <3>1. Cached'
      BY <2>1, <2>3, CachedTouch DEF Cached
    <3> QED
      BY <2>3, <3>1 DEF Cached
  <2> QED
    BY <1>4, <2>2, <2>3 DEF pin_verifying_key
<1>5. ASSUME NEW p \in Conns, NEW f \in Peers, get_cached_verifying_key(p, f)
      PROVE  Cached' /\ (used # 0 => keys'[used] # 0)
  BY <1>5 DEF get_cached_verifying_key, Cached
<1>6. ASSUME NEW p \in Conns, update_access(p)
      PROVE  Cached' /\ (used # 0 => keys'[used] # 0)
  <2>1. PICK f \in Peers : f = looking[p]
    BY <1>6 DEF update_access, Cached
  <2>2. /\ looking' = [q \in Conns |-> looking'[q]]
        /\ \A q \in Conns : looking'[q] = 0 \/ looking'[q] \in Peers
    BY <1>6 DEF update_access, Cached
  <2>3. CASE keys[f] # 0
    <3>1. recent' = Touched(f) /\ used' = f /\ UNCHANGED keys
      BY <1>6, <2>1, <2>3 DEF update_access
    <3>2. Cached'
      BY <2>2, <2>3, <3>1, CachedTouch
    <3> QED
      BY <3>1, <3>2 DEF Cached
  <2>4. CASE ~(keys[f] # 0)
    BY <1>6, <2>1, <2>2, <2>4 DEF update_access, Cached
  <2> QED
    BY <2>3, <2>4
<1> QED
  BY <1>1, <1>2, <1>3, <1>4, <1>5, <1>6 DEF CacheNext, pinvars, cachevars

\* With room for two, the key that was pinned last, or whose look-up was written
\* down last, is not the one that the next binding evicts, whatever look-ups are
\* between their two locks.
THEOREM InUseStaysBound == PinsSpec => StaysBound
<1>1. CASE Capacity >= 2
  <2>1. PinsInit => Cached
    BY DEF PinsInit, Cached, Distinct
  <2>2. Cached /\ [DiskNext \/ CacheNext]_pinvars => Cached'
    BY <1>1, CachedNext
  <2>3. Cached /\ [DiskNext \/ CacheNext]_pinvars =>
           [Capacity >= 2 /\ used # 0 => keys'[used] # 0]_pinvars
    BY <1>1, CachedNext
  <2> QED
    BY <2>1, <2>2, <2>3, PTL DEF PinsSpec, StaysBound
<1>2. CASE ~(Capacity >= 2)
  <2>1. [DiskNext \/ CacheNext]_pinvars => [Capacity >= 2 /\ used # 0 => keys'[used] # 0]_pinvars
    BY <1>2
  <2> QED
    BY <2>1, PTL DEF PinsSpec, StaysBound
<1> QED
  BY <1>1, <1>2

-----------------------------------------------------------------------------
(* Rows of the message store.                                              *)

Rows == [id : Nat, mid : Mids \cup {Old}, enc : BOOLEAN, body : Nat, status : Nat]

\* A row that is not encrypted holds the text, an encrypted one the text
\* encrypted once.
Sound(R) == \A r \in R : r.body = IF r.enc THEN 1 ELSE 0

PCs == {"closed", "probe", "alter", "select", "update", "ready", "listed", "status", "record"}

Ops == [pc : PCs, t : Tables, n : Nat, snap : SUBSET Rows, alone : BOOLEAN]

\* An old row that is about to be encrypted was read with its text.
IsOp(x) == x \in Ops /\ (x.pc = "update" => \A o \in x.snap : o.body = 0)

StoreRows ==
    /\ rows \subseteq Rows /\ srows \subseteq Rows /\ auto \in Nat
    /\ Sound(rows) /\ Sound(srows)
    /\ op = [p \in Procs |-> op[p]]
    /\ \A p \in Procs : IsOp(op[p])

LEMMA RowSound ==
    ASSUME NEW id \in Nat, NEW mid \in Mids \cup {Old}, NEW enc \in BOOLEAN
    PROVE  Row(id, mid, enc) \in Rows /\ Sound({Row(id, mid, enc)})
BY DEF Row, Rows, Sound

LEMMA EncryptedSound ==
    ASSUME NEW R, R \subseteq Rows, Sound(R), NEW o, o.body = 0
    PROVE  Encrypted(R, o) \subseteq Rows /\ Sound(Encrypted(R, o))
<1> SUFFICES ASSUME NEW r \in R
             PROVE  LET x == IF r.id = o.id THEN [r EXCEPT !.enc = TRUE, !.body = o.body + 1] ELSE r
                    IN  x \in Rows /\ x.body = IF x.enc THEN 1 ELSE 0
  BY DEF Encrypted, Sound
<1>1. r \in Rows /\ r.body = IF r.enc THEN 1 ELSE 0
  BY DEF Sound
<1>2. PICK y : y = [r EXCEPT !.enc = TRUE]
  OBVIOUS
<1>3. y \in Rows /\ y.enc = TRUE
  BY <1>1, <1>2 DEF Rows
<1>4. PICK z : z = [y EXCEPT !.body = 1]
  OBVIOUS
<1>5. z \in Rows /\ z.enc = TRUE /\ z.body = 1
  BY <1>3, <1>4 DEF Rows
<1>6. [r EXCEPT !.enc = TRUE, !.body = o.body + 1] = z
  <2>1. o.body + 1 = 1
    OBVIOUS
  <2> QED
    BY <1>2, <1>4, <2>1
<1> QED
  BY <1>1, <1>5, <1>6

\* A command's step changes its own entry only.
LEMMA OpStep ==
    ASSUME StoreRows, NEW p \in Procs, NEW x, op' = [op EXCEPT ![p] = x], IsOp(x)
    PROVE  /\ op' = [q \in Procs |-> op'[q]]
           /\ \A q \in Procs : IsOp(op'[q])
           /\ \A q \in Procs : op'[q] = IF q = p THEN x ELSE op[q]
<1>1. op' = [q \in Procs |-> op'[q]] /\ \A q \in Procs : op'[q] = IF q = p THEN x ELSE op[q]
  BY DEF StoreRows
<1> QED
  BY <1>1 DEF StoreRows

LEMMA ClosedIsOp == IsOp(Closed) /\ IsOp(Ready) /\ Closed.pc = "closed" /\ Ready.pc = "ready"
BY DEF IsOp, Ops, PCs, Closed, Ready, Tables


\* The fields of an entry of which some change.
Has(y, pc, t, n, snap, alone) ==
    y \in Ops /\ y.pc = pc /\ y.t = t /\ y.n = n /\ y.snap = snap /\ y.alone = alone

LEMMA OpUpdates ==
    ASSUME NEW x \in Ops, NEW pc \in PCs, NEW t \in Tables, NEW n \in Nat, NEW snap \in SUBSET Rows
    PROVE  /\ Has([x EXCEPT !.pc = pc], pc, x.t, x.n, x.snap, x.alone)
           /\ Has([x EXCEPT !.t = t], x.pc, t, x.n, x.snap, x.alone)
           /\ Has([x EXCEPT !.n = n], x.pc, x.t, n, x.snap, x.alone)
           /\ Has([x EXCEPT !.snap = snap], x.pc, x.t, x.n, snap, x.alone)
           /\ Has([x EXCEPT !.pc = pc, !.n = n], pc, x.t, n, x.snap, x.alone)
           /\ Has([x EXCEPT !.pc = pc, !.t = t], pc, t, x.n, x.snap, x.alone)
           /\ Has([x EXCEPT !.pc = pc, !.snap = snap], pc, x.t, x.n, snap, x.alone)
           /\ \A a \in BOOLEAN : /\ Has([x EXCEPT !.alone = a], x.pc, x.t, x.n, x.snap, a)
                                 /\ Has([x EXCEPT !.pc = pc, !.alone = a], pc, x.t, x.n, x.snap, a)
<1>1. /\ Has([x EXCEPT !.pc = pc], pc, x.t, x.n, x.snap, x.alone)
      /\ Has([x EXCEPT !.t = t], x.pc, t, x.n, x.snap, x.alone)
      /\ Has([x EXCEPT !.n = n], x.pc, x.t, n, x.snap, x.alone)
      /\ Has([x EXCEPT !.snap = snap], x.pc, x.t, x.n, snap, x.alone)
      /\ \A a \in BOOLEAN : Has([x EXCEPT !.alone = a], x.pc, x.t, x.n, x.snap, a)
  BY DEF Has, Ops
<1>2. PICK y : y = [x EXCEPT !.pc = pc]
  OBVIOUS
<1>3. Has(y, pc, x.t, x.n, x.snap, x.alone)
  BY <1>1, <1>2
<1>4. /\ [x EXCEPT !.pc = pc, !.n = n] = [y EXCEPT !.n = n]
      /\ [x EXCEPT !.pc = pc, !.t = t] = [y EXCEPT !.t = t]
      /\ [x EXCEPT !.pc = pc, !.snap = snap] = [y EXCEPT !.snap = snap]
      /\ \A a \in BOOLEAN : [x EXCEPT !.pc = pc, !.alone = a] = [y EXCEPT !.alone = a]
  BY <1>2
<1>5. /\ Has([y EXCEPT !.n = n], pc, x.t, n, x.snap, x.alone)
      /\ Has([y EXCEPT !.t = t], pc, t, x.n, x.snap, x.alone)
      /\ Has([y EXCEPT !.snap = snap], pc, x.t, x.n, snap, x.alone)
      /\ \A a \in BOOLEAN : Has([y EXCEPT !.alone = a], pc, x.t, x.n, x.snap, a)
  BY <1>3 DEF Has, Ops
<1> QED
  BY <1>1, <1>4, <1>5

-----------------------------------------------------------------------------
(* What each step of opening makes of the command's entry.                 *)

LEMMA ProbeStep ==
    ASSUME StoreRows, NEW p \in Procs, Probe(p)
    PROVE  LET j == op[p] IN
           \E x : /\ op' = [op EXCEPT ![p] = x]
                  /\ IF cols[j.t] < ProbedCol(j.t) THEN Has(x, "alter", j.t, 1, j.snap, j.alone)
                     ELSE IF j.t = "messages" THEN Has(x, "probe", "sessions", j.n, j.snap, j.alone)
                     ELSE Has(x, "select", "messages", j.n, j.snap, j.alone)
<1>1. PICK j : j = op[p]
  OBVIOUS
<1>2. j \in Ops /\ j.pc = "probe"
  BY <1>1 DEF StoreRows, IsOp, Probe
<1> DEFINE x == IF cols[j.t] < ProbedCol(j.t) THEN [j EXCEPT !.pc = "alter", !.n = 1]
                ELSE IF j.t = "messages" THEN [j EXCEPT !.t = "sessions"]
                ELSE [j EXCEPT !.pc = "select", !.t = "messages"]
<1>3. op' = [op EXCEPT ![p] = x]
  BY <1>1 DEF Probe
<1>4. /\ Has([j EXCEPT !.pc = "alter", !.n = 1], "alter", j.t, 1, j.snap, j.alone)
      /\ Has([j EXCEPT !.t = "sessions"], "probe", "sessions", j.n, j.snap, j.alone)
      /\ Has([j EXCEPT !.pc = "select", !.t = "messages"], "select", "messages", j.n, j.snap, j.alone)
  <2>1. \A n \in Nat : Has([j EXCEPT !.pc = "alter", !.n = n], "alter", j.t, n, j.snap, j.alone)
    BY <1>2, OpUpdates DEF PCs, Tables, Ops
  <2>2. \A t \in Tables : /\ Has([j EXCEPT !.t = t], "probe", t, j.n, j.snap, j.alone)
                          /\ Has([j EXCEPT !.pc = "select", !.t = t], "select", t, j.n, j.snap, j.alone)
    BY <1>2, OpUpdates DEF PCs, Tables, Ops
  <2> QED
    BY <2>1, <2>2 DEF Tables
<1>5. IF cols[j.t] < ProbedCol(j.t) THEN Has(x, "alter", j.t, 1, j.snap, j.alone)
      ELSE IF j.t = "messages" THEN Has(x, "probe", "sessions", j.n, j.snap, j.alone)
      ELSE Has(x, "select", "messages", j.n, j.snap, j.alone)
  BY <1>4
<1> HIDE DEF x
<1> QED
  BY <1>1, <1>3, <1>5

LEMMA AlterStep ==
    ASSUME StoreRows, NEW p \in Procs, Alter(p)
    PROVE  LET j == op[p] IN
           \E x : /\ op' = [op EXCEPT ![p] = x]
                  /\ IF cols[j.t] >= j.n THEN x = Closed /\ UNCHANGED cols
                     ELSE /\ cols' = [cols EXCEPT ![j.t] = j.n]
                          /\ IF j.n < NCols[j.t] THEN Has(x, "alter", j.t, j.n + 1, j.snap, j.alone)
                             ELSE IF j.t = "messages"
                             THEN Has(x, "probe", "sessions", j.n, j.snap, j.alone)
                             ELSE Has(x, "select", "messages", j.n, j.snap, j.alone)
<1>1. PICK j : j = op[p]
  OBVIOUS
<1>2. j \in Ops /\ j.pc = "alter" /\ j.n \in Nat
  BY <1>1 DEF StoreRows, IsOp, Alter, Ops
<1>3. CASE cols[j.t] >= j.n
  BY <1>1, <1>3 DEF Alter
<1>4. CASE ~(cols[j.t] >= j.n)
  <2> DEFINE x == IF j.n < NCols[j.t] THEN [j EXCEPT !.n = j.n + 1]
                  ELSE IF j.t = "messages" THEN [j EXCEPT !.pc = "probe", !.t = "sessions"]
                  ELSE [j EXCEPT !.pc = "select", !.t = "messages"]
  <2>1. op' = [op EXCEPT ![p] = x] /\ cols' = [cols EXCEPT ![j.t] = j.n]
    BY <1>1, <1>4 DEF Alter
  <2>2. /\ Has([j EXCEPT !.n = j.n + 1], "alter", j.t, j.n + 1, j.snap, j.alone)
        /\ Has([j EXCEPT !.pc = "probe", !.t = "sessions"], "probe", "sessions", j.n, j.snap, j.alone)
        /\ Has([j EXCEPT !.pc = "select", !.t = "messages"], "select", "messages", j.n, j.snap, j.alone)
    <3>1. \A n \in Nat : Has([j EXCEPT !.n = n], "alter", j.t, n, j.snap, j.alone)
      BY <1>2, OpUpdates DEF PCs, Tables, Ops
    <3>2. \A t \in Tables, pc \in PCs : Has([j EXCEPT !.pc = pc, !.t = t], pc, t, j.n, j.snap, j.alone)
      BY <1>2, OpUpdates DEF Ops
    <3>3. j.n + 1 \in Nat
      BY <1>2
    <3> QED
      BY <3>1, <3>2, <3>3 DEF Tables, PCs
  <2>3. IF j.n < NCols[j.t] THEN Has(x, "alter", j.t, j.n + 1, j.snap, j.alone)
        ELSE IF j.t = "messages" THEN Has(x, "probe", "sessions", j.n, j.snap, j.alone)
        ELSE Has(x, "select", "messages", j.n, j.snap, j.alone)
    BY <2>2
  <2> HIDE DEF x
  <2> QED
    BY <1>1, <1>4, <2>1, <2>3
<1> QED
  BY <1>3, <1>4

LEMMA SelectStep ==
    ASSUME StoreRows, NEW p \in Procs, Select(p)
    PROVE  \E x : /\ op' = [op EXCEPT ![p] = x]
                  /\ Has(x, "update", op[p].t, op[p].n, Legacy(op[p].t), op[p].alone)
<1>1. PICK j : j = op[p]
  OBVIOUS
<1>2. j \in Ops
  BY <1>1 DEF StoreRows, IsOp
<1>3. Legacy(j.t) \in SUBSET Rows
  BY DEF Legacy, RowsOf, StoreRows
<1>4. PICK x : x = [j EXCEPT !.pc = "update", !.snap = Legacy(j.t)]
  OBVIOUS
<1>5. op' = [op EXCEPT ![p] = x]
  BY <1>1, <1>4 DEF Select
<1>6. Has(x, "update", j.t, j.n, Legacy(j.t), j.alone)
  <2>1. \A snap \in SUBSET Rows :
           Has([j EXCEPT !.pc = "update", !.snap = snap], "update", j.t, j.n, snap, j.alone)
    BY <1>2, OpUpdates DEF PCs, Tables, Ops
  <2> QED
    BY <1>3, <1>4, <2>1
<1> QED
  BY <1>1, <1>5, <1>6

LEMMA UpdateStep ==
    ASSUME StoreRows, NEW p \in Procs, Update(p)
    PROVE  LET j == op[p] IN
           \E x : /\ op' = [op EXCEPT ![p] = x]
                  /\ IF cols[j.t] < NCols[j.t] THEN x = Closed /\ UNCHANGED <<rows, srows>>
                     ELSE \E o \in j.snap :
                          /\ rows' = IF j.t = "messages" THEN Encrypted(rows, o) ELSE rows
                          /\ srows' = IF j.t = "sessions" THEN Encrypted(srows, o) ELSE srows
                          /\ Has(x, "update", j.t, j.n, j.snap \ {o}, j.alone)
<1>1. PICK j : j = op[p]
  OBVIOUS
<1>2. j \in Ops /\ j.pc = "update"
  BY <1>1 DEF StoreRows, IsOp, Update
<1>3. CASE cols[j.t] < NCols[j.t]
  BY <1>1, <1>3 DEF Update
<1>4. CASE ~(cols[j.t] < NCols[j.t])
  <2>1. PICK o \in j.snap : /\ rows' = IF j.t = "messages" THEN Encrypted(rows, o) ELSE rows
                            /\ srows' = IF j.t = "sessions" THEN Encrypted(srows, o) ELSE srows
                            /\ op' = [op EXCEPT ![p].snap = @ \ {o}]
    BY <1>1, <1>4 DEF Update
  <2>2. PICK x : x = [j EXCEPT !.snap = j.snap \ {o}]
    OBVIOUS
  <2>3. op' = [op EXCEPT ![p] = x]
    BY <1>1, <2>1, <2>2
  <2>4. j.snap \ {o} \in SUBSET Rows
    BY <1>2 DEF Ops
  <2>5. Has(x, "update", j.t, j.n, j.snap \ {o}, j.alone)
    <3>1. \A snap \in SUBSET Rows : Has([j EXCEPT !.snap = snap], "update", j.t, j.n, snap, j.alone)
      BY <1>2, OpUpdates DEF PCs, Tables, Ops
    <3> QED
      BY <2>2, <2>4, <3>1
  <2> QED
    BY <1>1, <1>4, <2>1, <2>3, <2>5
<1> QED
  BY <1>3, <1>4

LEMMA UpdatedStep ==
    ASSUME StoreRows, NEW p \in Procs, Updated(p)
    PROVE  \E x : /\ op' = [op EXCEPT ![p] = x]
                  /\ IF op[p].t = "messages"
                     THEN Has(x, "select", "sessions", op[p].n, op[p].snap, op[p].alone)
                     ELSE x = Ready
<1>1. PICK j : j = op[p]
  OBVIOUS
<1>2. j \in Ops
  BY <1>1 DEF StoreRows, IsOp
<1>3. CASE j.t = "messages"
  <2>1. PICK x : x = [j EXCEPT !.pc = "select", !.t = "sessions"]
    OBVIOUS
  <2>2. op' = [op EXCEPT ![p] = x]
    BY <1>1, <1>3, <2>1 DEF Updated
  <2>3. Has(x, "select", "sessions", j.n, j.snap, j.alone)
    <3>1. \A t \in Tables : Has([j EXCEPT !.pc = "select", !.t = t], "select", t, j.n, j.snap, j.alone)
      BY <1>2, OpUpdates DEF PCs, Ops
    <3> QED
      BY <2>1, <3>1 DEF Tables
  <2> QED
    BY <1>1, <1>3, <2>2, <2>3
<1>4. CASE j.t # "messages"
  BY <1>1, <1>4 DEF Updated
<1> QED
  BY <1>3, <1>4

\* A command with an open store changes neither columns nor another command,
\* and does not open it.
LEMMA ReadyStep ==
    ASSUME StoreRows, NEW p \in Procs,
           \/ \E mid \in Mids : store_message(p, mid) \/ ReadStatus(p, mid)
           \/ get_messages(p) \/ delete_message(p) \/ SetStatus(p) \/ Record(p)
    PROVE  /\ \E x : op' = [op EXCEPT ![p] = x] /\ IsOp(x) /\ x.pc \in {"ready", "listed", "status", "record"}
           /\ op[p].pc \in {"ready", "listed", "status", "record"}
           /\ UNCHANGED <<legacy, cols, srows, cut>>
<1>1. PICK j : j = op[p]
  OBVIOUS
<1>2. j \in Ops /\ IsOp(j) /\ op = [q \in Procs |-> op[q]] /\ rows \subseteq Rows
  BY <1>1 DEF StoreRows, IsOp
<1>3. UNCHANGED <<legacy, cols, srows, cut>> /\ j.pc \in {"ready", "listed", "status", "record"}
  BY <1>1 DEF store_message, ReadStatus, get_messages, delete_message, SetStatus, Record, Unchanged
<1>4. ASSUME NEW pc \in {"listed", "status"}, NEW snap \in SUBSET Rows,
             op' = [op EXCEPT ![p] = [@ EXCEPT !.pc = pc, !.snap = snap]]
      PROVE  \E x : op' = [op EXCEPT ![p] = x] /\ IsOp(x) /\ x.pc \in {"ready", "listed", "status", "record"}
  <2>1. PICK x : x = [j EXCEPT !.pc = pc, !.snap = snap]
    OBVIOUS
  <2>2. Has(x, pc, j.t, j.n, snap, j.alone)
    <3>1. pc \in PCs /\ j.t \in Tables /\ j.n \in Nat
      BY <1>2 DEF PCs, Ops
    <3>2. \A c \in PCs : Has([j EXCEPT !.pc = c, !.snap = snap], c, j.t, j.n, snap, j.alone)
      BY <1>2, <3>1, OpUpdates
    <3> QED
      BY <2>1, <3>1, <3>2
  <2>3. op' = [op EXCEPT ![p] = x]
    BY <1>1, <1>4, <2>1
  <2> QED
    BY <2>2, <2>3 DEF Has, IsOp
<1>5. ASSUME op' = [op EXCEPT ![p] = [@ EXCEPT !.pc = "record"]]
      PROVE  \E x : op' = [op EXCEPT ![p] = x] /\ IsOp(x) /\ x.pc \in {"ready", "listed", "status", "record"}
  <2>1. PICK x : x = [j EXCEPT !.pc = "record"]
    OBVIOUS
  <2>2. Has(x, "record", j.t, j.n, j.snap, j.alone)
    BY <1>2, <2>1, OpUpdates DEF PCs, Ops
  <2>3. op' = [op EXCEPT ![p] = x]
    BY <1>1, <1>5, <2>1
  <2> QED
    BY <2>2, <2>3 DEF Has, IsOp
<1>6. ASSUME op' = [op EXCEPT ![p] = Ready]
      PROVE  \E x : op' = [op EXCEPT ![p] = x] /\ IsOp(x) /\ x.pc \in {"ready", "listed", "status", "record"}
  BY <1>6, ClosedIsOp
<1>7. ASSUME NEW mid \in Mids, store_message(p, mid)
      PROVE  op' = [op EXCEPT ![p] = j] /\ j.pc = "ready"
  BY <1>1, <1>2, <1>7 DEF store_message
<1>8. CASE \E mid \in Mids : store_message(p, mid)
  BY <1>1, <1>2, <1>3, <1>7, <1>8
<1>9. CASE \E mid \in Mids : ReadStatus(p, mid)
  <2>1. PICK r \in rows : op' = [op EXCEPT ![p] = [@ EXCEPT !.pc = "status", !.snap = {r}]]
    BY <1>9 DEF ReadStatus
  <2>2. {r} \in SUBSET Rows
    BY <1>2
  <2> QED
    BY <1>1, <1>3, <1>4, <2>1, <2>2
<1>10. CASE get_messages(p)
  <2>1. PICK snap : snap = {r \in rows : r.enc /\ r.body = 1}
    OBVIOUS
  <2>2. snap \in SUBSET Rows /\ op' = [op EXCEPT ![p] = [@ EXCEPT !.pc = "listed", !.snap = snap]]
    BY <1>2, <1>10, <2>1 DEF get_messages
  <2> QED
    BY <1>1, <1>3, <1>4, <2>2
<1>11. CASE delete_message(p) \/ SetStatus(p) \/ Record(p)
  <2>1. op' = [op EXCEPT ![p] = Ready] \/ op' = [op EXCEPT ![p] = [@ EXCEPT !.pc = "record"]]
    BY <1>11 DEF delete_message, SetStatus, Record
  <2> QED
    BY <1>1, <1>3, <1>5, <1>6, <2>1
<1> QED
  BY <1>8, <1>9, <1>10, <1>11

\* What those steps make of the rows.
LEMMA ReadyRows ==
    ASSUME StoreRows, NEW p \in Procs,
           \/ \E mid \in Mids : store_message(p, mid) \/ ReadStatus(p, mid)
           \/ get_messages(p) \/ delete_message(p) \/ SetStatus(p) \/ Record(p)
    PROVE  rows' \subseteq Rows /\ Sound(rows') /\ auto' \in Nat
<1>1. rows \subseteq Rows /\ Sound(rows) /\ auto \in Nat
  BY DEF StoreRows
<1>2. CASE UNCHANGED <<rows, auto>>
  BY <1>1, <1>2
<1>3. ASSUME NEW mid \in Mids, rows' = rows \cup {Row(NextId, mid, TRUE)}, auto' = auto + 1
      PROVE  rows' \subseteq Rows /\ Sound(rows') /\ auto' \in Nat
  <2>1. PICK r : r = Row(NextId, mid, TRUE)
    OBVIOUS
  <2>2. r \in Rows /\ Sound({r})
    <3>1. NextId \in Nat
      BY <1>1 DEF NextId
    <3> QED
      BY <2>1, <3>1, RowSound
  <2>3. rows' = rows \cup {r} /\ auto' \in Nat
    BY <1>1, <1>3, <2>1
  <2> QED
    BY <1>1, <2>2, <2>3 DEF Sound
<1>4. CASE delete_message(p)
  BY <1>1, <1>4 DEF delete_message, Unchanged, Sound
<1>5. CASE SetStatus(p)
  <2> DEFINE next(r) == IF r.enc /\ r.mid = Read(p).mid THEN [r EXCEPT !.status = 3] ELSE r
  <2>1. rows' = {next(r) : r \in rows} /\ UNCHANGED auto
    BY <1>5 DEF SetStatus, Unchanged
  <2>2. \A r \in rows : next(r) \in Rows /\ next(r).body = IF next(r).enc THEN 1 ELSE 0
    <3> SUFFICES ASSUME NEW r \in rows
                 PROVE  next(r) \in Rows /\ next(r).body = IF next(r).enc THEN 1 ELSE 0
      OBVIOUS
    <3>1. r \in Rows /\ r.body = IF r.enc THEN 1 ELSE 0
      BY <1>1 DEF Sound
    <3>2. PICK z : z = [r EXCEPT !.status = 3]
      OBVIOUS
    <3>3. z \in Rows /\ z.enc = r.enc /\ z.body = r.body
      BY <3>1, <3>2 DEF Rows
    <3>4. next(r) = r \/ next(r) = z
      BY <3>2
    <3> HIDE DEF next
    <3> QED
      BY <3>1, <3>3, <3>4
  <2> HIDE DEF next
  <2> QED
    BY <1>1, <2>1, <2>2 DEF Sound
<1> QED
  BY <1>2, <1>3, <1>4, <1>5 DEF store_message, ReadStatus, get_messages, Record, Unchanged

LEMMA OpenStep ==
    ASSUME StoreRows, NEW p \in Procs, open(p)
    PROVE  /\ op' = [q \in Procs |-> op'[q]]
           /\ Has(op'[p], "probe", "messages", 0, {}, \A y \in Procs : ~Opening(op[y]))
           /\ \A q \in Procs : q # p =>
                 Has(op'[q], op[q].pc, op[q].t, op[q].n, op[q].snap, FALSE)
           /\ UNCHANGED <<legacy, auto, cols, rows, srows, cut>>
<1>1. PICK a \in BOOLEAN : a = \A y \in Procs : ~Opening(op[y])
  OBVIOUS
<1>2. op' = [x \in Procs |-> IF x = p THEN [Closed EXCEPT !.pc = "probe", !.alone = a]
                             ELSE [op[x] EXCEPT !.alone = FALSE]]
  BY <1>1 DEF open
<1>3. Closed \in Ops /\ Closed.t = "messages" /\ Closed.n = 0 /\ Closed.snap = {}
  BY ClosedIsOp DEF IsOp, Closed
<1>4. Has([Closed EXCEPT !.pc = "probe", !.alone = a], "probe", "messages", 0, {}, a)
  BY <1>3, OpUpdates DEF PCs, Tables, Ops
<1>5. ASSUME NEW q \in Procs
      PROVE  Has([op[q] EXCEPT !.alone = FALSE], op[q].pc, op[q].t, op[q].n, op[q].snap, FALSE)
  <2>1. PICK x : x = op[q]
    OBVIOUS
  <2>2. x \in Ops
    BY <2>1 DEF StoreRows, IsOp
  <2>3. Has([x EXCEPT !.alone = FALSE], x.pc, x.t, x.n, x.snap, FALSE)
    BY <2>2, OpUpdates DEF PCs, Tables, Ops
  <2> QED
    BY <2>1, <2>3
<1>6. UNCHANGED <<legacy, auto, cols, rows, srows, cut>>
  BY DEF open, Unchanged
<1>7. op'[p] = [Closed EXCEPT !.pc = "probe", !.alone = a]
  BY <1>2
<1>8. \A q \in Procs : q # p => op'[q] = [op[q] EXCEPT !.alone = FALSE]
  BY <1>2
<1>9. op' = [q \in Procs |-> op'[q]]
  BY <1>2
<1>10. Has(op'[p], "probe", "messages", 0, {}, \A y \in Procs : ~Opening(op[y]))
  BY <1>1, <1>4, <1>7
<1> QED
  BY <1>5, <1>6, <1>8, <1>9, <1>10

LEMMA StoreRowsNext == StoreRows /\ [StoreNext]_storevars => StoreRows'
<1> SUFFICES ASSUME StoreRows, [StoreNext]_storevars PROVE StoreRows'
  OBVIOUS
<1>1. ASSUME NEW p \in Procs, NEW x, op' = [op EXCEPT ![p] = x], IsOp(x),
             rows' \subseteq Rows, srows' \subseteq Rows, auto' \in Nat, Sound(rows'), Sound(srows')
      PROVE  StoreRows'
  <2>1. op' = [q \in Procs |-> op'[q]] /\ \A q \in Procs : IsOp(op'[q])
    BY <1>1, OpStep
  <2> QED
    BY <1>1, <2>1 DEF StoreRows
<1>2. ASSUME NEW p \in Procs, NEW x, op' = [op EXCEPT ![p] = x], IsOp(x), UNCHANGED <<rows, srows, auto>>
      PROVE  StoreRows'
  BY <1>1, <1>2 DEF StoreRows
<1>3. CASE UNCHANGED storevars
  BY <1>3 DEF storevars, StoreRows
<1>4. ASSUME NEW p \in Procs, open(p)
      PROVE  StoreRows'
  <2>1. \A q \in Procs : IsOp(op'[q])
    BY <1>4, OpenStep DEF Has, IsOp, StoreRows
  <2> QED
    BY <1>4, <2>1, OpenStep DEF StoreRows
<1>5. ASSUME NEW p \in Procs, Probe(p)
      PROVE  StoreRows'
  <2>1. UNCHANGED <<rows, srows, auto>>
    BY <1>5 DEF Probe, Unchanged
  <2> QED
    BY <1>2, <1>5, <2>1, ProbeStep DEF Has, IsOp
<1>6. ASSUME NEW p \in Procs, Alter(p)
      PROVE  StoreRows'
  <2>1. UNCHANGED <<rows, srows, auto>>
    BY <1>6 DEF Alter, Unchanged
  <2> QED
    BY <1>2, <1>6, <2>1, AlterStep, ClosedIsOp DEF Has, IsOp
<1>7. ASSUME NEW p \in Procs, Select(p)
      PROVE  StoreRows'
  <2>1. UNCHANGED <<rows, srows, auto>>
    BY <1>7 DEF Select, Unchanged
  <2>2. \A o \in Legacy(op[p].t) : o.body = 0
    BY DEF Legacy, RowsOf, StoreRows, Sound
  <2> QED
    BY <1>2, <1>7, <2>1, <2>2, SelectStep DEF Has, IsOp
<1>8. ASSUME NEW p \in Procs, Update(p)
      PROVE  StoreRows'
  <2>1. UNCHANGED auto /\ op[p].pc = "update"
    BY <1>8 DEF Update, Unchanged
  <2>2. \A o \in op[p].snap : o.body = 0
    BY <2>1 DEF StoreRows, IsOp
  <2>3. PICK x : /\ op' = [op EXCEPT ![p] = x] /\ IsOp(x)
                 /\ \/ UNCHANGED <<rows, srows>>
                    \/ \E o \in op[p].snap :
                          /\ rows' \in {rows, Encrypted(rows, o)}
                          /\ srows' \in {srows, Encrypted(srows, o)}
    BY <1>8, <2>2, UpdateStep, ClosedIsOp DEF Has, IsOp
  <2>4. rows' \subseteq Rows /\ srows' \subseteq Rows /\ Sound(rows') /\ Sound(srows')
    BY <2>2, <2>3, EncryptedSound DEF StoreRows
  <2> QED
    BY <1>1, <2>1, <2>3, <2>4 DEF StoreRows
<1>9. ASSUME NEW p \in Procs, Updated(p)
      PROVE  StoreRows'
  <2>1. UNCHANGED <<rows, srows, auto>>
    BY <1>9 DEF Updated, Unchanged
  <2> QED
    BY <1>2, <1>9, <2>1, UpdatedStep, ClosedIsOp DEF Has, IsOp
<1>10. ASSUME NEW p \in Procs, Kill(p)
      PROVE  StoreRows'
  BY <1>2, <1>10, ClosedIsOp DEF Kill
<1>11. ASSUME NEW p \in Procs,
              \/ \E mid \in Mids : store_message(p, mid) \/ ReadStatus(p, mid)
              \/ get_messages(p) \/ delete_message(p) \/ SetStatus(p) \/ Record(p)
      PROVE  StoreRows'
  <2>1. PICK x : op' = [op EXCEPT ![p] = x] /\ IsOp(x)
    BY <1>11, ReadyStep
  <2>2. rows' \subseteq Rows /\ Sound(rows') /\ auto' \in Nat
    BY <1>11, ReadyRows
  <2>3. UNCHANGED srows
    BY <1>11, ReadyStep
  <2> QED
    BY <1>1, <2>1, <2>2, <2>3 DEF StoreRows
<1> QED
  BY <1>3, <1>4, <1>5, <1>6, <1>7, <1>8, <1>9, <1>10, <1>11 DEF StoreNext

LEMMA StoreRowsAlways == StoreSpec => []StoreRows
<1>1. StoreInit => StoreRows
  <2> SUFFICES ASSUME StoreInit PROVE StoreRows
    OBVIOUS
  <2>1. PICK r : r = Row(1, Old, FALSE)
    OBVIOUS
  <2>2. r \in Rows /\ Sound({r})
    BY <2>1, RowSound
  <2>3. (rows = {} \/ rows = {r}) /\ (srows = {} \/ srows = {r}) /\ auto \in Nat
    BY <2>1 DEF StoreInit
  <2>4. op = [p \in Procs |-> op[p]] /\ \A p \in Procs : IsOp(op[p])
    BY ClosedIsOp DEF StoreInit
  <2> QED
    BY <2>2, <2>3, <2>4 DEF StoreRows, Sound
<1> QED
  BY <1>1, StoreRowsNext, PTL DEF StoreSpec

\* The text of an old row is encrypted exactly once, however many commands
\* migrate the store at once or are killed in it: a command encrypts what it
\* read as text, so two that read the same row write the same.
THEOREM EncryptedOnce == StoreSpec => []MigratedOnce
<1>1. StoreRows => MigratedOnce
  BY DEF StoreRows, Sound, MigratedOnce
<1> QED
  BY <1>1, StoreRowsAlways, PTL

-----------------------------------------------------------------------------
(* Columns of the message store.  A command that is alone in opening the   *)
(* store finds each table without the new columns or with all of them,     *)
(* because nobody else is adding them, and nobody died while adding them.  *)

ColsShape ==
    /\ cut \in BOOLEAN /\ cols \in [Tables -> Nat]
    /\ \A t \in Tables : cols[t] <= NCols[t]
    /\ \A p \in Procs : op[p].pc = "alter" => op[p].n \in Nat /\ 1 <= op[p].n /\ op[p].n <= NCols[op[p].t]

\* A command that is still alone in opening the store is the only one at it.
Lone ==
    \A p, q \in Procs : p # q /\ Opening(op[p]) /\ op[p].alone => ~Opening(op[q])

\* p is about to add the next column of t.
Filler(p, t) == op[p].pc = "alter" /\ op[p].t = t /\ op[p].n = cols[t] + 1

\* While no attempt was killed, a table with some of its columns gets the others.
Filled ==
    ~cut => \A t \in Tables : \/ cols[t] = 0
                              \/ cols[t] = NCols[t]
                              \/ \E p \in Procs : Filler(p, t)

\* What the command has done so far was done.
InOrder(o) ==
    /\ o.pc = "alter" => o.n = cols[o.t] + 1
    /\ o.t = "sessions" \/ o.pc \in {"select", "update"} => cols["messages"] = NCols["messages"]
    /\ o.pc \in {"select", "update"} => cols["sessions"] = NCols["sessions"]

Ordered == ~cut => \A p \in Procs : Opening(op[p]) /\ op[p].alone => InOrder(op[p])

StoreCols == ColsShape /\ Lone /\ Filled /\ Ordered

LEMMA NColsIs == /\ NCols["messages"] = 6 /\ NCols["sessions"] = 2
                 /\ \A t \in Tables : NCols[t] \in Nat /\ NCols[t] >= ProbedCol(t) /\ ProbedCol(t) \in {1, 2}
                 /\ ProbedCol("messages") = 1 /\ ProbedCol("sessions") = 2
BY DEF NCols, Tables, ProbedCol

\* Alone, and not adding columns: the tables are as they were or complete.
LEMMA LoneTables ==
    ASSUME StoreCols, ~cut, NEW p \in Procs, Opening(op[p]), op[p].alone, op[p].pc # "alter"
    PROVE  \A t \in Tables : cols[t] = 0 \/ cols[t] = NCols[t]
BY DEF StoreCols, Filled, Filler, Lone, Opening

LEMMA LoneNext ==
    ASSUME Lone, NEW p \in Procs, NEW x,
           \A q \in Procs : op'[q] = IF q = p THEN x ELSE op[q],
           Opening(x) => Opening(op[p]) /\ x.alone = op[p].alone
    PROVE  Lone'
<1> SUFFICES ASSUME NEW q \in Procs, NEW y \in Procs, q # y, Opening(op'[q]), op'[q].alone
             PROVE  ~Opening(op'[y])
  BY DEF Lone, Opening
<1>1. Opening(op[q]) /\ op[q].alone
  <2>1. CASE q = p
    BY <2>1
  <2>2. CASE q # p
    BY <2>2
  <2> QED
    BY <2>1, <2>2
<1>2. ~Opening(op[y])
  BY <1>1 DEF Lone
<1>3. CASE y = p
  BY <1>2, <1>3
<1>4. CASE y # p
  BY <1>2, <1>4
<1> QED
  BY <1>3, <1>4

\* A step that changes no column, by a command that was not adding one.
LEMMA SameCols ==
    ASSUME StoreCols, UNCHANGED <<cols, cut>>, NEW p \in Procs, NEW x,
           \A q \in Procs : op'[q] = IF q = p THEN x ELSE op[q],
           Opening(x) => Opening(op[p]) /\ x.alone = op[p].alone,
           x.pc = "alter" => x.n \in Nat /\ 1 <= x.n /\ x.n <= NCols[x.t],
           cut \/ (\A t \in Tables : ~Filler(p, t)),
           ~cut /\ Opening(x) /\ x.alone => InOrder(x)
    PROVE  StoreCols'
<1>1. Lone'
  BY LoneNext DEF StoreCols
<1>2. ColsShape'
  BY DEF StoreCols, ColsShape
<1>3. Filled'
  <2> SUFFICES ASSUME ~cut, NEW t \in Tables
               PROVE  cols[t] = 0 \/ cols[t] = NCols[t] \/ \E q \in Procs : Filler(q, t)'
    BY DEF Filled
  <2>1. ASSUME NEW q \in Procs, Filler(q, t)
        PROVE  Filler(q, t)'
    <3>1. q # p
      BY <2>1
    <3>2. op'[q] = op[q]
      BY <3>1
    <3> QED
      BY <2>1, <3>2 DEF Filler
  <2> QED
    BY <2>1 DEF StoreCols, Filled
<1>4. Ordered'
  <2> SUFFICES ASSUME ~cut, NEW q \in Procs, Opening(op'[q]), op'[q].alone
               PROVE  InOrder(op[q])'
    BY DEF Ordered, Opening
  <2>1. InOrder(op'[q])
    <3>1. CASE q = p
      BY <3>1
    <3>2. CASE q # p
      BY <3>2 DEF StoreCols, Ordered
    <3> QED
      BY <3>1, <3>2
  <2> QED
    BY <2>1 DEF InOrder
<1> QED
  BY <1>1, <1>2, <1>3, <1>4 DEF StoreCols


LEMMA ProbeCols ==
    ASSUME StoreRows, StoreCols, NEW p \in Procs, Probe(p)
    PROVE  StoreCols' /\ op'[p].pc # "closed"
<1>1. PICK j : j = op[p]
  OBVIOUS
<1>2. j \in Ops /\ j.pc = "probe" /\ Opening(j) /\ UNCHANGED <<cols, cut>> /\ j.t \in Tables
  BY <1>1 DEF StoreRows, IsOp, Probe, Opening, Ops
<1>3. PICK x : /\ op' = [op EXCEPT ![p] = x]
               /\ IF cols[j.t] < ProbedCol(j.t) THEN Has(x, "alter", j.t, 1, j.snap, j.alone)
                  ELSE IF j.t = "messages" THEN Has(x, "probe", "sessions", j.n, j.snap, j.alone)
                  ELSE Has(x, "select", "messages", j.n, j.snap, j.alone)
  BY <1>1, ProbeStep
<1>4. \A q \in Procs : op'[q] = IF q = p THEN x ELSE op[q]
  BY <1>3 DEF StoreRows
<1>5. x.alone = j.alone /\ x.pc # "closed"
  BY <1>3 DEF Has
<1>6. x.pc = "alter" => x.n = 1 /\ x.t = j.t /\ cols[j.t] < ProbedCol(j.t)
  BY <1>3 DEF Has
<1>7. x.pc = "alter" => x.n \in Nat /\ 1 <= x.n /\ x.n <= NCols[x.t]
  BY <1>2, <1>6, NColsIs
<1>8. \A t \in Tables : ~Filler(p, t)
  BY <1>1, <1>2 DEF Filler
<1>9. ASSUME ~cut, x.alone
      PROVE  InOrder(x)
  <2>1. \A t \in Tables : cols[t] = 0 \/ cols[t] = NCols[t]
    BY <1>1, <1>2, <1>5, <1>9, LoneTables
  <2>2. j.t = "sessions" => cols["messages"] = NCols["messages"]
    BY <1>1, <1>2, <1>5, <1>9 DEF StoreCols, Ordered, InOrder
  <2>3. CASE cols[j.t] < ProbedCol(j.t)
    <3>1. x.pc = "alter" /\ x.t = j.t /\ x.n = 1
      BY <1>3, <2>3 DEF Has
    <3>2. cols[j.t] = 0
      BY <1>2, <2>1, <2>3, NColsIs DEF Tables
    <3> QED
      BY <2>2, <3>1, <3>2 DEF InOrder
  <2>4. CASE ~(cols[j.t] < ProbedCol(j.t))
    <3>1. cols[j.t] = NCols[j.t]
      BY <1>2, <2>1, <2>4, NColsIs DEF Tables
    <3>2. x.pc \in {"probe", "select"} /\ (x.pc = "select" => j.t # "messages")
          /\ (x.pc = "probe" => j.t = "messages")
      BY <1>3, <2>4 DEF Has
    <3> QED
      BY <1>2, <2>2, <3>1, <3>2 DEF InOrder, Tables
  <2> QED
    BY <2>3, <2>4
<1>10. StoreCols'
  BY <1>1, <1>2, <1>4, <1>5, <1>7, <1>8, <1>9, SameCols
<1> QED
  BY <1>4, <1>5, <1>10

LEMMA SelectCols ==
    ASSUME StoreRows, StoreCols, NEW p \in Procs, Select(p) \/ Updated(p)
    PROVE  StoreCols' /\ op'[p].pc # "closed"
<1>1. PICK j : j = op[p]
  OBVIOUS
<1>2. j \in Ops /\ j.pc \in {"select", "update"} /\ Opening(j) /\ UNCHANGED <<cols, cut>>
  BY <1>1 DEF StoreRows, IsOp, Select, Updated, Opening
<1>3. PICK x : /\ op' = [op EXCEPT ![p] = x]
               /\ \/ x = Ready
                  \/ x.pc \in {"select", "update"} /\ x.alone = j.alone
  BY <1>1, SelectStep, UpdatedStep DEF Has
<1>4. \A q \in Procs : op'[q] = IF q = p THEN x ELSE op[q]
  BY <1>3 DEF StoreRows
<1>5. x.pc \in {"ready", "select", "update"} /\ (Opening(x) => x.alone = j.alone)
  BY <1>3, ClosedIsOp DEF Opening
<1>6. ASSUME ~cut, Opening(x), x.alone
      PROVE  InOrder(x)
  BY <1>1, <1>2, <1>5, <1>6 DEF StoreCols, Ordered, InOrder
<1>7. \A t \in Tables : ~Filler(p, t)
  BY <1>1, <1>2 DEF Filler
<1>8. StoreCols'
  BY <1>1, <1>2, <1>4, <1>5, <1>6, <1>7, SameCols
<1> QED
  BY <1>4, <1>5, <1>8

LEMMA UpdateCols ==
    ASSUME StoreRows, StoreCols, NEW p \in Procs, Update(p)
    PROVE  StoreCols' /\ (op'[p].pc = "closed" => cut \/ ~op[p].alone)
<1>1. PICK j : j = op[p]
  OBVIOUS
<1>2. j \in Ops /\ j.pc = "update" /\ Opening(j) /\ UNCHANGED <<cols, cut>> /\ j.t \in Tables
  BY <1>1 DEF StoreRows, IsOp, Update, Opening, Ops
<1>3. PICK x : /\ op' = [op EXCEPT ![p] = x]
               /\ \/ x = Closed /\ cols[j.t] < NCols[j.t]
                  \/ x.pc = "update" /\ x.t = j.t /\ x.alone = j.alone
  BY <1>1, UpdateStep DEF Has
<1>4. \A q \in Procs : op'[q] = IF q = p THEN x ELSE op[q]
  BY <1>3 DEF StoreRows
<1>5. x.pc \in {"closed", "update"} /\ (Opening(x) => x.alone = j.alone /\ x.pc = "update")
  BY <1>3, ClosedIsOp DEF Opening
<1>6. ASSUME ~cut, j.alone
      PROVE  InOrder(j)
  BY <1>1, <1>2, <1>6 DEF StoreCols, Ordered
<1>7. ASSUME ~cut, Opening(x), x.alone
      PROVE  InOrder(x)
  BY <1>2, <1>5, <1>6, <1>7 DEF InOrder
<1>8. \A t \in Tables : ~Filler(p, t)
  BY <1>1, <1>2 DEF Filler
<1>9. StoreCols'
  BY <1>1, <1>2, <1>4, <1>5, <1>7, <1>8, SameCols
<1>10. ASSUME x.pc = "closed", ~cut, j.alone
       PROVE  FALSE
  <2>1. cols[j.t] < NCols[j.t] /\ cols["messages"] = NCols["messages"] /\ cols["sessions"] = NCols["sessions"]
    BY <1>2, <1>3, <1>6, <1>10 DEF InOrder
  <2> QED
    BY <1>2, <2>1, NColsIs DEF Tables
<1> QED
  BY <1>1, <1>4, <1>9, <1>10


LEMMA AlterCols ==
    ASSUME StoreRows, StoreCols, NEW p \in Procs, Alter(p)
    PROVE  StoreCols' /\ (op'[p].pc = "closed" => cut \/ ~op[p].alone)
<1>1. PICK j : j = op[p]
  OBVIOUS
<1>2. j \in Ops /\ j.pc = "alter" /\ Opening(j) /\ UNCHANGED cut /\ j.t \in Tables
  BY <1>1 DEF StoreRows, IsOp, Alter, Opening, Ops
<1>3. /\ j.n \in Nat /\ 1 <= j.n /\ j.n <= NCols[j.t] /\ NCols[j.t] \in Nat
      /\ cols \in [Tables -> Nat] /\ cols[j.t] \in Nat
  BY <1>1, <1>2, NColsIs DEF StoreCols, ColsShape
<1>4. PICK x : /\ op' = [op EXCEPT ![p] = x]
               /\ IF cols[j.t] >= j.n THEN x = Closed /\ UNCHANGED cols
                  ELSE /\ cols' = [cols EXCEPT ![j.t] = j.n]
                       /\ IF j.n < NCols[j.t] THEN Has(x, "alter", j.t, j.n + 1, j.snap, j.alone)
                          ELSE IF j.t = "messages"
                          THEN Has(x, "probe", "sessions", j.n, j.snap, j.alone)
                          ELSE Has(x, "select", "messages", j.n, j.snap, j.alone)
  BY <1>1, AlterStep
<1>5. \A q \in Procs : op'[q] = IF q = p THEN x ELSE op[q]
  BY <1>4 DEF StoreRows
<1>6. ASSUME ~cut, j.alone
      PROVE  InOrder(j)
  BY <1>1, <1>2, <1>6 DEF StoreCols, Ordered
<1>7. CASE cols[j.t] >= j.n
  <2>1. x.pc = "closed" /\ ~Opening(x) /\ UNCHANGED cols
    BY <1>4, <1>7, ClosedIsOp DEF Opening
  <2>2. \A t \in Tables : ~Filler(p, t)
    BY <1>1, <1>3, <1>7 DEF Filler
  <2>3. StoreCols'
    BY <1>2, <1>5, <2>1, <2>2, SameCols
  <2>4. cut \/ ~j.alone
    BY <1>2, <1>3, <1>6, <1>7 DEF InOrder
  <2> QED
    BY <1>1, <2>3, <2>4
<1>8. CASE ~(cols[j.t] >= j.n)
  <2>1. /\ cols' \in [Tables -> Nat] /\ cols'[j.t] = j.n
        /\ \A t \in Tables : t # j.t => cols'[t] = cols[t]
    BY <1>2, <1>3, <1>4, <1>8
  <2>2. /\ x.alone = j.alone /\ x.pc # "closed"
        /\ j.n < NCols[j.t] => x.pc = "alter" /\ x.t = j.t /\ x.n = j.n + 1
        /\ ~(j.n < NCols[j.t]) => \/ x.pc = "probe" /\ j.t = "messages"
                                  \/ x.pc = "select" /\ j.t # "messages"
    BY <1>4, <1>8 DEF Has
  <2>3. x.pc = "alter" => x.n \in Nat /\ 1 <= x.n /\ x.n <= NCols[x.t]
    BY <1>3, <2>2
  <2>4. Lone'
    BY <1>1, <1>2, <1>5, <2>2, LoneNext DEF StoreCols
  <2>5. ColsShape'
    <3>1. \A t \in Tables : cols'[t] <= NCols[t]
      BY <1>3, <2>1 DEF StoreCols, ColsShape
    <3>2. \A q \in Procs : op'[q].pc = "alter" =>
             op'[q].n \in Nat /\ 1 <= op'[q].n /\ op'[q].n <= NCols[op'[q].t]
      BY <1>5, <2>3 DEF StoreCols, ColsShape
    <3> QED
      BY <1>2, <2>1, <3>1, <3>2 DEF StoreCols, ColsShape
  <2>6. Filled'
    <3> SUFFICES ASSUME ~cut, NEW t \in Tables
                 PROVE  cols'[t] = 0 \/ cols'[t] = NCols[t] \/ \E q \in Procs : Filler(q, t)'
      BY <1>2 DEF Filled
    <3>1. CASE t = j.t
      <4>1. CASE j.n < NCols[j.t]
        <5>1. Filler(p, t)'
          BY <1>5, <2>1, <2>2, <3>1, <4>1 DEF Filler
        <5> QED
          BY <5>1
      <4>2. CASE ~(j.n < NCols[j.t])
        BY <1>3, <2>1, <3>1, <4>2
      <4> QED
        BY <4>1, <4>2
    <3>2. CASE t # j.t
      <4>1. ASSUME NEW q \in Procs, Filler(q, t)
            PROVE  Filler(q, t)'
        <5>1. op'[q] = op[q]
          BY <1>1, <1>5, <3>2, <4>1 DEF Filler
        <5> QED
          BY <2>1, <3>2, <4>1, <5>1 DEF Filler
      <4> QED
        BY <2>1, <3>2, <4>1 DEF StoreCols, Filled
    <3> QED
      BY <3>1, <3>2
  <2>7. Ordered'
    <3> SUFFICES ASSUME ~cut, NEW q \in Procs, Opening(op'[q]), op'[q].alone
                 PROVE  InOrder(op[q])'
      BY <1>2 DEF Ordered, Opening
    <3>1. q = p
      BY <1>1, <1>2, <1>5 DEF StoreCols, Lone
    <3>2. op'[q] = x /\ j.alone /\ InOrder(j)
      BY <1>5, <1>6, <2>2, <3>1
    <3>3. j.t = "sessions" => cols'["messages"] = NCols["messages"]
      BY <2>1, <3>2 DEF InOrder, Tables
    <3>4. CASE j.n < NCols[j.t]
      <4>1. x.pc = "alter" /\ x.t = j.t /\ x.n = cols'[j.t] + 1
        BY <2>1, <2>2, <3>4
      <4> QED
        BY <3>2, <3>3, <4>1 DEF InOrder
    <3>5. CASE ~(j.n < NCols[j.t])
      <4>1. cols'[j.t] = NCols[j.t]
        BY <1>3, <2>1, <3>5
      <4>2. CASE j.t = "messages"
        BY <2>2, <3>2, <3>5, <4>1, <4>2 DEF InOrder
      <4>3. CASE j.t = "sessions"
        BY <2>2, <3>2, <3>3, <3>5, <4>1, <4>3 DEF InOrder
      <4> QED
        BY <1>2, <4>2, <4>3 DEF Tables
    <3> QED
      BY <3>4, <3>5
  <2> QED
    BY <1>5, <2>2, <2>4, <2>5, <2>6, <2>7 DEF StoreCols
<1> QED
  BY <1>7, <1>8

LEMMA OpenCols ==
    ASSUME StoreRows, StoreCols, NEW p \in Procs, open(p)
    PROVE  StoreCols' /\ \A q \in Procs : Opening(op[q]) => op'[q].pc # "closed"
<1> DEFINE a == \A y \in Procs : ~Opening(op[y])
<1>1. Has(op'[p], "probe", "messages", 0, {}, a) /\ UNCHANGED <<cols, cut>> /\ op[p].pc = "closed"
  BY OpenStep DEF open
<1>2. \A q \in Procs : q # p => /\ op'[q].pc = op[q].pc /\ op'[q].t = op[q].t /\ op'[q].n = op[q].n
                                /\ op'[q].alone = FALSE
  BY OpenStep DEF Has
<1>3. op'[p].pc = "probe" /\ op'[p].t = "messages" /\ op'[p].alone = a
  BY <1>1 DEF Has
<1>4. ColsShape'
  BY <1>1, <1>2, <1>3 DEF StoreCols, ColsShape
<1>5. Lone'
  <2> SUFFICES ASSUME NEW q \in Procs, NEW y \in Procs, q # y, Opening(op'[q]), op'[q].alone
               PROVE  ~Opening(op'[y])
    BY DEF Lone, Opening
  <2>1. q = p
    BY <1>2
  <2>2. a
    BY <1>3, <2>1
  <2>3. ~Opening(op[y])
    BY <2>2
  <2> QED
    BY <1>2, <2>1, <2>3 DEF Opening
<1>6. Filled'
  <2> SUFFICES ASSUME ~cut, NEW t \in Tables
               PROVE  cols[t] = 0 \/ cols[t] = NCols[t] \/ \E q \in Procs : Filler(q, t)'
    BY <1>1 DEF Filled
  <2>1. ASSUME NEW q \in Procs, Filler(q, t)
        PROVE  Filler(q, t)'
    BY <1>1, <1>2, <2>1 DEF Filler
  <2> QED
    BY <2>1 DEF StoreCols, Filled
<1>7. Ordered'
  <2> SUFFICES ASSUME NEW q \in Procs, Opening(op'[q]), op'[q].alone
               PROVE  InOrder(op[q])'
    BY DEF Ordered, Opening
  <2>1. q = p
    BY <1>2
  <2> QED
    BY <1>3, <2>1 DEF InOrder
<1>8. ASSUME NEW q \in Procs, Opening(op[q])
      PROVE  op'[q].pc # "closed"
  BY <1>1, <1>2, <1>8 DEF Opening
<1> QED
  BY <1>4, <1>5, <1>6, <1>7, <1>8 DEF StoreCols


LEMMA KillCols ==
    ASSUME StoreRows, StoreCols, NEW p \in Procs, Kill(p)
    PROVE  StoreCols' /\ (Opening(op[p]) => cut')
<1>1. UNCHANGED cols /\ cut' = (cut \/ Opening(op[p])) /\ cut' \in BOOLEAN
  BY DEF Kill
<1>2. PICK x : x = Closed
  OBVIOUS
<1>3. op' = [op EXCEPT ![p] = x] /\ x.pc = "closed" /\ ~Opening(x)
  BY <1>2, ClosedIsOp DEF Kill, Opening
<1>4. \A q \in Procs : op'[q] = IF q = p THEN x ELSE op[q]
  BY <1>3 DEF StoreRows
<1>5. CASE Opening(op[p])
  <2>1. Lone'
    BY <1>3, <1>4, LoneNext DEF StoreCols
  <2>2. ColsShape'
    BY <1>1, <1>3, <1>4 DEF StoreCols, ColsShape
  <2>3. cut' = TRUE
    BY <1>1, <1>5
  <2> QED
    BY <2>1, <2>2, <2>3 DEF StoreCols, Filled, Ordered
<1>6. CASE ~Opening(op[p])
  <2>1. UNCHANGED cut
    BY <1>1, <1>6 DEF StoreCols, ColsShape
  <2>2. \A t \in Tables : ~Filler(p, t)
    BY <1>6 DEF Filler, Opening
  <2> QED
    BY <1>1, <1>3, <1>4, <1>6, <2>1, <2>2, SameCols
<1> QED
  BY <1>1, <1>5, <1>6

LEMMA ReadyCols ==
    ASSUME StoreRows, StoreCols, NEW p \in Procs,
           \/ \E mid \in Mids : store_message(p, mid) \/ ReadStatus(p, mid)
           \/ get_messages(p) \/ delete_message(p) \/ SetStatus(p) \/ Record(p)
    PROVE  StoreCols' /\ ~Opening(op[p])
<1>1. PICK x : op' = [op EXCEPT ![p] = x] /\ x.pc \in {"ready", "listed", "status", "record"}
  BY ReadyStep
<1>2. ~Opening(x) /\ ~Opening(op[p]) /\ UNCHANGED <<cols, cut>> /\ x.pc # "alter"
  BY <1>1, ReadyStep DEF Opening
<1>3. \A q \in Procs : op'[q] = IF q = p THEN x ELSE op[q]
  BY <1>1 DEF StoreRows
<1>4. \A t \in Tables : ~Filler(p, t)
  BY <1>2 DEF Filler, Opening
<1> QED
  BY <1>2, <1>3, <1>4, SameCols

\* The other commands go on where they are.
LEMMA OthersStay ==
    ASSUME StoreRows, StoreCols, NEW p \in Procs, NEW q \in Procs, p # q, Opening(op[q]),
           \/ Probe(p) \/ Alter(p) \/ Select(p) \/ Update(p) \/ Updated(p) \/ Kill(p)
           \/ \E mid \in Mids : store_message(p, mid) \/ ReadStatus(p, mid)
           \/ get_messages(p) \/ delete_message(p) \/ SetStatus(p) \/ Record(p)
    PROVE  op'[q].pc # "closed"
<1>1. PICK x : op' = [op EXCEPT ![p] = x]
  BY ProbeStep, AlterStep, SelectStep, UpdateStep, UpdatedStep, ReadyStep DEF Kill
<1>2. op'[q] = op[q]
  BY <1>1 DEF StoreRows
<1> QED
  BY <1>2 DEF Opening

\* A store can be opened: an attempt fails only when another command opened the
\* store meanwhile, or some attempt was killed before.
THEOREM OpensUnlessCut == StoreSpec => OpensUncut
<1> DEFINE Fails == \E p \in Procs : Opening(op[p]) /\ op'[p].pc = "closed" /\ ~cut' /\ op[p].alone
<1>1. StoreInit => StoreCols
  <2> SUFFICES ASSUME StoreInit PROVE StoreCols
    OBVIOUS
  <2>1. \A p \in Procs : op[p].pc = "closed"
    BY ClosedIsOp DEF StoreInit
  <2>2. cut = FALSE /\ cols \in [Tables -> Nat] /\ \A t \in Tables : cols[t] = 0 \/ cols[t] = NCols[t]
    BY DEF StoreInit, NCols, Tables
  <2>3. \A t \in Tables : cols[t] <= NCols[t]
    BY <2>2, NColsIs
  <2> QED
    BY <2>1, <2>2, <2>3 DEF StoreCols, ColsShape, Lone, Filled, Ordered, Opening
<1>2. StoreRows /\ StoreCols /\ [StoreNext]_storevars => StoreCols' /\ ~Fails
  <2> SUFFICES ASSUME StoreRows, StoreCols, [StoreNext]_storevars PROVE StoreCols' /\ ~Fails
    OBVIOUS
  <2>1. CASE UNCHANGED storevars
    <3>1. UNCHANGED <<op, cols, cut>>
      BY <2>1 DEF storevars
    <3>2. StoreCols'
      BY <3>1 DEF StoreCols, ColsShape, Lone, Filled, Filler, Ordered, InOrder, Opening
    <3>3. ~Fails
      BY <3>1 DEF Opening
    <3> QED
      BY <3>2, <3>3
  <2>2. ASSUME NEW p \in Procs, open(p)
        PROVE  StoreCols' /\ ~Fails
    BY <2>2, OpenCols
  <2>3. ASSUME NEW p \in Procs, Probe(p) \/ Select(p) \/ Updated(p)
        PROVE  StoreCols' /\ ~Fails
    BY <2>3, ProbeCols, SelectCols, OthersStay
  <2>4. ASSUME NEW p \in Procs, Alter(p) \/ Update(p)
        PROVE  StoreCols' /\ ~Fails
    <3>1. StoreCols' /\ (op'[p].pc = "closed" => cut \/ ~op[p].alone) /\ UNCHANGED cut
      BY <2>4, AlterCols, UpdateCols DEF Alter, Update
    <3> QED
      BY <2>4, <3>1, OthersStay
  <2>5. ASSUME NEW p \in Procs, Kill(p)
        PROVE  StoreCols' /\ ~Fails
    BY <2>5, KillCols, OthersStay
  <2>6. ASSUME NEW p \in Procs,
               \/ \E mid \in Mids : store_message(p, mid) \/ ReadStatus(p, mid)
               \/ get_messages(p) \/ delete_message(p) \/ SetStatus(p) \/ Record(p)
        PROVE  StoreCols' /\ ~Fails
    BY <2>6, ReadyCols, OthersStay
  <2> HIDE DEF Fails
  <2> QED
    BY <2>1, <2>2, <2>3, <2>4, <2>5, <2>6 DEF StoreNext
<1>3. ~Fails => [\A p \in Procs :
                     Opening(op[p]) /\ op'[p].pc = "closed" => cut' \/ ~op[p].alone]_storevars
  OBVIOUS
<1> HIDE DEF Fails
<1> QED
  BY <1>1, <1>2, <1>3, StoreRowsAlways, PTL DEF StoreSpec, OpensUncut

-----------------------------------------------------------------------------
(* The identity files.  What a command will do is in todo, so the          *)
(* invariants speak of the files together with the operations left.        *)

Locks == Passes \cup {NoPass} \cup Nat
FileType == [st : {"none", "torn", "whole"}, v : Nat, lock : Locks]

\* Nothing but the certificates and the counter is ever removed.
Operations ==
    {o \in [op : {"write", "remove", "wipe"}, f : Names, c : FileType] :
        /\ o.op = "write" => o.c.st = "whole"
        /\ o.op = "remove" => o.f \in {"asc", "age", "fails"} /\ o.c = None
        /\ o.op = "wipe" => o.f = "vault"}

FilesShape ==
    /\ files \in [Names -> FileType]
    /\ todo \in Seq(Operations)
    /\ made \in Nat /\ tries \in Nat
    /\ unended \in BOOLEAN /\ wiped \in BOOLEAN
    /\ \A i \in DOMAIN todo : todo[i].op = "wipe" => Len(todo) = 1

\* Operations that keep to the key K of the message store.
KeyOperations(K) ==
    {o \in Operations : o.op = "write" => /\ o.f = "db" => o.c.v = K
                                          /\ o.f = "kyber" => o.c.lock = K}

Writes(o, f) == o.op = "write" /\ o.f = f

\* The key of the store is written before what it locks.
DbFirst(s) ==
    \A i \in DOMAIN s : Writes(s[i], "kyber") => \E j \in DOMAIN s : j < i /\ Writes(s[j], "db")

\* K is the key of the message store, or will be.
StoreKey(K) ==
    /\ files["db"].st = "whole" => files["db"].v = K
    /\ todo \in Seq(KeyOperations(K))
    /\ files["db"].st # "none" \/ DbFirst(todo)
    /\ wiped \/ (files["kyber"].st = "whole" => files["kyber"].lock = K)
    /\ wiped \/ (files["db"].st = "none" => files["kyber"].st = "none")

OneStoreKey == \E K \in Nat : StoreKey(K)

\* The counter counts no more than the failed unlocks.
Counted ==
    /\ files["fails"].v <= tries /\ files["fails"].v < max_wrong_attempts
    /\ files["fails"].st = "none" => files["fails"].v = 0
    /\ \A i \in DOMAIN todo :
          /\ Writes(todo[i], "fails") => todo[i].c.v <= tries /\ todo[i].c.v < max_wrong_attempts
          /\ todo[i].op = "wipe" => tries >= max_wrong_attempts
          /\ todo[i].op = "remove" /\ todo[i].f = "fails" => Len(todo) = 1

\* The content c is the certificate n, where load_cert finds it.
IsCert(f, c, n) == c.st = "whole" /\ c.v = n /\ (f = "age" => c.lock \in Passes)

\* load_cert finds the certificate n among the files F, or `add passwd' does.
Certified(F, n) ==
    IF F["asc"].st # "none" THEN IsCert("asc", F["asc"], n) ELSE IsCert("age", F["age"], n)

OtherOperations == {o \in Operations : o.f \notin {"asc", "age"}}

Removes(o, f) == o.op = "remove" /\ o.f = f

\* From the files F the operations of s lead to the certificate n: it is there
\* and they leave it alone, or they write it, with the file that would hide
\* it removed at once, or they write or remove the other copy.
Leads(F, n, s) ==
    \/ s \in Seq(OtherOperations) /\ Certified(F, n)
    \/ /\ s # <<>> /\ Writes(Head(s), "asc") /\ IsCert("asc", Head(s).c, n)
       /\ \/ Tail(s) \in Seq(OtherOperations)
          \/ Tail(s) # <<>> /\ Removes(Head(Tail(s)), "age") /\ Tail(Tail(s)) \in Seq(OtherOperations)
    \/ /\ s # <<>> /\ Writes(Head(s), "age") /\ IsCert("age", Head(s).c, n)
       /\ \/ F["asc"].st = "none" /\ Tail(s) \in Seq(OtherOperations)
          \/ Tail(s) # <<>> /\ Removes(Head(Tail(s)), "asc") /\ Tail(Tail(s)) \in Seq(OtherOperations)
    \/ /\ s # <<>> /\ Writes(Head(s), "age") /\ Tail(s) \in Seq(OtherOperations)
       /\ IsCert("asc", F["asc"], n)
    \/ /\ s # <<>> /\ Tail(s) \in Seq(OtherOperations)
       /\ \/ Removes(Head(s), "asc") /\ IsCert("age", F["age"], n)
          \/ Removes(Head(s), "age") /\ IsCert("asc", F["asc"], n)

Preserved ==
    /\ \A i \in DOMAIN todo : Writes(todo[i], "identity") => Leads(files, todo[i].c.v, todo)
    /\ files["identity"].st = "whole" /\ ~unended /\ ~wiped =>
          Certified(files, files["identity"].v) /\ Leads(files, files["identity"].v, todo)

LEMMA NoPlan == \A S : <<>> \in Seq(S)
OBVIOUS

LEMMA FilesNames == Names = {"asc", "age", "db", "kyber", "identity", "vault", "fails"}
BY DEF Names

\* What the operations of a plan are.
IsWrite(x, f, v, lock) ==
    x \in Operations /\ x.op = "write" /\ x.f = f /\ x.c.st = "whole" /\ x.c.v = v /\ x.c.lock = lock

IsUnlink(x, f) == x \in Operations /\ x.op = "remove" /\ x.f = f

LEMMA WriteIs ==
    ASSUME NEW f \in Names, NEW v \in Nat, NEW lock \in Locks
    PROVE  \E x : Write(f, File(v, lock)) = <<x>> /\ IsWrite(x, f, v, lock)
<1>1. PICK c : c = File(v, lock)
  OBVIOUS
<1>2. c \in FileType /\ c.st = "whole" /\ c.v = v /\ c.lock = lock
  BY <1>1 DEF File, FileType
<1>3. PICK x : x = [op |-> "write", f |-> f, c |-> c]
  OBVIOUS
<1>4. Write(f, File(v, lock)) = <<x>>
  BY <1>1, <1>3 DEF Write
<1>5. x \in Operations /\ x.op = "write" /\ x.f = f /\ x.c = c
  BY <1>2, <1>3 DEF Operations
<1> QED
  BY <1>2, <1>4, <1>5 DEF IsWrite

LEMMA NoneIs == None \in FileType /\ Torn \in FileType /\ None.st = "none" /\ Torn.st = "torn" /\ None.v = 0 /\ Torn.v = 0
BY DEF None, Torn, FileType, Locks

LEMMA UnlinkIs ==
    ASSUME NEW f \in {"asc", "age", "fails"}
    PROVE  \E x : Unlink(f) = <<x>> /\ IsUnlink(x, f)
<1>1. PICK x : x = [op |-> "remove", f |-> f, c |-> None]
  OBVIOUS
<1>2. x \in Operations /\ x.op = "remove" /\ x.f = f
  BY <1>1, NoneIs DEF Operations, Names
<1> QED
  BY <1>1, <1>2 DEF Unlink, IsUnlink

LEMMA WipeIs == \E x \in Operations : Wipe = <<x>> /\ x.op = "wipe" /\ x.f = "vault"
<1>1. PICK x : x = [op |-> "wipe", f |-> "vault", c |-> None]
  OBVIOUS
<1>2. x \in Operations /\ x.op = "wipe" /\ x.f = "vault"
  BY <1>1, NoneIs DEF Operations, Names
<1> QED
  BY <1>1, <1>2 DEF Wipe

-----------------------------------------------------------------------------
(* The plans of the commands.                                              *)

\* The key of the store in a command that makes the key n if there is none.
KeyWith(n) == IF files["db"].st = "whole" THEN files["db"].v ELSE n

\* What a command that makes the certificate n does besides its certificate:
\* without a key of the store that opens, nothing that needs one.
Planned(n) ==
    {o \in OtherOperations : /\ o.op = "write" /\ o.f \in {"db", "kyber", "identity", "vault"}
                             /\ o.f = "identity" => o.c.v = n
                             /\ o \in KeyOperations(KeyWith(n))
                             /\ o.f \in {"db", "kyber"} => files["db"].st # "torn"}

KeysPlanned(n) == {o \in Planned(n) : o.f \in {"db", "kyber"}}

LEMMA PlannedWrite ==
    ASSUME NEW x, NEW f \in {"db", "kyber", "identity", "vault"}, NEW v, NEW lock, IsWrite(x, f, v, lock),
           NEW n, f = "db" => v = KeyWith(n), f = "kyber" => lock = KeyWith(n), f = "identity" => v = n,
           f \in {"db", "kyber"} => files["db"].st # "torn"
    PROVE  x \in Planned(n) /\ (f \in {"db", "kyber"} => x \in KeysPlanned(n))
BY DEF IsWrite, Planned, KeysPlanned, OtherOperations, KeyOperations

LEMMA DbKeyLoaded ==
    ASSUME FilesShape, NEW env \in Passes \cup {NoPass}, NEW n \in Nat, NEW db, db = LoadDbKey(env, n)
    PROVE  /\ db.key \in Nat /\ db.ok \in BOOLEAN
           /\ db.ops \in Seq(KeysPlanned(n))
           /\ db.ok => db.key = KeyWith(n) /\ files["db"].st # "torn"
           /\ files["db"].st = "none" => \E d : db.ops = <<d>> /\ Writes(d, "db")
<1>1. files["db"] \in FileType /\ env \in Locks
  BY DEF FilesShape, Names, Locks
<1>2. CASE files["db"].st = "none"
  <2>1. PICK ops : ops = SaveDbKey(n, env)
    OBVIOUS
  <2>2. db = [ops |-> ops, ok |-> TRUE, key |-> n]
    BY <1>2, <2>1 DEF LoadDbKey, Exists
  <2>3. PICK x : ops = <<x>> /\ IsWrite(x, "db", n, env)
    BY <1>1, <2>1, WriteIs DEF SaveDbKey, Names
  <2>4. KeyWith(n) = n
    BY <1>2 DEF KeyWith
  <2>5. x \in KeysPlanned(n)
    BY <1>2, <2>3, <2>4, PlannedWrite
  <2>6. db.ops = ops /\ db.ok = TRUE /\ db.key = n
    BY <2>2
  <2>7. ops \in Seq(KeysPlanned(n)) /\ Writes(x, "db")
    BY <2>3, <2>5 DEF IsWrite, Writes
  <2> QED
    BY <1>2, <2>3, <2>4, <2>6, <2>7
<1>3. CASE files["db"].st # "none"
  <2>1. db = Failed \/ (db = Loaded(files["db"].v) /\ files["db"].st = "whole")
    BY <1>3 DEF LoadDbKey, Exists, Opens
  <2>2. files["db"].v \in Nat
    BY <1>1 DEF FileType
  <2>3. CASE db = Failed
    <3>1. db.key = 0 /\ ~db.ok /\ db.ok \in BOOLEAN /\ db.ops = <<>>
      BY <2>3 DEF Failed
    <3>2. db.ops \in Seq(KeysPlanned(n))
      BY <3>1, NoPlan
    <3> QED
      BY <1>3, <3>1, <3>2
  <2>4. CASE db = Loaded(files["db"].v) /\ files["db"].st = "whole"
    <3>1. db.key = files["db"].v /\ db.ok \in BOOLEAN /\ db.ops = <<>>
      BY <2>4 DEF Loaded
    <3>2. db.ops \in Seq(KeysPlanned(n))
      BY <3>1, NoPlan
    <3> QED
      BY <1>3, <2>2, <2>4, <3>1, <3>2 DEF KeyWith
  <2> QED
    BY <2>1, <2>3, <2>4
<1> QED
  BY <1>2, <1>3

LEMMA KemLoaded ==
    ASSUME FilesShape, NEW n \in Nat, NEW key \in Nat, key = KeyWith(n), files["db"].st # "torn",
           NEW kem, kem = load_or_generate_kyber(key, n)
    PROVE  kem.ops \in Seq(KeysPlanned(n))
<1>1. CASE files["kyber"].st = "none"
  <2>1. PICK ops : ops = Write("kyber", File(n, key))
    OBVIOUS
  <2>2. kem = [ops |-> ops, ok |-> TRUE, key |-> n]
    BY <1>1, <2>1 DEF load_or_generate_kyber, Exists
  <2>3. PICK x : ops = <<x>> /\ IsWrite(x, "kyber", n, key)
    BY <2>1, WriteIs DEF Names, Locks
  <2>4. x \in KeysPlanned(n)
    BY <2>3, PlannedWrite
  <2> QED
    BY <2>2, <2>3, <2>4
<1>2. CASE files["kyber"].st # "none"
  <2>1. kem = Failed \/ kem = Loaded(files["kyber"].v)
    BY <1>2 DEF load_or_generate_kyber, Exists
  <2>2. kem.ops = <<>>
    BY <2>1 DEF Failed, Loaded
  <2> QED
    BY <2>2, NoPlan
<1> QED
  BY <1>1, <1>2

LEMMA Joined ==
    ASSUME NEW S, NEW s \in Seq(S), NEW t \in Seq(S)
    PROVE  s \o t \in Seq(S)
OBVIOUS

LEMMA OneOperation ==
    ASSUME NEW S, NEW x \in S
    PROVE  <<x>> \in Seq(S)
OBVIOUS

LEMMA NothingAfter ==
    ASSUME NEW x
    PROVE  <<x>> \o <<>> = <<x>>
<1>1. <<x>> \in Seq({x})
  BY OneOperation
<1> QED
  BY <1>1, ConcatEmptySeq

LEMMA Wider ==
    ASSUME NEW S, NEW T, S \subseteq T, NEW s \in Seq(S)
    PROVE  s \in Seq(T)
<1>1. DOMAIN s = 1..Len(s) /\ Len(s) \in Nat /\ \A i \in DOMAIN s : s[i] \in T
  OBVIOUS
<1>2. s = [i \in 1..Len(s) |-> s[i]]
  OBVIOUS
<1> QED
  BY <1>1, <1>2

\* The first operation of a plan, and the rest.
LEMMA FirstOf ==
    ASSUME NEW S, NEW x \in S, NEW s \in Seq(S)
    PROVE  /\ <<x>> \o s \in Seq(S) /\ <<x>> \o s # <<>>
           /\ Head(<<x>> \o s) = x /\ Tail(<<x>> \o s) = s
<1>1. PICK t : t = <<x>> \o s
  OBVIOUS
<1>2. t \in Seq(S) /\ Len(t) = Len(s) + 1 /\ t # <<>> /\ t[1] = x
      /\ \A i \in 1..Len(s) : t[i + 1] = s[i]
  BY <1>1
<1>3. Tail(t) \in Seq(S) /\ Len(Tail(t)) = Len(s) /\ \A i \in 1..Len(s) : Tail(t)[i] = s[i]
  BY <1>2
<1>4. Tail(t) = s
  BY <1>3, SeqEqual
<1> QED
  BY <1>1, <1>2, <1>4

\* The operations of C replace the certificate by n.
Certifies(C, n) ==
    \E x \in Operations :
        \/ C = <<x>> /\ Writes(x, "asc") /\ IsCert("asc", x.c, n)
        \/ C = <<x>> /\ Writes(x, "age") /\ IsCert("age", x.c, n) /\ files["asc"].st = "none"
        \/ /\ Writes(x, "age") /\ IsCert("age", x.c, n)
           /\ \E y \in Operations : C = <<x>> \o <<y>> /\ Removes(y, "asc")

\* The plan of a command that makes the certificate n: the certificate first,
\* then the key of the store if there is none, then the rest.
InitPlan(s, n) ==
    \E C, D, R : /\ s = C \o (D \o R)
                 /\ Certifies(C, n)
                 /\ D \in Seq(Planned(n)) /\ R \in Seq(Planned(n))
                 /\ files["db"].st = "none" => \E d : D = <<d>> /\ Writes(d, "db")

LEMMA IdentityPlan ==
    ASSUME FilesShape, NEW pass \in Passes \cup {NoPass}, NEW env \in Passes \cup {NoPass},
           NEW n \in Nat, NEW V \in Seq(Planned(n))
    PROVE  InitPlan(generate_identity(pass, env, n) \o V, n)
<1>1. PICK db : db = LoadDbKey(env, n)
  OBVIOUS
<1>2. PICK kem : kem = load_or_generate_kyber(db.key, n)
  OBVIOUS
<1>3. PICK C : C = IF pass = NoPass THEN Write("asc", File(n, NoPass))
                   ELSE Write("age", File(n, pass)) \o (IF Exists("asc") THEN Unlink("asc") ELSE <<>>)
  OBVIOUS
<1>4. PICK R : R = IF ~db.ok THEN <<>> ELSE
                   SaveDbKey(db.key, pass) \o kem.ops
                   \o (IF ~kem.ok THEN <<>> ELSE Write("identity", File(n, NoPass)))
  OBVIOUS
<1>5. generate_identity(pass, env, n) = (C \o db.ops) \o R
  BY <1>1, <1>2, <1>3, <1>4 DEF generate_identity
<1>6. pass \in Locks /\ NoPass \in Locks
  BY DEF Locks
<1>7. /\ db.key \in Nat /\ db.ok \in BOOLEAN /\ db.ops \in Seq(Planned(n))
      /\ db.ok => db.key = KeyWith(n) /\ files["db"].st # "torn"
      /\ files["db"].st = "none" => \E d : db.ops = <<d>> /\ Writes(d, "db")
  <2>1. PICK ops : ops = db.ops
    OBVIOUS
  <2>2. /\ db.key \in Nat /\ db.ok \in BOOLEAN /\ ops \in Seq(KeysPlanned(n))
        /\ db.ok => db.key = KeyWith(n) /\ files["db"].st # "torn"
        /\ files["db"].st = "none" => \E d : ops = <<d>> /\ Writes(d, "db")
    BY <1>1, <2>1, DbKeyLoaded
  <2>3. KeysPlanned(n) \subseteq Planned(n)
    BY DEF KeysPlanned
  <2>4. ops \in Seq(Planned(n))
    BY <2>2, <2>3, Wider
  <2> QED
    BY <2>1, <2>2, <2>4
<1>8. R \in Seq(Planned(n))
  <2>1. CASE ~db.ok
    BY <1>4, <2>1, NoPlan
  <2>2. CASE db.ok
    <3>1. kem.ops \in Seq(Planned(n))
      <4>1. PICK ops : ops = kem.ops
        OBVIOUS
      <4>2. ops \in Seq(KeysPlanned(n)) /\ KeysPlanned(n) \subseteq Planned(n)
        BY <1>2, <1>7, <2>2, <4>1, KemLoaded DEF KeysPlanned
      <4> QED
        BY <4>1, <4>2, Wider
    <3>2. SaveDbKey(db.key, pass) \in Seq(Planned(n))
      <4>1. PICK x : SaveDbKey(db.key, pass) = <<x>> /\ IsWrite(x, "db", db.key, pass)
        BY <1>6, <1>7, WriteIs DEF SaveDbKey, Names
      <4>2. x \in Planned(n)
        BY <1>7, <2>2, <4>1, PlannedWrite
      <4> QED
        BY <4>1, <4>2, OneOperation
    <3>3. Write("identity", File(n, NoPass)) \in Seq(Planned(n))
      <4>1. PICK x : Write("identity", File(n, NoPass)) = <<x>> /\ IsWrite(x, "identity", n, NoPass)
        BY <1>6, WriteIs DEF Names
      <4>2. x \in Planned(n)
        BY <4>1, PlannedWrite
      <4> QED
        BY <4>1, <4>2, OneOperation
    <3>4. PICK I : I = IF ~kem.ok THEN <<>> ELSE Write("identity", File(n, NoPass))
      OBVIOUS
    <3>5. I \in Seq(Planned(n))
      BY <3>3, <3>4, NoPlan
    <3>6. R = (SaveDbKey(db.key, pass) \o kem.ops) \o I
      BY <1>4, <2>2, <3>4
    <3> QED
      BY <3>1, <3>2, <3>5, <3>6, Joined
  <2> QED
    BY <1>7, <2>1, <2>2
<1>9. Certifies(C, n)
  <2>1. CASE pass = NoPass
    <3>1. PICK x : C = <<x>> /\ IsWrite(x, "asc", n, NoPass)
      BY <1>3, <1>6, <2>1, WriteIs DEF Names
    <3>2. x \in Operations /\ Writes(x, "asc") /\ IsCert("asc", x.c, n)
      BY <3>1 DEF IsWrite, Writes, IsCert
    <3> QED
      BY <3>1, <3>2 DEF Certifies
  <2>2. CASE pass # NoPass
    <3>1. PICK x : Write("age", File(n, pass)) = <<x>> /\ IsWrite(x, "age", n, pass)
      BY <1>6, WriteIs DEF Names
    <3>2. x \in Operations /\ Writes(x, "age") /\ IsCert("age", x.c, n)
      BY <2>2, <3>1 DEF IsWrite, Writes, IsCert
    <3>3. CASE Exists("asc")
      <4>1. PICK y : Unlink("asc") = <<y>> /\ IsUnlink(y, "asc")
        BY UnlinkIs
      <4>2. C = <<x>> \o <<y>>
        BY <1>3, <2>2, <3>1, <3>3, <4>1
      <4> QED
        BY <3>2, <4>1, <4>2 DEF Certifies, IsUnlink, Removes
    <3>4. CASE ~Exists("asc")
      <4>1. C = <<x>>
        BY <1>3, <2>2, <3>1, <3>4, NothingAfter
      <4> QED
        BY <3>2, <3>4, <4>1 DEF Certifies, Exists
    <3> QED
      BY <3>3, <3>4
  <2> QED
    BY <2>1, <2>2
<1>10. C \in Seq(Operations) /\ db.ops \in Seq(Operations) /\ R \in Seq(Operations) /\ V \in Seq(Operations)
  <2>1. Planned(n) \subseteq Operations
    BY DEF Planned, OtherOperations
  <2>2. C \in Seq(Operations)
    <3>1. PICK x \in Operations : C = <<x>> \/ \E y \in Operations : C = <<x>> \o <<y>>
      BY <1>9 DEF Certifies
    <3>2. \A y \in Operations : <<y>> \in Seq(Operations)
      BY OneOperation
    <3> QED
      BY <3>1, <3>2, Joined
  <2>3. PICK ops : ops = db.ops
    OBVIOUS
  <2>4. ops \in Seq(Operations) /\ R \in Seq(Operations) /\ V \in Seq(Operations)
    BY <1>7, <1>8, <2>1, <2>3, Wider
  <2> QED
    BY <2>2, <2>3, <2>4
<1>11. generate_identity(pass, env, n) \o V = C \o (db.ops \o (R \o V))
  <2>1. PICK D : D = db.ops
    OBVIOUS
  <2>2. D \in Seq(Operations)
    BY <1>10, <2>1
  <2>3. ((C \o D) \o R) \o V = C \o (D \o (R \o V))
    <3>1. C \in Seq(Operations) /\ R \in Seq(Operations) /\ V \in Seq(Operations)
      BY <1>10
    <3>2. PICK CD : CD = C \o D
      OBVIOUS
    <3>3. PICK RV : RV = R \o V
      OBVIOUS
    <3>4. CD \in Seq(Operations) /\ RV \in Seq(Operations)
      BY <2>2, <3>1, <3>2, <3>3, Joined
    <3>5. (CD \o R) \o V = CD \o (R \o V)
      <4>1. \A s, t, u \in Seq(Operations) : (s \o t) \o u = s \o (t \o u)
        BY ConcatAssociative
      <4> QED
        BY <3>1, <3>4, <4>1
    <3>6. (C \o D) \o RV = C \o (D \o RV)
      BY <2>2, <3>1, <3>4, ConcatAssociative
    <3> QED
      BY <3>2, <3>3, <3>5, <3>6
  <2> QED
    BY <1>5, <2>1, <2>3
<1>12. R \o V \in Seq(Planned(n))
  BY <1>8, Joined
<1> QED
  BY <1>7, <1>9, <1>11, <1>12 DEF InitPlan

-----------------------------------------------------------------------------
(* The key of the message store.                                           *)

LEMMA Rest ==
    ASSUME NEW S, NEW s \in Seq(S), s # <<>>
    PROVE  /\ Head(s) \in S /\ 1 \in DOMAIN s /\ Head(s) = s[1]
           /\ Tail(s) \in Seq(S) /\ Len(Tail(s)) = Len(s) - 1 /\ Len(s) \in Nat
           /\ \A i \in DOMAIN Tail(s) : i \in Nat /\ i + 1 \in DOMAIN s /\ Tail(s)[i] = s[i + 1]
           /\ \A j \in DOMAIN s : j # 1 => j - 1 \in DOMAIN Tail(s) /\ Tail(s)[j - 1] = s[j]
<1>1. /\ Head(s) \in S /\ Tail(s) \in Seq(S) /\ Len(Tail(s)) = Len(s) - 1
      /\ \A i \in 1 .. Len(Tail(s)) : Tail(s)[i] = s[i + 1]
  BY HeadTailProperties
<1>2. DOMAIN s = 1 .. Len(s) /\ Len(s) \in Nat /\ Len(s) # 0
  OBVIOUS
<1>3. DOMAIN Tail(s) = 1 .. Len(Tail(s))
  BY <1>1
<1>4. Head(s) = s[1]
  OBVIOUS
<1>5. PICK t : t = Tail(s)
  OBVIOUS
<1>6. /\ \A i \in DOMAIN t : i \in Nat /\ i + 1 \in DOMAIN s /\ t[i] = s[i + 1]
      /\ \A j \in DOMAIN s : j # 1 => j - 1 \in DOMAIN t /\ t[j - 1] = s[j]
  BY <1>1, <1>2, <1>3, <1>5
<1> QED
  BY <1>1, <1>2, <1>4, <1>5, <1>6

\* A command keeps to the key that is there.
LEMMA KeyCommand ==
    ASSUME FilesShape, NEW K \in Nat, StoreKey(K), NEW L \in Nat,
           files["db"].st # "none" => L = K,
           todo' \in Seq(KeyOperations(L)), files["db"].st = "none" => DbFirst(todo'),
           UNCHANGED <<files, wiped>>
    PROVE  StoreKey(L)'
<1>1. files'["db"].st = "whole" => files'["db"].v = L
  BY DEF StoreKey
<1>2. wiped' \/ (files'["kyber"].st = "whole" => files'["kyber"].lock = L)
  BY DEF StoreKey
<1>3. wiped' \/ (files'["db"].st = "none" => files'["kyber"].st = "none")
  BY DEF StoreKey
<1>4. files'["db"].st # "none" \/ DbFirst(todo')
  OBVIOUS
<1> QED
  BY <1>1, <1>2, <1>3, <1>4 DEF StoreKey

LEMMA DbFirstTail ==
    ASSUME NEW s \in Seq(Operations), s # <<>>, DbFirst(s), ~Writes(Head(s), "db")
    PROVE  DbFirst(Tail(s))
<1> SUFFICES ASSUME NEW i \in DOMAIN Tail(s), Writes(Tail(s)[i], "kyber")
             PROVE  \E j \in DOMAIN Tail(s) : j < i /\ Writes(Tail(s)[j], "db")
  BY DEF DbFirst
<1>1. i \in Nat /\ i + 1 \in DOMAIN s /\ Tail(s)[i] = s[i + 1]
  BY Rest
<1>2. PICK j \in DOMAIN s : j < i + 1 /\ Writes(s[j], "db")
  BY <1>1 DEF DbFirst
<1>3. j # 1
  BY <1>2, Rest
<1>4. j - 1 \in DOMAIN Tail(s) /\ Tail(s)[j - 1] = s[j]
  BY <1>3, Rest
<1>5. j \in Nat
  OBVIOUS
<1>6. j - 1 < i
  BY <1>1, <1>2, <1>5
<1> QED
  BY <1>2, <1>4, <1>6

\* A plan writes the key of the store first when there is none.
LEMMA DbFirstIn ==
    ASSUME NEW C \in Seq(Operations), NEW d \in Operations, NEW R \in Seq(Operations),
           Writes(d, "db"), \A i \in DOMAIN C : ~Writes(C[i], "kyber")
    PROVE  DbFirst(C \o (<<d>> \o R))
<1>1. PICK t : t = <<d>> \o R
  OBVIOUS
<1>2. t \in Seq(Operations) /\ t # <<>> /\ Head(t) = d
  BY <1>1, FirstOf
<1>3. t[1] = d /\ Len(t) \in Nat /\ Len(t) # 0
  BY <1>2
<1>4. PICK s : s = C \o t
  OBVIOUS
<1>5. /\ s \in Seq(Operations) /\ Len(C) \in Nat /\ DOMAIN C = 1 .. Len(C) /\ DOMAIN s = 1 .. (Len(C) + Len(t))
      /\ \A i \in 1 .. (Len(C) + Len(t)) : s[i] = IF i <= Len(C) THEN C[i] ELSE t[i - Len(C)]
  BY <1>2, <1>4, ConcatProperties
<1>6. DbFirst(s)
  <2> SUFFICES ASSUME NEW i \in DOMAIN s, Writes(s[i], "kyber")
               PROVE  \E j \in DOMAIN s : j < i /\ Writes(s[j], "db")
    BY DEF DbFirst
  <2>1. i > Len(C)
    BY <1>5
  <2>2. PICK j : j = Len(C) + 1
    OBVIOUS
  <2>3. j \in DOMAIN s /\ s[j] = t[1]
    BY <1>3, <1>5, <2>2
  <2>4. s[j] = d
    BY <1>3, <2>3
  <2>5. i # j
    BY <2>4 DEF Writes
  <2>6. j < i
    BY <1>5, <2>1, <2>2, <2>5
  <2> QED
    BY <2>3, <2>4, <2>6
<1> QED
  BY <1>1, <1>4, <1>6

\* A step and a cut keep the key of the store.
LEMMA KeyStep ==
    ASSUME FilesShape, NEW K \in Nat, StoreKey(K), Step
    PROVE  StoreKey(K)'
<1>1. PICK o : o = Head(todo)
  OBVIOUS
<1>2. todo # <<>> /\ todo' = Tail(todo) /\ wiped' = wiped
      /\ files' = IF o.op = "wipe" THEN [f \in Names |-> None] ELSE [files EXCEPT ![o.f] = o.c]
  BY <1>1 DEF Step
<1>3. todo \in Seq(KeyOperations(K)) /\ todo \in Seq(Operations) /\ files \in [Names -> FileType]
  BY DEF StoreKey, FilesShape
<1>4. o \in KeyOperations(K) /\ Tail(todo) \in Seq(KeyOperations(K))
  BY <1>1, <1>2, <1>3, Rest
<1>5. /\ o \in Operations /\ o.f \in Names /\ o.c \in FileType
      /\ o.op = "write" => /\ o.f = "db" => o.c.v = K
                           /\ o.f = "kyber" => o.c.lock = K
  BY <1>4 DEF KeyOperations, Operations
<1>6. CASE o.op = "wipe"
  <2>1. files'["db"].st = "none" /\ files'["kyber"].st = "none"
    BY <1>2, <1>6, NoneIs DEF Names
  <2>2. Tail(todo) = <<>>
    <3>1. Len(todo) = 1
      <4>1. 1 \in DOMAIN todo /\ todo[1] = o
        BY <1>1, <1>2, <1>3, Rest
      <4>2. \A i \in DOMAIN todo : todo[i].op = "wipe" => Len(todo) = 1
        BY DEF FilesShape
      <4> QED
        BY <1>6, <4>1, <4>2
    <3>2. Len(Tail(todo)) = 0 /\ Tail(todo) \in Seq(Operations)
      BY <1>2, <1>3, <3>1, Rest
    <3> QED
      BY <3>2, EmptySeq
  <2>3. DbFirst(<<>>)
    BY DEF DbFirst
  <2> QED
    BY <1>2, <1>4, <2>1, <2>2, <2>3 DEF StoreKey
<1>7. CASE o.op = "remove"
  <2>1. files'["db"] = files["db"] /\ files'["kyber"] = files["kyber"]
    BY <1>2, <1>3, <1>5, <1>7 DEF Operations, Names
  <2>2. files["db"].st # "none" \/ DbFirst(Tail(todo))
    BY <1>1, <1>2, <1>3, <1>7, DbFirstTail DEF StoreKey, Writes
  <2> QED
    BY <1>2, <1>4, <2>1, <2>2 DEF StoreKey
<1>8. CASE o.op = "write"
  <2>1. /\ files'[o.f] = o.c /\ o.c.st = "whole"
        /\ \A f \in Names : f # o.f => files'[f] = files[f]
    BY <1>2, <1>3, <1>5, <1>8 DEF Operations
  <2>2. CASE o.f = "db"
    <3>1. files'["db"].st = "whole" /\ files'["db"].v = K /\ files'["kyber"] = files["kyber"]
      BY <1>5, <1>8, <2>1, <2>2 DEF Names
    <3> QED
      BY <1>2, <1>4, <3>1 DEF StoreKey
  <2>3. CASE o.f = "kyber"
    <3>1. files'["db"] = files["db"] /\ files'["kyber"].lock = K
      BY <1>5, <1>8, <2>1, <2>3 DEF Names
    <3>2. files["db"].st # "none"
      <4>1. Writes(todo[1], "kyber") /\ 1 \in DOMAIN todo
        BY <1>1, <1>2, <1>3, <1>8, <2>3, Rest DEF Writes
      <4>2. ~DbFirst(todo)
        <5>1. \A j \in DOMAIN todo : ~(j < 1)
          BY <1>3
        <5> QED
          BY <4>1, <5>1 DEF DbFirst
      <4> QED
        BY <4>2 DEF StoreKey
    <3> QED
      BY <1>2, <1>4, <3>1, <3>2 DEF StoreKey
  <2>4. CASE o.f \notin {"db", "kyber"}
    <3>1. files'["db"] = files["db"] /\ files'["kyber"] = files["kyber"]
      BY <2>1, <2>4 DEF Names
    <3>2. files["db"].st # "none" \/ DbFirst(Tail(todo))
      BY <1>1, <1>2, <1>3, <2>4, DbFirstTail DEF StoreKey, Writes
    <3> QED
      BY <1>2, <1>4, <3>1, <3>2 DEF StoreKey
  <2> QED
    BY <2>2, <2>3, <2>4
<1> QED
  BY <1>5, <1>6, <1>7, <1>8 DEF Operations

LEMMA KeyKill ==
    ASSUME FilesShape, NEW K \in Nat, StoreKey(K), KillCommand
    PROVE  StoreKey(K)'
<1>1. PICK o : o = Head(todo)
  OBVIOUS
<1>2. todo # <<>> /\ todo' = <<>>
  BY DEF KillCommand
<1>3. todo \in Seq(Operations) /\ files \in [Names -> FileType] /\ o \in Operations
  BY <1>1, <1>2, Rest DEF FilesShape
<1>4. todo' \in Seq(KeyOperations(K)) /\ DbFirst(todo')
  <2>1. DbFirst(<<>>) /\ <<>> \in Seq(KeyOperations(K))
    BY NoPlan DEF DbFirst
  <2> QED
    BY <1>2, <2>1
<1>5. \/ UNCHANGED <<files, wiped>>
      \/ o.op = "write" /\ files' = [files EXCEPT ![o.f] = Torn] /\ wiped' = wiped
      \/ wiped' = TRUE /\ \E gone \in SUBSET {"db", "kyber", "age", "asc"} :
             files' = [f \in Names |-> IF f \in gone THEN None ELSE files[f]]
  BY <1>1 DEF KillCommand
<1>6. CASE UNCHANGED <<files, wiped>>
  BY <1>4, <1>6 DEF StoreKey
<1>7. CASE o.op = "write" /\ files' = [files EXCEPT ![o.f] = Torn] /\ wiped' = wiped
  <2>1. o.f \in Names
    BY <1>3 DEF Operations
  <2>2. \A f \in Names : files'[f] = IF f = o.f THEN Torn ELSE files[f]
    BY <1>3, <1>7, <2>1
  <2>3. files'["db"].st = "whole" => files'["db"] = files["db"]
    BY <2>2, NoneIs DEF Names
  <2>4. files'["kyber"].st = "whole" => files'["kyber"] = files["kyber"]
    BY <2>2, NoneIs DEF Names
  <2>5. files'["db"].st = "none" /\ files["kyber"].st = "none" => files'["kyber"].st = "none"
    <3>1. CASE o.f = "kyber"
      <4>1. Writes(todo[1], "kyber") /\ 1 \in DOMAIN todo
        BY <1>1, <1>2, <1>3, <1>7, <3>1, Rest DEF Writes
      <4>2. ~DbFirst(todo)
        <5>1. \A j \in DOMAIN todo : ~(j < 1)
          BY <1>3
        <5> QED
          BY <4>1, <5>1 DEF DbFirst
      <4>3. files["db"].st # "none" /\ files'["db"] = files["db"]
        BY <2>2, <3>1, <4>2 DEF StoreKey, Names
      <4> QED
        BY <4>3
    <3>2. CASE o.f # "kyber"
      BY <2>2, <3>2 DEF Names
    <3> QED
      BY <3>1, <3>2
  <2>6. files'["db"].st = "none" => files["db"].st = "none"
    BY <2>2, NoneIs DEF Names
  <2> QED
    BY <1>4, <1>7, <2>3, <2>4, <2>5, <2>6 DEF StoreKey
<1>8. CASE wiped' = TRUE /\ \E gone \in SUBSET {"db", "kyber", "age", "asc"} :
               files' = [f \in Names |-> IF f \in gone THEN None ELSE files[f]]
  <2>1. files'["db"].st = "whole" => files'["db"] = files["db"]
    BY <1>8, NoneIs DEF Names
  <2> QED
    BY <1>4, <1>8, <2>1 DEF StoreKey
<1> QED
  BY <1>5, <1>6, <1>7, <1>8

-----------------------------------------------------------------------------
(* What the commands will do.                                              *)

CertOperations == {o \in Operations : o.op # "wipe" /\ o.f \in {"asc", "age"}}

Initial(n) == Planned(n) \cup CertOperations

LEMMA InitialKeys ==
    ASSUME NEW n, NEW L, files["db"].st # "torn" => L = KeyWith(n)
    PROVE  Initial(n) \subseteq KeyOperations(L)
BY DEF Initial, Planned, CertOperations, KeyOperations, OtherOperations

LEMMA InitIs ==
    ASSUME FilesShape, InitCommand
    PROVE  made + 1 \in Nat /\ InitPlan(todo', made + 1)
<1>1. PICK n : n = made + 1
  OBVIOUS
<1>2. n \in Nat
  BY <1>1 DEF FilesShape
<1>3. PICK pass \in Passes \cup {NoPass}, env \in Passes \cup {NoPass}, secret \in Passes \cup {NoPass} :
         LET plan == generate_identity(pass, env, n) IN
         todo' = plan \o IF secret # NoPass /\ Ends(plan) THEN Write("vault", File(n, secret)) ELSE <<>>
  BY <1>1 DEF InitCommand
<1>4. PICK plan : plan = generate_identity(pass, env, n)
  OBVIOUS
<1>5. PICK V : V = IF secret # NoPass /\ Ends(plan) THEN Write("vault", File(n, secret)) ELSE <<>>
  OBVIOUS
<1>6. todo' = plan \o V
  BY <1>3, <1>4, <1>5
<1>7. V \in Seq(Planned(n))
  <2>1. secret \in Locks
    BY DEF Locks
  <2>2. PICK x : Write("vault", File(n, secret)) = <<x>> /\ IsWrite(x, "vault", n, secret)
    BY <1>2, <2>1, WriteIs DEF Names
  <2>3. x \in Planned(n)
    BY <2>2, PlannedWrite
  <2>4. <<x>> \in Seq(Planned(n)) /\ <<>> \in Seq(Planned(n))
    BY <2>3, OneOperation, NoPlan
  <2> QED
    BY <1>5, <2>2, <2>4
<1>8. InitPlan(generate_identity(pass, env, n) \o V, n)
  BY <1>2, <1>7, IdentityPlan
<1> QED
  BY <1>1, <1>2, <1>4, <1>6, <1>8

LEMMA PlannedOperations ==
    ASSUME NEW n
    PROVE  /\ Planned(n) \subseteq Operations /\ Planned(n) \subseteq OtherOperations
           /\ Planned(n) \subseteq Initial(n) /\ CertOperations \subseteq Initial(n)
           /\ Initial(n) \subseteq Operations /\ CertOperations \subseteq Operations
           /\ KeysPlanned(n) \subseteq Planned(n)
BY DEF Planned, KeysPlanned, OtherOperations, Initial, CertOperations

LEMMA CertifiesIs ==
    ASSUME NEW C, NEW n, Certifies(C, n)
    PROVE  C \in Seq(CertOperations)
<1>1. PICK x \in Operations :
        /\ x.op = "write" /\ x.f \in {"asc", "age"}
        /\ C = <<x>> \/ \E y \in Operations : C = <<x>> \o <<y>> /\ Removes(y, "asc")
  BY DEF Certifies, Writes
<1>2. x \in CertOperations
  BY <1>1 DEF CertOperations
<1>3. <<x>> \in Seq(CertOperations)
  BY <1>2, OneOperation
<1>4. CASE C = <<x>>
  BY <1>3, <1>4
<1>5. CASE \E y \in Operations : C = <<x>> \o <<y>> /\ Removes(y, "asc")
  <2>1. PICK y \in Operations : C = <<x>> \o <<y>> /\ Removes(y, "asc")
    BY <1>5
  <2>2. y \in CertOperations
    BY <2>1 DEF CertOperations, Removes
  <2>3. <<y>> \in Seq(CertOperations)
    BY <2>2, OneOperation
  <2> QED
    BY <1>3, <2>1, <2>3, Joined
<1> QED
  BY <1>1, <1>4, <1>5

LEMMA PlanIs ==
    ASSUME FilesShape, NEW n \in Nat, NEW s, InitPlan(s, n)
    PROVE  /\ s \in Seq(Initial(n))
           /\ files["db"].st = "none" => DbFirst(s)
           /\ Leads(files, n, s)
<1>1. PICK C, D, R :
        /\ s = C \o (D \o R)
        /\ Certifies(C, n)
        /\ D \in Seq(Planned(n)) /\ R \in Seq(Planned(n))
        /\ files["db"].st = "none" => \E d : D = <<d>> /\ Writes(d, "db")
  BY DEF InitPlan
<1>2. PICK DR : DR = D \o R
  OBVIOUS
<1>3. DR \in Seq(Planned(n))
  BY <1>1, <1>2, Joined
<1>4. DR \in Seq(Initial(n)) /\ DR \in Seq(Operations) /\ DR \in Seq(OtherOperations) /\ R \in Seq(Operations)
  BY <1>1, <1>3, PlannedOperations, Wider
<1>5. C \in Seq(CertOperations)
  BY <1>1, CertifiesIs
<1>6. C \in Seq(Initial(n)) /\ C \in Seq(Operations)
  BY <1>5, PlannedOperations, Wider
<1>7. s \in Seq(Initial(n))
  BY <1>1, <1>2, <1>4, <1>6, Joined
<1>8. ASSUME files["db"].st = "none"
      PROVE  DbFirst(s)
  <2>1. PICK d : D = <<d>> /\ Writes(d, "db")
    BY <1>1, <1>8
  <2>2. d \in Planned(n)
    <3>1. <<d>> \in Seq(Planned(n))
      BY <1>1, <2>1
    <3> QED
      BY <3>1
  <2>3. d \in Operations
    BY <2>2, PlannedOperations
  <2>4. \A i \in DOMAIN C : ~Writes(C[i], "kyber")
    <3>1. \A i \in DOMAIN C : C[i] \in CertOperations
      BY <1>5
    <3> QED
      BY <3>1 DEF CertOperations, Writes
  <2>5. DbFirst(C \o (<<d>> \o R))
    BY <1>4, <1>6, <2>1, <2>3, <2>4, DbFirstIn
  <2> QED
    BY <1>1, <2>1, <2>5
<1>9. Leads(files, n, s)
  <2>1. PICK x \in Operations :
        \/ C = <<x>> /\ Writes(x, "asc") /\ IsCert("asc", x.c, n)
        \/ C = <<x>> /\ Writes(x, "age") /\ IsCert("age", x.c, n) /\ files["asc"].st = "none"
        \/ /\ Writes(x, "age") /\ IsCert("age", x.c, n)
           /\ \E y \in Operations : C = <<x>> \o <<y>> /\ Removes(y, "asc")
    BY <1>1 DEF Certifies
  <2>2. CASE C = <<x>> /\ (\/ Writes(x, "asc") /\ IsCert("asc", x.c, n)
                           \/ Writes(x, "age") /\ IsCert("age", x.c, n) /\ files["asc"].st = "none")
    <3>1. s = <<x>> \o DR
      BY <1>1, <1>2, <2>2
    <3>2. s # <<>> /\ Head(s) = x /\ Tail(s) = DR
      BY <1>4, <3>1, FirstOf
    <3> QED
      BY <1>4, <2>2, <3>2 DEF Leads
  <2>3. CASE /\ Writes(x, "age") /\ IsCert("age", x.c, n)
             /\ \E y \in Operations : C = <<x>> \o <<y>> /\ Removes(y, "asc")
    <3>1. PICK y \in Operations : C = <<x>> \o <<y>> /\ Removes(y, "asc")
      BY <2>3
    <3>2. <<x>> \in Seq(Operations) /\ <<y>> \in Seq(Operations)
      BY OneOperation
    <3>3. (<<x>> \o <<y>>) \o DR = <<x>> \o (<<y>> \o DR)
      BY <1>4, <3>2, ConcatAssociative
    <3>4. PICK t : t = <<y>> \o DR
      OBVIOUS
    <3>5. t \in Seq(Operations) /\ t # <<>> /\ Head(t) = y /\ Tail(t) = DR
      BY <1>4, <3>4, FirstOf
    <3>6. s = <<x>> \o t
      BY <1>1, <1>2, <3>1, <3>3, <3>4
    <3>7. s # <<>> /\ Head(s) = x /\ Tail(s) = t
      BY <3>5, <3>6, FirstOf
    <3> QED
      BY <1>4, <2>3, <3>1, <3>5, <3>7 DEF Leads
  <2> QED
    BY <2>1, <2>2, <2>3
<1> QED
  BY <1>7, <1>8, <1>9

LEMMA OpenIs ==
    ASSUME FilesShape, OpenCommand
    PROVE  /\ made + 1 \in Nat
           /\ todo' \in Seq(KeysPlanned(made + 1))
           /\ files["db"].st = "none" => DbFirst(todo')
<1>1. PICK n : n = made + 1
  OBVIOUS
<1>2. n \in Nat
  BY <1>1 DEF FilesShape
<1>3. PICK env \in Passes \cup {NoPass} :
         LET db == LoadDbKey(env, n) IN
         todo' = db.ops \o IF db.ok THEN load_or_generate_kyber(db.key, n).ops ELSE <<>>
  BY <1>1 DEF OpenCommand
<1>4. PICK db : db = LoadDbKey(env, n)
  OBVIOUS
<1>5. PICK D : D = db.ops
  OBVIOUS
<1>6. PICK E : E = IF db.ok THEN load_or_generate_kyber(db.key, n).ops ELSE <<>>
  OBVIOUS
<1>7. todo' = D \o E
  BY <1>3, <1>4, <1>5, <1>6
<1>8. /\ db.key \in Nat /\ db.ok \in BOOLEAN
      /\ db.ops \in Seq(KeysPlanned(n))
      /\ db.ok => db.key = KeyWith(n) /\ files["db"].st # "torn"
      /\ files["db"].st = "none" => \E d : db.ops = <<d>> /\ Writes(d, "db")
  BY <1>2, <1>4, DbKeyLoaded
<1>9. E \in Seq(KeysPlanned(n))
  <2>1. CASE db.ok
    <3>1. PICK kem : kem = load_or_generate_kyber(db.key, n)
      OBVIOUS
    <3>2. kem.ops \in Seq(KeysPlanned(n))
      BY <1>2, <1>8, <2>1, <3>1, KemLoaded
    <3> QED
      BY <1>6, <2>1, <3>1, <3>2
  <2>2. CASE ~db.ok
    BY <1>6, <2>2, NoPlan
  <2> QED
    BY <1>8, <2>1, <2>2
<1>10. D \in Seq(KeysPlanned(n)) /\ (files["db"].st = "none" => \E d : D = <<d>> /\ Writes(d, "db"))
  BY <1>5, <1>8
<1>11. todo' \in Seq(KeysPlanned(n))
  BY <1>7, <1>9, <1>10, Joined
<1>12. ASSUME files["db"].st = "none"
       PROVE  DbFirst(todo')
  <2>1. PICK d : D = <<d>> /\ Writes(d, "db")
    BY <1>10, <1>12
  <2>2. d \in Operations
    <3>1. <<d>> \in Seq(KeysPlanned(n))
      BY <1>10, <2>1
    <3>2. d \in KeysPlanned(n)
      BY <3>1
    <3> QED
      BY <3>2, PlannedOperations
  <2>3. E \in Seq(Operations)
    <3>1. KeysPlanned(n) \subseteq Operations
      BY PlannedOperations
    <3> QED
      BY <1>9, <3>1, Wider
  <2>4. PICK t : t = <<d>> \o E
    OBVIOUS
  <2>5. t \in Seq(Operations)
    BY <2>2, <2>3, <2>4, FirstOf
  <2>6. <<>> \o t = t
    BY <2>5, ConcatEmptySeq
  <2>7. DbFirst(<<>> \o (<<d>> \o E))
    <3>1. <<>> \in Seq(Operations) /\ \A i \in DOMAIN <<>> : ~Writes(<<>>[i], "kyber")
      BY NoPlan
    <3> QED
      BY <2>1, <2>2, <2>3, <3>1, DbFirstIn
  <2> QED
    BY <1>7, <2>1, <2>4, <2>6, <2>7
<1> QED
  BY <1>1, <1>2, <1>11, <1>12

\* A change of the passphrase leads to the certificate that was there.
LEMMA PasswdIs ==
    ASSUME FilesShape, PasswdCommand
    PROVE  /\ todo' \in Seq(CertOperations)
           /\ \A n : Certified(files, n) => Leads(files, n, todo')
<1>1. PICK old \in Passes \cup {NoPass}, new \in Passes \cup {NoPass} :
        todo' = PasswdArgs(old, new) \/ todo' = PasswdPrompt(old, new)
  BY DEF PasswdCommand
<1>2. PICK t : t = todo'
  OBVIOUS
<1>3. t # <<>>
  BY <1>2 DEF PasswdCommand
<1>4. files["asc"] \in FileType /\ files["age"] \in FileType /\ new \in Locks /\ NoPass \in Locks
  BY DEF FilesShape, Names, Locks
<1>5. files["asc"].v \in Nat /\ files["age"].v \in Nat
  BY <1>4 DEF FileType
<1>6. /\ Text("asc") = files["asc"].v /\ Text("age") = files["age"].v
      /\ Exists("asc") <=> files["asc"].st # "none"
  BY DEF Text, Exists
<1>7. PICK a : Write("age", File(files["age"].v, new)) = <<a>> /\ IsWrite(a, "age", files["age"].v, new)
  BY <1>4, <1>5, WriteIs DEF Names
<1>8. PICK e : Write("age", File(files["asc"].v, new)) = <<e>> /\ IsWrite(e, "age", files["asc"].v, new)
  BY <1>4, <1>5, WriteIs DEF Names
<1>9. PICK p : Write("asc", File(files["age"].v, NoPass)) = <<p>> /\ IsWrite(p, "asc", files["age"].v, NoPass)
  BY <1>4, <1>5, WriteIs DEF Names
<1>10. PICK ua : Unlink("age") = <<ua>> /\ IsUnlink(ua, "age")
  BY UnlinkIs
<1>11. PICK up : Unlink("asc") = <<up>> /\ IsUnlink(up, "asc")
  BY UnlinkIs
<1>12. \/ t = <<a>> /\ new # NoPass
       \/ t = <<e>> \o <<up>> /\ new # NoPass /\ files["asc"].st # "none"
       \/ t = <<p>> \o <<ua>> /\ new = NoPass /\ files["asc"].st = "none"
  BY <1>1, <1>2, <1>3, <1>6, <1>7, <1>8, <1>9, <1>10, <1>11 DEF PasswdArgs, PasswdPrompt
<1>13. new # NoPass => new \in Passes
  OBVIOUS
<1>14. <<>> \in Seq(OtherOperations) /\ <<>> \in Seq(Operations)
  BY NoPlan
<1>15. CASE t = <<a>> /\ new # NoPass
  <2>1. a \in CertOperations /\ a \in Operations /\ Writes(a, "age")
    BY <1>7 DEF IsWrite, CertOperations, Writes
  <2>2. t \in Seq(CertOperations)
    BY <1>15, <2>1, OneOperation
  <2>3. t # <<>> /\ Head(t) = a /\ Tail(t) = <<>>
    <3>1. t = <<a>> \o <<>>
      BY <1>15, NothingAfter
    <3> QED
      BY <1>14, <2>1, <3>1, FirstOf
  <2>4. ASSUME NEW n, Certified(files, n)
        PROVE  Leads(files, n, t)
    <3>1. CASE files["asc"].st # "none"
      <4>1. IsCert("asc", files["asc"], n)
        BY <2>4, <3>1 DEF Certified
      <4> QED
        BY <1>14, <2>1, <2>3, <4>1 DEF Leads
    <3>2. CASE files["asc"].st = "none"
      <4>1. IsCert("age", a.c, n)
        BY <1>7, <1>13, <1>15, <2>4, <3>2 DEF Certified, IsCert, IsWrite
      <4> QED
        BY <1>14, <2>1, <2>3, <3>2, <4>1 DEF Leads
    <3> QED
      BY <3>1, <3>2
  <2> QED
    BY <1>2, <2>2, <2>4
<1>16. CASE t = <<e>> \o <<up>> /\ new # NoPass /\ files["asc"].st # "none"
  <2>1. e \in CertOperations /\ e \in Operations /\ Writes(e, "age")
    BY <1>8 DEF IsWrite, CertOperations, Writes
  <2>2. up \in CertOperations /\ up \in Operations /\ Removes(up, "asc")
    BY <1>11 DEF IsUnlink, CertOperations, Removes
  <2>3. t \in Seq(CertOperations)
    BY <1>16, <2>1, <2>2, OneOperation, FirstOf
  <2>4. t # <<>> /\ Head(t) = e /\ Tail(t) = <<up>>
    <3>1. <<up>> \in Seq(Operations)
      BY <2>2, OneOperation
    <3> QED
      BY <1>16, <2>1, <3>1, FirstOf
  <2>5. PICK u : u = <<up>>
    OBVIOUS
  <2>6. u # <<>> /\ Head(u) = up /\ Tail(u) = <<>>
    <3>1. u = <<up>> \o <<>>
      BY <2>5, NothingAfter
    <3> QED
      BY <1>14, <2>2, <3>1, FirstOf
  <2>7. ASSUME NEW n, Certified(files, n)
        PROVE  Leads(files, n, t)
    <3>1. IsCert("age", e.c, n)
      BY <1>8, <1>13, <1>16, <2>7 DEF Certified, IsCert, IsWrite
    <3> QED
      BY <1>14, <2>1, <2>2, <2>4, <2>5, <2>6, <3>1 DEF Leads
  <2> QED
    BY <1>2, <2>3, <2>7
<1>17. CASE t = <<p>> \o <<ua>> /\ new = NoPass /\ files["asc"].st = "none"
  <2>1. p \in CertOperations /\ p \in Operations /\ Writes(p, "asc")
    BY <1>9 DEF IsWrite, CertOperations, Writes
  <2>2. ua \in CertOperations /\ ua \in Operations /\ Removes(ua, "age")
    BY <1>10 DEF IsUnlink, CertOperations, Removes
  <2>3. t \in Seq(CertOperations)
    BY <1>17, <2>1, <2>2, OneOperation, FirstOf
  <2>4. t # <<>> /\ Head(t) = p /\ Tail(t) = <<ua>>
    <3>1. <<ua>> \in Seq(Operations)
      BY <2>2, OneOperation
    <3> QED
      BY <1>17, <2>1, <3>1, FirstOf
  <2>5. PICK u : u = <<ua>>
    OBVIOUS
  <2>6. u # <<>> /\ Head(u) = ua /\ Tail(u) = <<>>
    <3>1. u = <<ua>> \o <<>>
      BY <2>5, NothingAfter
    <3> QED
      BY <1>14, <2>2, <3>1, FirstOf
  <2>7. ASSUME NEW n, Certified(files, n)
        PROVE  Leads(files, n, t)
    <3>1. IsCert("asc", p.c, n)
      BY <1>9, <1>17, <2>7 DEF Certified, IsCert, IsWrite
    <3> QED
      BY <1>14, <2>1, <2>2, <2>4, <2>5, <2>6, <3>1 DEF Leads
  <2> QED
    BY <1>2, <2>3, <2>7
<1> QED
  BY <1>12, <1>15, <1>16, <1>17

LEMMA Attempts == max_wrong_attempts \in Nat /\ max_wrong_attempts >= 3
BY FilesAssumption DEF max_wrong_attempts, Clamp

LEMMA UnlockIs ==
    ASSUME FilesShape, Counted, UnlockCommand
    PROVE  /\ tries' \in Nat /\ files["fails"].v <= tries'
           /\ \/ todo' = <<>>
              \/ \E x \in Operations :
                    /\ todo' = <<x>>
                    /\ \/ Writes(x, "fails") /\ x.c.v <= tries' /\ x.c.v < max_wrong_attempts
                       \/ x.op = "wipe" /\ tries' >= max_wrong_attempts
                       \/ Removes(x, "fails")
<1>1. PICK m : m = max_wrong_attempts
  OBVIOUS
<1>2. m \in Nat /\ m >= 3
  BY <1>1, Attempts
<1>3. files["fails"] \in FileType /\ tries \in Nat /\ NoPass \in Locks
  BY DEF FilesShape, Names, Locks
<1>4. PICK v : v = files["fails"].v
  OBVIOUS
<1>5. v \in Nat /\ v <= tries /\ v < m /\ (files["fails"].st = "none" => v = 0)
  BY <1>1, <1>3, <1>4 DEF FileType, Counted
<1>6. PICK r : r = reset_failed_attempts
  OBVIOUS
<1>7. PICK w : w = check_failed_attempts
  OBVIOUS
<1>8. \/ todo' = r /\ tries' = (IF r = <<>> THEN 0 ELSE tries)
      \/ todo' = w /\ tries' = Clamp(tries + 1, 0, m)
  BY <1>1, <1>6, <1>7 DEF UnlockCommand
<1>9. CASE todo' = r /\ tries' = (IF r = <<>> THEN 0 ELSE tries)
  <2>1. PICK x : Unlink("fails") = <<x>> /\ IsUnlink(x, "fails")
    BY UnlinkIs
  <2>2. CASE files["fails"].st = "none"
    <3>1. r = <<>>
      BY <1>6, <2>2 DEF reset_failed_attempts, Exists
    <3> QED
      BY <1>4, <1>5, <1>9, <2>2, <3>1
  <2>3. CASE files["fails"].st # "none"
    <3>1. r = <<x>>
      BY <1>6, <2>1, <2>3 DEF reset_failed_attempts, Exists
    <3>2. <<x>> # <<>>
      OBVIOUS
    <3>3. tries' = tries /\ todo' = <<x>>
      BY <1>9, <3>1, <3>2
    <3>4. x \in Operations /\ Removes(x, "fails")
      BY <2>1 DEF IsUnlink, Removes
    <3> QED
      BY <1>3, <1>4, <1>5, <3>3, <3>4
  <2> QED
    BY <2>2, <2>3
<1>10. CASE todo' = w /\ tries' = Clamp(tries + 1, 0, m)
  <2>1. tries' = IF tries + 1 > m THEN m ELSE tries + 1
    BY <1>2, <1>3, <1>10 DEF Clamp
  <2>2. tries' \in Nat /\ v <= tries' /\ v + 1 <= tries'
    BY <1>2, <1>3, <1>5, <2>1
  <2>3. CASE v + 1 >= m
    <3>1. w = Wipe
      BY <1>1, <1>4, <1>7, <2>3 DEF check_failed_attempts, Count
    <3>2. PICK x \in Operations : Wipe = <<x>> /\ x.op = "wipe" /\ x.f = "vault"
      BY WipeIs
    <3>3. tries' >= m
      BY <1>2, <1>3, <1>5, <2>1, <2>3
    <3> QED
      BY <1>1, <1>4, <1>10, <2>2, <3>1, <3>2, <3>3
  <2>4. CASE ~(v + 1 >= m)
    <3>1. w = Write("fails", File(v + 1, NoPass))
      BY <1>1, <1>4, <1>7, <2>4 DEF check_failed_attempts, Count
    <3>2. v + 1 \in Nat
      BY <1>5
    <3>3. PICK x : Write("fails", File(v + 1, NoPass)) = <<x>> /\ IsWrite(x, "fails", v + 1, NoPass)
      BY <1>3, <3>2, WriteIs DEF Names
    <3>4. x \in Operations /\ Writes(x, "fails") /\ x.c.v = v + 1
      BY <3>3 DEF IsWrite, Writes
    <3>5. v + 1 <= tries' /\ v + 1 < m
      BY <1>2, <1>5, <2>2, <2>4
    <3> QED
      BY <1>1, <1>4, <1>10, <2>2, <3>1, <3>3, <3>4, <3>5
  <2> QED
    BY <2>3, <2>4
<1> QED
  BY <1>8, <1>9, <1>10

-----------------------------------------------------------------------------
(* Every command and every step keep the invariants.                       *)

FilesInv == FilesShape /\ OneStoreKey /\ Counted /\ Preserved

LEMMA SoleOperation ==
    ASSUME NEW S, NEW x \in S
    PROVE  <<x>> \in Seq(S) /\ Len(<<x>>) = 1 /\ \A i \in DOMAIN <<x>> : <<x>>[i] = x
OBVIOUS

LEMMA NoOperation == \A i \in DOMAIN <<>> : FALSE
OBVIOUS

LEMMA ElementsOf ==
    ASSUME NEW S, NEW s \in Seq(S)
    PROVE  \A i \in DOMAIN s : s[i] \in S
OBVIOUS

LEMMA InitialIs ==
    ASSUME NEW n, NEW o \in Initial(n)
    PROVE  /\ o \in Operations /\ o.op # "wipe" /\ ~Writes(o, "fails") /\ ~Removes(o, "fails")
           /\ Writes(o, "identity") => o.c.v = n
           /\ o \in CertOperations \/ o \in KeysPlanned(n) => ~Writes(o, "identity")
BY DEF Initial, Planned, KeysPlanned, CertOperations, OtherOperations, Writes, Removes

\* What `add init', a command that opens the store and `add passwd' have in
\* common: whatever they write keeps to the key of the store, which they write
\* first when there is none.
LEMMA CommandIs ==
    ASSUME FilesShape, Counted, InitCommand \/ OpenCommand \/ PasswdCommand
    PROVE  \E n \in Nat :
             /\ todo' \in Seq(Initial(n))
             /\ files["db"].st = "none" => DbFirst(todo')
             /\ InitCommand \/ \A i \in DOMAIN todo' : ~Writes(todo'[i], "identity")
<1>1. CASE InitCommand
  BY <1>1, InitIs, PlanIs
<1>2. CASE OpenCommand
  <2>1. PICK n \in Nat : todo' \in Seq(KeysPlanned(n)) /\ (files["db"].st = "none" => DbFirst(todo'))
    BY <1>2, OpenIs
  <2>2. KeysPlanned(n) \subseteq Initial(n)
    BY PlannedOperations
  <2>3. todo' \in Seq(Initial(n))
    BY <2>1, <2>2, Wider
  <2>4. \A i \in DOMAIN todo' : todo'[i] \in KeysPlanned(n)
    BY <2>1, ElementsOf
  <2>5. \A i \in DOMAIN todo' : ~Writes(todo'[i], "identity")
    BY <2>2, <2>4, InitialIs
  <2> QED
    BY <2>1, <2>3, <2>5
<1>3. CASE PasswdCommand
  <2>1. todo' \in Seq(CertOperations)
    BY <1>3, PasswdIs
  <2>2. CertOperations \subseteq Initial(0)
    BY PlannedOperations
  <2>3. todo' \in Seq(Initial(0))
    BY <2>1, <2>2, Wider
  <2>4. \A i \in DOMAIN todo' : todo'[i] \in CertOperations
    BY <2>1, ElementsOf
  <2>5. \A i \in DOMAIN todo' : ~Writes(todo'[i], "identity") /\ ~Writes(todo'[i], "kyber")
    BY <2>4 DEF CertOperations, Writes
  <2>6. DbFirst(todo')
    BY <2>5 DEF DbFirst
  <2> QED
    BY <2>3, <2>5, <2>6
<1> QED
  BY <1>1, <1>2, <1>3

LEMMA StepShape ==
    ASSUME FilesShape, Step
    PROVE  FilesShape'
<1>1. PICK o : o = Head(todo)
  OBVIOUS
<1>2. todo # <<>> /\ todo' = Tail(todo) /\ wiped' = wiped /\ made' = made
      /\ files' = (IF o.op = "wipe" THEN [f \in Names |-> None] ELSE [files EXCEPT ![o.f] = o.c])
      /\ unended' = (IF o.op = "write" /\ o.f = "identity" THEN FALSE ELSE unended)
      /\ tries' = (IF o.op = "remove" /\ o.f = "fails" THEN 0 ELSE tries)
  BY <1>1 DEF Step
<1>3. todo \in Seq(Operations) /\ files \in [Names -> FileType]
  BY DEF FilesShape
<1>4. o \in Operations /\ Tail(todo) \in Seq(Operations) /\ Len(Tail(todo)) = Len(todo) - 1 /\ Len(todo) \in Nat
      /\ \A i \in DOMAIN Tail(todo) : i + 1 \in DOMAIN todo /\ Tail(todo)[i] = todo[i + 1]
  BY <1>1, <1>2, <1>3, Rest
<1>5. o.f \in Names /\ o.c \in FileType
  BY <1>4 DEF Operations
<1>6. files' \in [Names -> FileType]
  BY <1>2, <1>3, <1>5, NoneIs
<1>7. made' \in Nat /\ tries' \in Nat /\ unended' \in BOOLEAN /\ wiped' \in BOOLEAN
  BY <1>2 DEF FilesShape
<1>8. ASSUME NEW i \in DOMAIN Tail(todo), Tail(todo)[i].op = "wipe"
      PROVE  FALSE
  <2>1. Len(todo) = 1
    BY <1>4, <1>8 DEF FilesShape
  <2>2. Tail(todo) = <<>>
    BY <1>4, <2>1, EmptySeq
  <2> QED
    BY <1>8, <2>2, NoOperation
<1> QED
  BY <1>2, <1>4, <1>6, <1>7, <1>8 DEF FilesShape

LEMMA KillShape ==
    ASSUME FilesShape, KillCommand
    PROVE  FilesShape'
<1>1. PICK o : o = Head(todo)
  OBVIOUS
<1>2. todo # <<>> /\ todo' = <<>> /\ made' = made /\ tries' = tries
  BY DEF KillCommand
<1>3. todo \in Seq(Operations) /\ files \in [Names -> FileType] /\ o \in Operations
  BY <1>1, <1>2, Rest DEF FilesShape
<1>4. o.f \in Names
  BY <1>3 DEF Operations
<1>5. \/ UNCHANGED <<files, unended, wiped>>
      \/ /\ files' = [files EXCEPT ![o.f] = Torn]
         /\ unended' = (unended \/ o.f \in {"asc", "age", "identity"}) /\ wiped' = wiped
      \/ /\ wiped' = TRUE /\ unended' = unended
         /\ \E gone \in SUBSET {"db", "kyber", "age", "asc"} :
               files' = [f \in Names |-> IF f \in gone THEN None ELSE files[f]]
  BY <1>1 DEF KillCommand
<1>6. files' \in [Names -> FileType]
  BY <1>3, <1>4, <1>5, NoneIs
<1>7. unended' \in BOOLEAN /\ wiped' \in BOOLEAN
  BY <1>5 DEF FilesShape
<1>8. todo' \in Seq(Operations) /\ \A i \in DOMAIN todo' : FALSE
  BY <1>2, NoPlan, NoOperation
<1> QED
  BY <1>2, <1>6, <1>7, <1>8 DEF FilesShape

LEMMA ShapeKept ==
    ASSUME FilesShape, Counted, [FilesNext]_filevars
    PROVE  FilesShape'
<1>1. CASE InitCommand \/ OpenCommand \/ PasswdCommand
  <2>1. PICK n \in Nat : todo' \in Seq(Initial(n))
    BY <1>1, CommandIs
  <2>2. todo' \in Seq(Operations)
    BY <2>1, PlannedOperations, Wider
  <2>3. \A i \in DOMAIN todo' : todo'[i] \in Initial(n)
    BY <2>1, ElementsOf
  <2>4. \A i \in DOMAIN todo' : todo'[i].op # "wipe"
    BY <2>3, InitialIs
  <2>5. /\ files' = files /\ tries' = tries /\ wiped' = wiped
        /\ unended' \in {TRUE, unended} /\ made' \in {made, made + 1}
    BY <1>1 DEF InitCommand, OpenCommand, PasswdCommand
  <2>6. files' \in [Names -> FileType] /\ tries' \in Nat /\ wiped' \in BOOLEAN
    BY <2>5 DEF FilesShape
  <2>7. made' \in Nat
    BY <2>5 DEF FilesShape
  <2>8. unended' \in BOOLEAN
    BY <2>5 DEF FilesShape
  <2> QED
    BY <2>2, <2>4, <2>6, <2>7, <2>8 DEF FilesShape
<1>2. CASE UnlockCommand
  <2>1. tries' \in Nat /\ (todo' = <<>> \/ \E x \in Operations : todo' = <<x>>)
    BY <1>2, UnlockIs
  <2>2. todo' \in Seq(Operations) /\ \A i \in DOMAIN todo' : todo'[i].op = "wipe" => Len(todo') = 1
    BY <2>1, NoPlan, NoOperation, SoleOperation
  <2>3. UNCHANGED <<files, made, unended, wiped>>
    BY <1>2 DEF UnlockCommand
  <2> QED
    BY <2>1, <2>2, <2>3 DEF FilesShape
<1>3. CASE Step
  BY <1>3, StepShape
<1>4. CASE KillCommand
  BY <1>4, KillShape
<1>5. CASE UNCHANGED filevars
  BY <1>5 DEF filevars, FilesShape
<1> QED
  BY <1>1, <1>2, <1>3, <1>4, <1>5 DEF FilesNext

\* The key K of the message store stays, or the files do.
LEMMA StoreKeyKept ==
    ASSUME FilesShape, Counted, OneStoreKey, [FilesNext]_filevars
    PROVE  /\ OneStoreKey'
           /\ files' = files \/ \E K \in Nat : StoreKey(K) /\ StoreKey(K)'
<1>1. PICK K \in Nat : StoreKey(K)
  BY DEF OneStoreKey
<1>2. CASE InitCommand \/ OpenCommand \/ PasswdCommand
  <2>1. PICK n \in Nat : todo' \in Seq(Initial(n)) /\ (files["db"].st = "none" => DbFirst(todo'))
    BY <1>2, CommandIs
  <2>2. UNCHANGED <<files, wiped>>
    BY <1>2 DEF InitCommand, OpenCommand, PasswdCommand
  <2>3. PICK L : L = IF files["db"].st = "none" THEN n ELSE K
    OBVIOUS
  <2>4. files["db"].st \in {"none", "torn", "whole"}
    BY DEF FilesShape, FileType, Names
  <2>5. L \in Nat
    BY <2>3
  <2>6. files["db"].st # "torn" => L = KeyWith(n)
    BY <1>1, <2>3, <2>4 DEF KeyWith, StoreKey
  <2>7. todo' \in Seq(KeyOperations(L))
    BY <2>1, <2>6, InitialKeys, Wider
  <2>8. StoreKey(L)'
    BY <1>1, <2>1, <2>2, <2>3, <2>5, <2>7, KeyCommand
  <2> QED
    BY <2>2, <2>5, <2>8 DEF OneStoreKey
<1>3. CASE UnlockCommand
  <2>1. todo' = <<>> \/ \E x \in Operations : todo' = <<x>> /\ (Writes(x, "fails") \/ x.op = "wipe" \/ Removes(x, "fails"))
    BY <1>3, UnlockIs
  <2>2. UNCHANGED <<files, wiped>>
    BY <1>3 DEF UnlockCommand
  <2>3. todo' \in Seq(KeyOperations(K)) /\ DbFirst(todo')
    <3>1. CASE todo' = <<>>
      <4>1. <<>> \in Seq(KeyOperations(K)) /\ DbFirst(<<>>)
        BY NoPlan DEF DbFirst
      <4> QED
        BY <3>1, <4>1
    <3>2. CASE \E x \in Operations : todo' = <<x>> /\ (Writes(x, "fails") \/ x.op = "wipe" \/ Removes(x, "fails"))
      <4>1. PICK x \in Operations : todo' = <<x>> /\ (Writes(x, "fails") \/ x.op = "wipe" \/ Removes(x, "fails"))
        BY <3>2
      <4>2. x \in KeyOperations(K) /\ ~Writes(x, "kyber")
        BY <4>1 DEF KeyOperations, Writes, Removes
      <4>3. <<x>> \in Seq(KeyOperations(K)) /\ \A i \in DOMAIN <<x>> : ~Writes(<<x>>[i], "kyber")
        BY <4>2, SoleOperation
      <4> QED
        BY <4>1, <4>3 DEF DbFirst
    <3> QED
      BY <2>1, <3>1, <3>2
  <2>4. StoreKey(K)'
    BY <1>1, <2>2, <2>3, KeyCommand
  <2> QED
    BY <2>2, <2>4 DEF OneStoreKey
<1>4. CASE Step
  BY <1>1, <1>4, KeyStep DEF OneStoreKey
<1>5. CASE KillCommand
  BY <1>1, <1>5, KeyKill DEF OneStoreKey
<1>6. CASE UNCHANGED filevars
  <2>1. StoreKey(K)'
    BY <1>1, <1>6 DEF filevars, StoreKey
  <2> QED
    BY <1>6, <2>1 DEF filevars, OneStoreKey
<1> QED
  BY <1>2, <1>3, <1>4, <1>5, <1>6 DEF FilesNext

LEMMA CountKept ==
    ASSUME FilesShape, Counted, [FilesNext]_filevars
    PROVE  Counted'
<1>0. PICK m : m = max_wrong_attempts
  OBVIOUS
<1>1. m \in Nat /\ m >= 3 /\ max_wrong_attempts' = m
  BY <1>0, Attempts DEF max_wrong_attempts, Clamp
<1>2. /\ files["fails"].v <= tries /\ files["fails"].v < m
      /\ files["fails"].st = "none" => files["fails"].v = 0
  BY <1>0 DEF Counted
<1>3. \A i \in DOMAIN todo :
          /\ Writes(todo[i], "fails") => todo[i].c.v <= tries /\ todo[i].c.v < m
          /\ todo[i].op = "wipe" => tries >= m
          /\ Removes(todo[i], "fails") => Len(todo) = 1
  BY <1>0 DEF Counted, Removes
<1>4. SUFFICES
      /\ files'["fails"].v <= tries' /\ files'["fails"].v < m
      /\ files'["fails"].st = "none" => files'["fails"].v = 0
      /\ \A i \in DOMAIN todo' :
            /\ Writes(todo'[i], "fails") => todo'[i].c.v <= tries' /\ todo'[i].c.v < m
            /\ todo'[i].op = "wipe" => tries' >= m
            /\ Removes(todo'[i], "fails") => Len(todo') = 1
  BY <1>1 DEF Counted, Removes, Writes
<1>5. CASE InitCommand \/ OpenCommand \/ PasswdCommand
  <2>1. PICK n \in Nat : todo' \in Seq(Initial(n))
    BY <1>5, CommandIs
  <2>2. \A i \in DOMAIN todo' : todo'[i] \in Initial(n)
    BY <2>1, ElementsOf
  <2>3. \A i \in DOMAIN todo' : todo'[i].op # "wipe" /\ ~Writes(todo'[i], "fails") /\ ~Removes(todo'[i], "fails")
    BY <2>2, InitialIs
  <2>4. files' = files /\ tries' = tries
    BY <1>5 DEF InitCommand, OpenCommand, PasswdCommand
  <2> QED
    BY <1>2, <2>3, <2>4
<1>6. CASE UnlockCommand
  <2>1. files' = files
    BY <1>6 DEF UnlockCommand
  <2>2. files["fails"].v <= tries'
    BY <1>6, UnlockIs
  <2>3. \/ todo' = <<>>
        \/ \E x \in Operations :
              /\ todo' = <<x>>
              /\ \/ Writes(x, "fails") /\ x.c.v <= tries' /\ x.c.v < m
                 \/ x.op = "wipe" /\ tries' >= m
                 \/ Removes(x, "fails")
    BY <1>0, <1>6, UnlockIs
  <2>4. CASE todo' = <<>>
    BY <1>2, <2>1, <2>2, <2>4, NoOperation
  <2>5. CASE \E x \in Operations :
              /\ todo' = <<x>>
              /\ \/ Writes(x, "fails") /\ x.c.v <= tries' /\ x.c.v < m
                 \/ x.op = "wipe" /\ tries' >= m
                 \/ Removes(x, "fails")
    <3>1. PICK x \in Operations :
              /\ todo' = <<x>>
              /\ \/ Writes(x, "fails") /\ x.c.v <= tries' /\ x.c.v < m
                 \/ x.op = "wipe" /\ tries' >= m
                 \/ Removes(x, "fails")
      BY <2>5
    <3>2. Len(todo') = 1 /\ \A i \in DOMAIN todo' : todo'[i] = x
      BY <3>1, SoleOperation
    <3>3. /\ Writes(x, "fails") => x.c.v <= tries' /\ x.c.v < m
          /\ x.op = "wipe" => tries' >= m
      BY <3>1 DEF Writes, Removes
    <3> QED
      BY <1>2, <2>1, <2>2, <3>2, <3>3
  <2> QED
    BY <2>3, <2>4, <2>5
<1>7. CASE Step
  <2>1. PICK o : o = Head(todo)
    OBVIOUS
  <2>2. todo # <<>> /\ todo' = Tail(todo)
        /\ files' = (IF o.op = "wipe" THEN [f \in Names |-> None] ELSE [files EXCEPT ![o.f] = o.c])
        /\ tries' = (IF o.op = "remove" /\ o.f = "fails" THEN 0 ELSE tries)
    BY <1>7, <2>1 DEF Step
  <2>3. todo \in Seq(Operations) /\ files \in [Names -> FileType] /\ tries \in Nat
    BY DEF FilesShape
  <2>4. o \in Operations /\ 1 \in DOMAIN todo /\ o = todo[1]
        /\ Tail(todo) \in Seq(Operations) /\ Len(Tail(todo)) = Len(todo) - 1
        /\ \A i \in DOMAIN Tail(todo) : i + 1 \in DOMAIN todo /\ Tail(todo)[i] = todo[i + 1]
    BY <2>1, <2>2, <2>3, Rest
  <2>5. o.f \in Names /\ o.op \in {"write", "remove", "wipe"}
        /\ (o.op = "remove" => o.c = None) /\ (o.op = "write" => o.c.st = "whole")
    BY <2>4 DEF Operations
  <2>6. CASE o.op = "wipe" \/ Removes(o, "fails")
    <3>1. Len(todo) = 1
      BY <1>3, <2>4, <2>6 DEF FilesShape
    <3>2. Tail(todo) = <<>>
      BY <2>4, <3>1, EmptySeq
    <3>3. files'["fails"] = None
      BY <2>2, <2>3, <2>5, <2>6 DEF Removes, Names
    <3>4. files'["fails"].v = 0
      BY <3>3, NoneIs
    <3>5. tries' \in Nat
      BY <2>2, <2>3
    <3> QED
      BY <1>1, <2>2, <3>2, <3>4, <3>5, NoOperation
  <2>7. CASE ~(o.op = "wipe" \/ Removes(o, "fails"))
    <3>1. tries' = tries /\ files' = [files EXCEPT ![o.f] = o.c]
      BY <2>2, <2>7 DEF Removes
    <3>2. \A i \in DOMAIN Tail(todo) : ~Removes(Tail(todo)[i], "fails")
      <4> SUFFICES ASSUME NEW i \in DOMAIN Tail(todo), Removes(Tail(todo)[i], "fails")
                   PROVE  FALSE
        OBVIOUS
      <4>1. Len(todo) = 1
        BY <1>3, <2>4
      <4>2. Tail(todo) = <<>>
        BY <2>4, <4>1, EmptySeq
      <4> QED
        BY <4>2, NoOperation
    <3>3. \A i \in DOMAIN Tail(todo) :
            /\ Writes(Tail(todo)[i], "fails") => Tail(todo)[i].c.v <= tries /\ Tail(todo)[i].c.v < m
            /\ Tail(todo)[i].op = "wipe" => tries >= m
      BY <1>3, <2>4
    <3>4. CASE o.f = "fails"
      <4>1. Writes(o, "fails") /\ files'["fails"] = o.c
        BY <2>3, <2>5, <2>7, <3>1, <3>4 DEF Writes, Removes, Names
      <4>2. o.c.v <= tries /\ o.c.v < m /\ o.c.st = "whole"
        BY <1>3, <2>4, <2>5, <4>1 DEF Writes
      <4> QED
        BY <2>2, <3>1, <3>2, <3>3, <4>1, <4>2
    <3>5. CASE o.f # "fails"
      <4>1. files'["fails"] = files["fails"]
        BY <2>3, <2>5, <3>1, <3>5 DEF Names
      <4> QED
        BY <1>2, <2>2, <3>1, <3>2, <3>3, <4>1
    <3> QED
      BY <3>4, <3>5
  <2> QED
    BY <2>6, <2>7
<1>8. CASE KillCommand
  <2>1. PICK o : o = Head(todo)
    OBVIOUS
  <2>2. todo # <<>> /\ todo' = <<>> /\ tries' = tries
    BY <1>8 DEF KillCommand
  <2>3. files \in [Names -> FileType] /\ tries \in Nat
    BY DEF FilesShape
  <2>4. \/ files' = files
        \/ files' = [files EXCEPT ![o.f] = Torn]
        \/ \E gone \in SUBSET {"db", "kyber", "age", "asc"} :
              files' = [f \in Names |-> IF f \in gone THEN None ELSE files[f]]
    BY <1>8, <2>1 DEF KillCommand
  <2>5. files'["fails"] \in {files["fails"], Torn}
    BY <2>3, <2>4 DEF Names
  <2> QED
    BY <1>1, <1>2, <2>2, <2>3, <2>5, NoneIs, NoOperation
<1>9. CASE UNCHANGED filevars
  BY <1>2, <1>3, <1>9 DEF filevars
<1> QED
  BY <1>5, <1>6, <1>7, <1>8, <1>9 DEF FilesNext

\* An operation keeps leading to the certificate, and keeps it if it is there.
LEMMA LeadsOn ==
    ASSUME NEW F \in [Names -> FileType], NEW G, NEW n, NEW s \in Seq(Operations), s # <<>>,
           NEW o, o = Head(s), o.op # "wipe", G = [F EXCEPT ![o.f] = o.c], Leads(F, n, s)
    PROVE  Leads(G, n, Tail(s)) /\ (Certified(F, n) => Certified(G, n))
<1>1. PICK t : t = Tail(s)
  OBVIOUS
<1>2. o \in Operations
  BY Rest
<1>3. o.f \in Names /\ (o.op = "remove" => o.c = None)
  BY <1>2 DEF Operations
<1>4. \A f \in Names : G[f] = IF f = o.f THEN o.c ELSE F[f]
  BY <1>3
<1>5. /\ G["asc"] = IF o.f = "asc" THEN o.c ELSE F["asc"]
      /\ G["age"] = IF o.f = "age" THEN o.c ELSE F["age"]
  BY <1>4 DEF Names
<1>6. CASE s \in Seq(OtherOperations) /\ Certified(F, n)
  <2>1. o \in OtherOperations /\ t \in Seq(OtherOperations)
    BY <1>1, <1>6, Rest
  <2>2. G["asc"] = F["asc"] /\ G["age"] = F["age"]
    BY <1>5, <2>1 DEF OtherOperations
  <2>3. Certified(G, n)
    BY <1>6, <2>2 DEF Certified
  <2> QED
    BY <1>1, <2>1, <2>3 DEF Leads
<1>7. CASE /\ Writes(o, "asc") /\ IsCert("asc", o.c, n)
           /\ \/ t \in Seq(OtherOperations)
              \/ t # <<>> /\ Removes(Head(t), "age") /\ Tail(t) \in Seq(OtherOperations)
  <2>1. IsCert("asc", G["asc"], n) /\ G["asc"].st # "none"
    BY <1>5, <1>7 DEF Writes, IsCert
  <2>2. Certified(G, n)
    BY <2>1 DEF Certified
  <2> QED
    BY <1>1, <1>7, <2>1, <2>2 DEF Leads
<1>8. CASE /\ Writes(o, "age") /\ IsCert("age", o.c, n)
           /\ \/ F["asc"].st = "none" /\ t \in Seq(OtherOperations)
              \/ t # <<>> /\ Removes(Head(t), "asc") /\ Tail(t) \in Seq(OtherOperations)
  <2>1. IsCert("age", G["age"], n) /\ G["asc"] = F["asc"]
    BY <1>5, <1>8 DEF Writes
  <2>2. Certified(F, n) => Certified(G, n)
    BY <2>1 DEF Certified
  <2>3. F["asc"].st = "none" => Certified(G, n)
    BY <2>1 DEF Certified
  <2> QED
    BY <1>1, <1>8, <2>1, <2>2, <2>3 DEF Leads
<1>9. CASE Writes(o, "age") /\ t \in Seq(OtherOperations) /\ IsCert("asc", F["asc"], n)
  <2>1. IsCert("asc", G["asc"], n) /\ G["asc"].st # "none"
    BY <1>5, <1>9 DEF Writes, IsCert
  <2>2. Certified(G, n)
    BY <2>1 DEF Certified
  <2> QED
    BY <1>1, <1>9, <2>2 DEF Leads
<1>10. CASE /\ t \in Seq(OtherOperations)
            /\ \/ Removes(o, "asc") /\ IsCert("age", F["age"], n)
               \/ Removes(o, "age") /\ IsCert("asc", F["asc"], n)
  <2>1. Certified(G, n)
    BY <1>3, <1>5, <1>10, NoneIs DEF Removes, Certified, IsCert
  <2> QED
    BY <1>1, <1>10, <2>1 DEF Leads
<1> QED
  BY <1>1, <1>6, <1>7, <1>8, <1>9, <1>10 DEF Leads

LEMMA PreservedStep ==
    ASSUME FilesShape, Preserved, Step
    PROVE  Preserved'
<1>1. PICK o : o = Head(todo)
  OBVIOUS
<1>2. PICK t : t = Tail(todo)
  OBVIOUS
<1>3. todo # <<>> /\ todo' = t /\ wiped' = wiped
      /\ files' = (IF o.op = "wipe" THEN [f \in Names |-> None] ELSE [files EXCEPT ![o.f] = o.c])
      /\ unended' = (IF o.op = "write" /\ o.f = "identity" THEN FALSE ELSE unended)
  BY <1>1, <1>2 DEF Step
<1>4. todo \in Seq(Operations) /\ files \in [Names -> FileType]
  BY DEF FilesShape
<1>5. /\ o \in Operations /\ 1 \in DOMAIN todo /\ o = todo[1]
      /\ t \in Seq(Operations) /\ Len(t) = Len(todo) - 1
      /\ \A i \in DOMAIN t : i + 1 \in DOMAIN todo /\ t[i] = todo[i + 1]
  BY <1>1, <1>2, <1>3, <1>4, Rest
<1>6. o.f \in Names /\ o.op \in {"write", "remove", "wipe"}
      /\ (o.op = "remove" => o.f \in {"asc", "age", "fails"})
  BY <1>5 DEF Operations
<1>7. CASE o.op = "wipe"
  <2>1. Len(todo) = 1
    BY <1>5, <1>7 DEF FilesShape
  <2>2. t = <<>>
    BY <1>5, <2>1, EmptySeq
  <2>3. files'["identity"] = None
    BY <1>3, <1>7 DEF Names
  <2>4. files'["identity"].st = "none"
    BY <2>3, NoneIs
  <2>5. \A i \in DOMAIN todo' : FALSE
    BY <1>3, <2>2, NoOperation
  <2> QED
    BY <2>4, <2>5 DEF Preserved
<1>8. CASE o.op # "wipe"
  <2>1. files' = [files EXCEPT ![o.f] = o.c]
    BY <1>3, <1>8
  <2>2. \A n : Leads(files, n, todo) => Leads(files', n, t) /\ (Certified(files, n) => Certified(files', n))
    BY <1>1, <1>2, <1>3, <1>4, <1>8, <2>1, LeadsOn
  <2>3. ASSUME NEW i \in DOMAIN todo', Writes(todo'[i], "identity")
        PROVE  Leads(files', todo'[i].c.v, todo')
    <3>1. i + 1 \in DOMAIN todo /\ todo'[i] = todo[i + 1]
      BY <1>3, <1>5, <2>3
    <3>2. Leads(files, todo[i + 1].c.v, todo)
      BY <2>3, <3>1 DEF Preserved
    <3> QED
      BY <1>3, <2>2, <3>1, <3>2
  <2>4. ASSUME files'["identity"].st = "whole", ~unended', ~wiped'
        PROVE  Certified(files', files'["identity"].v) /\ Leads(files', files'["identity"].v, todo')
    <3>1. CASE Writes(o, "identity")
      <4>1. files'["identity"] = o.c
        BY <1>4, <1>6, <2>1, <3>1 DEF Writes
      <4>2. Leads(files, o.c.v, todo)
        BY <1>5, <3>1 DEF Preserved
      <4>3. Certified(files, o.c.v)
        BY <1>1, <3>1, <4>2 DEF Leads, Writes, Removes
      <4> QED
        BY <1>3, <2>2, <4>1, <4>2, <4>3
    <3>2. CASE ~Writes(o, "identity")
      <4>1. o.f # "identity"
        BY <1>6, <1>8, <3>2 DEF Writes
      <4>2. files'["identity"] = files["identity"]
        BY <1>4, <1>6, <2>1, <4>1 DEF Names
      <4>3. ~unended /\ ~wiped
        BY <1>3, <2>4, <4>1
      <4>4. Certified(files, files["identity"].v) /\ Leads(files, files["identity"].v, todo)
        BY <2>4, <4>2, <4>3 DEF Preserved
      <4> QED
        BY <1>3, <2>2, <4>2, <4>4
    <3> QED
      BY <3>1, <3>2
  <2> QED
    BY <2>3, <2>4 DEF Preserved
<1> QED
  BY <1>7, <1>8

LEMMA PreservedKill ==
    ASSUME FilesShape, Preserved, KillCommand
    PROVE  Preserved'
<1>1. PICK o : o = Head(todo)
  OBVIOUS
<1>2. todo # <<>> /\ todo' = <<>>
  BY DEF KillCommand
<1>3. todo \in Seq(Operations) /\ files \in [Names -> FileType] /\ o \in Operations
  BY <1>1, <1>2, Rest DEF FilesShape
<1>4. o.f \in Names
  BY <1>3 DEF Operations
<1>5. \/ UNCHANGED <<files, unended, wiped>>
      \/ /\ files' = [files EXCEPT ![o.f] = Torn]
         /\ unended' = (unended \/ o.f \in {"asc", "age", "identity"}) /\ wiped' = wiped
      \/ wiped' = TRUE
  BY <1>1 DEF KillCommand
<1>6. ASSUME files'["identity"].st = "whole", ~unended', ~wiped'
      PROVE  Certified(files', files'["identity"].v) /\ Leads(files', files'["identity"].v, todo')
  <2>1. ~unended /\ ~wiped
    <3>1. CASE UNCHANGED <<files, unended, wiped>>
      BY <1>6, <3>1
    <3>2. CASE unended' = (unended \/ o.f \in {"asc", "age", "identity"}) /\ wiped' = wiped
      <4>1. ~wiped
        BY <1>6, <3>2
      <4>2. ~unended
        BY <1>6, <3>2, Zenon
      <4> QED
        BY <4>1, <4>2
    <3>3. CASE wiped' = TRUE
      BY <1>6, <3>3
    <3> QED
      BY <1>5, <3>1, <3>2, <3>3
  <2>2. files'["asc"] = files["asc"] /\ files'["age"] = files["age"] /\ files'["identity"] = files["identity"]
    BY <1>3, <1>4, <1>5, <1>6 DEF Names
  <2>3. Certified(files, files["identity"].v)
    BY <1>6, <2>1, <2>2 DEF Preserved
  <2>4. Certified(files', files'["identity"].v)
    BY <2>2, <2>3 DEF Certified
  <2>5. <<>> \in Seq(OtherOperations)
    BY NoPlan
  <2> QED
    BY <1>2, <2>4, <2>5 DEF Leads
<1>7. \A i \in DOMAIN todo' : FALSE
  BY <1>2, NoOperation
<1> QED
  BY <1>6, <1>7 DEF Preserved

LEMMA PreservedKept ==
    ASSUME FilesShape, Counted, Preserved, [FilesNext]_filevars
    PROVE  Preserved'
<1>1. CASE InitCommand
  <2>1. PICK n \in Nat : InitPlan(todo', n)
    BY <1>1, InitIs
  <2>2. todo' \in Seq(Initial(n)) /\ Leads(files, n, todo')
    BY <2>1, PlanIs
  <2>3. \A i \in DOMAIN todo' : todo'[i] \in Initial(n)
    BY <2>2, ElementsOf
  <2>4. \A i \in DOMAIN todo' : Writes(todo'[i], "identity") => todo'[i].c.v = n
    BY <2>3, InitialIs
  <2>5. files' = files /\ unended' = TRUE
    BY <1>1 DEF InitCommand
  <2>6. \A i \in DOMAIN todo' : Writes(todo'[i], "identity") => Leads(files', todo'[i].c.v, todo')
    BY <2>2, <2>4, <2>5
  <2> QED
    BY <2>5, <2>6 DEF Preserved
<1>2. CASE OpenCommand \/ PasswdCommand \/ UnlockCommand
  <2>1. files' = files /\ unended' = unended /\ wiped' = wiped
    BY <1>2 DEF OpenCommand, PasswdCommand, UnlockCommand
  <2>2. /\ \A i \in DOMAIN todo' : ~Writes(todo'[i], "identity")
        /\ \A n : Certified(files, n) => Leads(files, n, todo')
    <3>1. CASE OpenCommand
      <4>1. PICK n : todo' \in Seq(KeysPlanned(n))
        BY <3>1, OpenIs
      <4>2. KeysPlanned(n) \subseteq OtherOperations
        BY PlannedOperations
      <4>3. todo' \in Seq(OtherOperations)
        BY <4>1, <4>2, Wider
      <4>4. \A i \in DOMAIN todo' : todo'[i] \in KeysPlanned(n)
        BY <4>1, ElementsOf
      <4>5. \A i \in DOMAIN todo' : ~Writes(todo'[i], "identity")
        BY <4>4 DEF KeysPlanned, Writes
      <4> QED
        BY <4>3, <4>5 DEF Leads
    <3>2. CASE PasswdCommand
      <4>1. todo' \in Seq(CertOperations) /\ \A n : Certified(files, n) => Leads(files, n, todo')
        BY <3>2, PasswdIs
      <4>2. \A i \in DOMAIN todo' : todo'[i] \in CertOperations
        BY <4>1, ElementsOf
      <4> QED
        BY <4>1, <4>2 DEF CertOperations, Writes
    <3>3. CASE UnlockCommand
      <4>1. todo' = <<>> \/ \E x \in Operations : todo' = <<x>> /\ (Writes(x, "fails") \/ x.op = "wipe" \/ Removes(x, "fails"))
        BY <3>3, UnlockIs
      <4>2. CASE todo' = <<>>
        <5>1. todo' \in Seq(OtherOperations) /\ \A i \in DOMAIN todo' : FALSE
          BY <4>2, NoPlan, NoOperation
        <5> QED
          BY <5>1 DEF Leads
      <4>3. CASE \E x \in Operations : todo' = <<x>> /\ (Writes(x, "fails") \/ x.op = "wipe" \/ Removes(x, "fails"))
        <5>1. PICK x \in Operations : todo' = <<x>> /\ (Writes(x, "fails") \/ x.op = "wipe" \/ Removes(x, "fails"))
          BY <4>3
        <5>2. x \in OtherOperations /\ ~Writes(x, "identity")
          BY <5>1 DEF OtherOperations, Operations, Writes, Removes
        <5>3. todo' \in Seq(OtherOperations) /\ \A i \in DOMAIN todo' : todo'[i] = x
          BY <5>1, <5>2, SoleOperation
        <5> QED
          BY <5>2, <5>3 DEF Leads
      <4> QED
        BY <4>1, <4>2, <4>3
    <3> QED
      BY <1>2, <3>1, <3>2, <3>3
  <2>3. ASSUME files'["identity"].st = "whole", ~unended', ~wiped'
        PROVE  Certified(files', files'["identity"].v) /\ Leads(files', files'["identity"].v, todo')
    <3>1. Certified(files, files["identity"].v)
      BY <2>1, <2>3 DEF Preserved
    <3> QED
      BY <2>1, <2>2, <3>1
  <2> QED
    BY <2>2, <2>3 DEF Preserved
<1>3. CASE Step
  BY <1>3, PreservedStep
<1>4. CASE KillCommand
  BY <1>4, PreservedKill
<1>5. CASE UNCHANGED filevars
  BY <1>5 DEF filevars, Preserved
<1> QED
  BY <1>1, <1>2, <1>3, <1>4, <1>5 DEF FilesNext

LEMMA FilesInitInv == FilesInit => FilesInv
<1> SUFFICES ASSUME FilesInit
             PROVE  FilesInv
  OBVIOUS
<1>1. \A f \in Names : files[f] = None
  BY DEF FilesInit
<1>2. todo = <<>> /\ made = 0 /\ unended = FALSE /\ wiped = FALSE /\ tries = 0
  BY DEF FilesInit
<1>3. todo \in Seq(Operations) /\ todo \in Seq(KeyOperations(0)) /\ \A i \in DOMAIN todo : FALSE
  BY <1>2, NoPlan, NoOperation
<1>4. files \in [Names -> FileType]
  BY NoneIs DEF FilesInit
<1>5. FilesShape
  BY <1>2, <1>3, <1>4 DEF FilesShape
<1>6. /\ files["db"].st = "none" /\ files["kyber"].st = "none" /\ files["identity"].st = "none"
      /\ files["fails"].v = 0
  BY <1>1, NoneIs DEF Names
<1>7. StoreKey(0)
  BY <1>3, <1>6 DEF StoreKey, DbFirst
<1>8. OneStoreKey
  BY <1>7 DEF OneStoreKey
<1>9. Counted
  BY <1>2, <1>3, <1>6, Attempts DEF Counted
<1>10. Preserved
  BY <1>3, <1>6 DEF Preserved
<1> QED
  BY <1>5, <1>8, <1>9, <1>10 DEF FilesInv

LEMMA FilesStepInv == FilesInv /\ [FilesNext]_filevars => FilesInv'
BY ShapeKept, StoreKeyKept, CountKept, PreservedKept DEF FilesInv

LEMMA FilesAlways == FilesSpec => []FilesInv
BY FilesInitInv, FilesStepInv, PTL DEF FilesSpec

\* The KEM key pair opens with the key of the message store whatever command
\* was cut off (load_or_generate_kyber is reached only after the key of the
\* store has been read or written), unless a self-destruct was.
THEOREM KemKeyOpens == FilesSpec => []KemOpens
<1>1. FilesInv => KemOpens
  <2> SUFFICES ASSUME FilesInv
               PROVE  KemOpens
    OBVIOUS
  <2>1. PICK K \in Nat : StoreKey(K)
    BY DEF FilesInv, OneStoreKey
  <2> QED
    BY <2>1 DEF StoreKey, KemOpens
<1> QED
  BY <1>1, FilesAlways, PTL

\* A key of the message store that can be read is never replaced by another.
THEOREM DbKeyStays == FilesSpec => DbKeyKept
<1>1. ASSUME FilesInv, [FilesNext]_filevars
      PROVE  [files["db"].st = "whole" /\ files'["db"].st = "whole"
                => files'["db"].v = files["db"].v]_filevars
  <2>1. files' = files \/ \E K \in Nat : StoreKey(K) /\ StoreKey(K)'
    BY <1>1, StoreKeyKept DEF FilesInv
  <2>2. CASE files' = files
    BY <2>2
  <2>3. CASE \E K \in Nat : StoreKey(K) /\ StoreKey(K)'
    <3>1. PICK K \in Nat : StoreKey(K) /\ StoreKey(K)'
      BY <2>3
    <3>2. files["db"].st = "whole" => files["db"].v = K
      BY <3>1 DEF StoreKey
    <3>3. files'["db"].st = "whole" => files'["db"].v = K
      BY <3>1 DEF StoreKey
    <3> QED
      BY <3>2, <3>3
  <2> QED
    BY <2>1, <2>2, <2>3
<1> QED
  BY <1>1, FilesAlways, PTL DEF FilesSpec, DbKeyKept

\* self_destruct is decided on only after max_wrong_attempts failed unlocks.
THEOREM DestroyedAfterFailures == FilesSpec => []DestroyedOnlyAfter
<1>1. FilesInv => DestroyedOnlyAfter
  <2> SUFFICES ASSUME FilesInv, todo # <<>>, Head(todo).op = "wipe"
               PROVE  tries >= max_wrong_attempts
    BY DEF DestroyedOnlyAfter
  <2>1. todo \in Seq(Operations)
    BY DEF FilesInv, FilesShape
  <2>2. 1 \in DOMAIN todo /\ todo[1] = Head(todo)
    BY <2>1, Rest
  <2> QED
    BY <2>2 DEF FilesInv, Counted
<1> QED
  BY <1>1, FilesAlways, PTL

\* No change of the passphrase, cut off between its steps or not, loses the
\* certificate of the identity, and load_cert finds the one file there is.
THEOREM CertSurvives == FilesSpec => []CertKept
<1>1. FilesInv => CertKept
  <2> SUFFICES ASSUME FilesInv, files["identity"].st = "whole", ~unended, ~wiped,
                      NEW own, own = files["identity"].v
               PROVE  /\ \E f \in {"asc", "age"} : files[f].st = "whole" /\ files[f].v = own
                      /\ Exists("asc") # Exists("age")
                           => \E env \in Passes \cup {NoPass} : load_cert(env) = own
    BY DEF CertKept
  <2>1. Certified(files, own)
    BY DEF FilesInv, Preserved
  <2>2. CASE files["asc"].st # "none"
    <3>1. files["asc"].st = "whole" /\ files["asc"].v = own
      BY <2>1, <2>2 DEF Certified, IsCert
    <3>2. ~Exists("age") => load_cert(NoPass) = own
      BY <3>1 DEF load_cert
    <3> QED
      BY <2>2, <3>1, <3>2 DEF Exists
  <2>3. CASE files["asc"].st = "none"
    <3>1. files["age"].st = "whole" /\ files["age"].v = own /\ files["age"].lock \in Passes
      BY <2>1, <2>3 DEF Certified, IsCert
    <3>2. PICK env : env = files["age"].lock
      OBVIOUS
    <3>3. env \in Passes /\ env # NoPass
      BY <3>1, <3>2, FilesAssumption
    <3>4. load_cert(env) = own
      BY <3>1, <3>2, <3>3 DEF load_cert, Exists, Opens
    <3> QED
      BY <3>1, <3>3, <3>4
  <2> QED
    BY <2>2, <2>3
<1> QED
  BY <1>1, FilesAlways, PTL

-----------------------------------------------------------------------------
(* The post-quantum ratchet between two parties of which one only          *)
(* receives.  Both keep the last keys of a chain, and the chains hold what *)
(* the sender mixed in.                                                    *)

\* The keys kept along a chain on which q sends: the last MAX_SKIPPED_KEYS.
Kept(n) == {i \in Nat : i < n /\ n <= i + MAX_SKIPPED_KEYS}
KeyAt(q, c, i) == [seq |-> i, key |-> <<q, SubSeq(c, 1, i + 1)>>]
KeysOf(q, c) == {KeyAt(q, c, i) : i \in Kept(Len(c))}

\* A chain on which ss was mixed in up to length n.
Mixed(c, ss, n) == [i \in 1..n |-> IF i <= Len(c) THEN c[i] ELSE ss]

Mixins == Secrets \cup {Epoch}

OneWay(p) == send_seq[p] = 0 /\ Epoch \notin ToSet(snd[Peer(p)])

ChainsAgree(p, q) ==
    /\ Len(snd[q]) = send_seq[q]
    /\ rcv[p] \in Seq(Mixins) /\ Len(rcv[p]) = recv_seq[p] /\ recv_seq[p] <= send_seq[q]
    /\ skipped_keys[q] = KeysOf(q, snd[q])
    /\ skipped_keys[p] = KeysOf(q, rcv[p])
    /\ \A i \in 1..recv_seq[p] : \E j \in 1..send_seq[q] : rcv[p][i] = snd[q][j]
    /\ inorder[p] => \A i \in 1..recv_seq[p] : rcv[p][i] = snd[q][i]
    /\ \A m \in sent : m.from = q =>
          m.ss = snd[q][m.seq + 1] /\ m.key = <<q, SubSeq(snd[q], 1, m.seq + 1)>>

PqTypeOK ==
    /\ snd \in [Parties -> Seq(Mixins)]
    /\ rcv = [p \in Parties |-> rcv[p]]
    /\ send_seq \in [Parties -> Nat] /\ recv_seq \in [Parties -> Nat]
    /\ skipped_keys = [p \in Parties |-> skipped_keys[p]]
    /\ inorder \in [Parties -> BOOLEAN]
    /\ \A m \in sent : m.from \in Parties /\ m.seq \in Nat /\ m.seq < send_seq[m.from]

PqInv == PqTypeOK /\ \A p \in Parties : OneWay(p) => ChainsAgree(p, Peer(p))

\* Storing the next key of a chain keeps the last MAX_SKIPPED_KEYS keys of it.
LEMMA StoreAlong ==
    ASSUME NEW q, NEW V, NEW c \in Seq(V), NEW ss \in V
    PROVE  store_skipped_key(KeysOf(q, c), Len(c), derive_message_key(q, c, ss))
           = KeysOf(q, Append(c, ss))
<1>. DEFINE n  == Len(c)
            d  == Append(c, ss)
            K  == Kept(n) \cup {n}
            T  == KeysOf(q, c) \cup {[seq |-> n, key |-> derive_message_key(q, c, ss)]}
            lo == IF n <= MAX_SKIPPED_KEYS THEN 0 ELSE n - MAX_SKIPPED_KEYS
<1>1. n \in Nat /\ d \in Seq(V) /\ Len(d) = n + 1 /\ MAX_SKIPPED_KEYS \in Nat \ {0}
  BY AppendProperties, LenProperties, PqAssumption
<1>2. \A i \in Kept(n) : KeyAt(q, c, i) = KeyAt(q, d, i)
  <2>. SUFFICES ASSUME NEW i \in Kept(n) PROVE KeyAt(q, c, i) = KeyAt(q, d, i)
    OBVIOUS
  <2>1. i + 1 \in Nat /\ i + 1 <= Len(c)
    BY <1>1 DEF Kept
  <2>2. SubSeq(d, 1, i + 1) = SubSeq(c, 1, i + 1)
    BY <2>1, PrefixOfAppend
  <2>. QED BY <2>2 DEF KeyAt
<1>3. KeyAt(q, d, n) = [seq |-> n, key |-> derive_message_key(q, c, ss)]
  <2>1. SubSeq(d, 1, n + 1) = d
    BY <1>1, WholePrefix
  <2>. QED BY <2>1 DEF KeyAt, derive_message_key
<1>4. T = {KeyAt(q, d, i) : i \in K}
  BY <1>2, <1>3 DEF KeysOf
<1>5. ~HasKey(KeysOf(q, c), n)
  BY <1>1 DEF HasKey, KeysOf, KeyAt, Kept
<1>6. K = lo..n /\ lo \in Nat /\ lo <= n
  BY <1>1 DEF Kept
<1>7. IsFiniteSet(K) /\ Cardinality(K) = n - lo + 1
  <2>. HIDE DEF K, lo, n
  <2>1. lo \in Int /\ n \in Int /\ ~(lo > n)
    BY <1>1, <1>6
  <2>2. IsFiniteSet(lo..n) /\ Cardinality(lo..n) = n - lo + 1
    BY <2>1, FS_Interval
  <2>. QED BY <2>2, <1>6
<1>8. Cardinality(T) = n - lo + 1
  <2>. DEFINE f == [i \in K |-> KeyAt(q, d, i)]
  <2>1. f \in Bijection(K, T)
    <3>1. f \in [K -> T]
      BY <1>4
    <3>2. \A i, j \in K : f[i] = f[j] => i = j
      BY DEF KeyAt
    <3>3. \A t \in T : \E i \in K : f[i] = t
      BY <1>4
    <3>. HIDE DEF f, K, T
    <3>. QED BY <3>1, <3>2, <3>3, Fun_IsBij
  <2>2. ExistsBijection(K, T)
    BY <2>1 DEF ExistsBijection
  <2>. HIDE DEF K, T
  <2>. QED BY <2>2, <1>7, FS_Bijection
<1>9. KeysOf(q, d) = {KeyAt(q, d, i) : i \in Kept(n + 1)}
  BY <1>1 DEF KeysOf
<1>10. CASE n < MAX_SKIPPED_KEYS
  <2>1. Cardinality(T) <= MAX_SKIPPED_KEYS
    BY <1>1, <1>8, <1>10
  <2>2. K = Kept(n + 1)
    BY <1>1, <1>6, <1>10 DEF Kept
  <2>3. store_skipped_key(KeysOf(q, c), n, derive_message_key(q, c, ss)) = T
    <3>. HIDE DEF n
    <3>. QED BY <1>5, <2>1 DEF store_skipped_key
  <2>. QED BY <2>2, <2>3, <1>4, <1>9
<1>11. CASE n >= MAX_SKIPPED_KEYS
  <2>1. ~(Cardinality(T) <= MAX_SKIPPED_KEYS) /\ lo = n - MAX_SKIPPED_KEYS
    BY <1>1, <1>8, <1>11
  <2>2. Kept(n + 1) = {i \in K : lo < i}
    BY <1>1, <1>6, <2>1, <1>11 DEF Kept
  <2>3. store_skipped_key(KeysOf(q, c), n, derive_message_key(q, c, ss))
        = {x \in T : \E y \in T : y.seq < x.seq}
    <3>. HIDE DEF n
    <3>. QED BY <1>5, <2>1 DEF store_skipped_key
  <2>4. {x \in T : \E y \in T : y.seq < x.seq} = {KeyAt(q, d, i) : i \in {j \in K : lo < j}}
    <3>1. \A i : KeyAt(q, d, i).seq = i
      BY DEF KeyAt
    <3>2. lo \in K /\ \A j \in K : j \in Nat /\ lo <= j
      BY <1>1, <1>6
    <3>. HIDE DEF K, T, lo, n, d
    <3>3. \A i \in K : (\E y \in T : y.seq < KeyAt(q, d, i).seq) <=> lo < i
      <4>. SUFFICES ASSUME NEW i \in K
                    PROVE (\E y \in T : y.seq < KeyAt(q, d, i).seq) <=> lo < i
        OBVIOUS
      <4>1. KeyAt(q, d, lo) \in T
        BY <1>4, <3>2
      <4>2. ASSUME NEW y \in T, y.seq < KeyAt(q, d, i).seq PROVE lo < i
        <5>1. PICK j \in K : y = KeyAt(q, d, j)
          BY <1>4
        <5>. QED BY <4>2, <5>1, <3>1, <3>2, <1>1, <1>6
      <4>. QED BY <4>1, <4>2, <3>1
    <3>. QED BY <1>4, <3>3
  <2>. QED BY <2>2, <2>3, <2>4, <1>9
<1>. QED BY <1>1, <1>10, <1>11

\* A chain mixed further by one.
LEMMA MixedNext ==
    ASSUME NEW V, NEW c \in Seq(V), NEW ss \in V, NEW n \in Nat, Len(c) <= n
    PROVE  /\ Mixed(c, ss, n) \in Seq(V) /\ Len(Mixed(c, ss, n)) = n
           /\ Append(Mixed(c, ss, n), ss) = Mixed(c, ss, n + 1)
           /\ Mixed(c, ss, Len(c)) = c
<1>1. Len(c) \in Nat /\ c = [i \in 1..Len(c) |-> c[i]] /\ \A i \in 1..Len(c) : c[i] \in V
  BY LenProperties, ElementOfSeq
<1>2. \A k \in Nat : Mixed(c, ss, k) \in Seq(V) /\ Len(Mixed(c, ss, k)) = k
  <2>. SUFFICES ASSUME NEW k \in Nat
                PROVE  Mixed(c, ss, k) \in Seq(V) /\ Len(Mixed(c, ss, k)) = k
    OBVIOUS
  <2>1. Mixed(c, ss, k) \in [1..k -> V]
    BY <1>1 DEF Mixed
  <2>. QED BY <2>1, SeqDef
<1>3. Mixed(c, ss, Len(c)) = c
  BY <1>1 DEF Mixed
<1>4. Append(Mixed(c, ss, n), ss) = Mixed(c, ss, n + 1)
  <2>. DEFINE a == Append(Mixed(c, ss, n), ss)
              b == Mixed(c, ss, n + 1)
  <2>1. a \in Seq(V) /\ Len(a) = n + 1 /\ b \in Seq(V) /\ Len(b) = n + 1
    BY <1>2, AppendProperties
  <2>2. \A i \in 1..(n + 1) : a[i] = IF i = n + 1 THEN ss ELSE Mixed(c, ss, n)[i]
    BY <1>2, AppendProperties
  <2>3. \A i \in 1..(n + 1) : b[i] = IF i <= Len(c) THEN c[i] ELSE ss
    BY DEF Mixed
  <2>4. \A i \in 1..n : Mixed(c, ss, n)[i] = IF i <= Len(c) THEN c[i] ELSE ss
    BY DEF Mixed
  <2>. HIDE DEF a, b
  <2>5. \A i \in 1..(n + 1) : a[i] = b[i]
    <3>. SUFFICES ASSUME NEW i \in 1..(n + 1) PROVE a[i] = b[i]
      OBVIOUS
    <3>1. CASE i = n + 1
      BY <3>1, <2>2, <2>3, <1>1
    <3>2. CASE i # n + 1
      <4>1. i \in 1..n
        BY <3>2
      <4>. QED BY <3>2, <4>1, <2>2, <2>3, <2>4
    <3>. QED BY <3>1, <3>2
  <2>. QED
    <3>1. a = b
      BY <2>1, <2>5, SeqEqual
    <3>. QED BY <3>1 DEF a, b
<1>. QED BY <1>2, <1>3, <1>4

\* What advance_recv_chain leaves when it mixes the secret of m in up to m.seq,
\* given a chain with its last keys.
LEMMA AdvancedIs ==
    ASSUME NEW p, NEW m, NEW V, NEW c \in Seq(V), c = rcv[p],
           recv_seq[p] = Len(c), skipped_keys[p] = KeysOf(m.from, c),
           m.ss \in V, m.seq \in Nat, Len(c) <= m.seq
    PROVE  Advanced(p, m) = [chain |-> Mixed(c, m.ss, m.seq + 1),
                             keys  |-> KeysOf(m.from, Mixed(c, m.ss, m.seq + 1))]
<1>. DEFINE D == recv_seq[p]..(m.seq + 1)
            Next1(a, i) == [chain |-> Append(a.chain, m.ss),
                            keys |-> store_skipped_key(a.keys, i - 1,
                                        derive_message_key(m.from, a.chain, m.ss))]
            Rec(f) == [i \in D |-> IF i = recv_seq[p]
                                   THEN [chain |-> rcv[p], keys |-> skipped_keys[p]]
                                   ELSE Next1(f[i - 1], i)]
            G(i) == [chain |-> Mixed(c, m.ss, i), keys |-> KeysOf(m.from, Mixed(c, m.ss, i))]
            g == [i \in D |-> G(i)]
            F == CHOOSE f : f = Rec(f)
<1>1. Len(c) \in Nat /\ \A i \in D : i \in Nat /\ Len(c) <= i
  BY LenProperties
<1>2. G(Len(c)) = [chain |-> rcv[p], keys |-> skipped_keys[p]]
  BY <1>1, MixedNext
<1>3. \A i \in D : i # recv_seq[p] => Next1(G(i - 1), i) = G(i)
  <2>. SUFFICES ASSUME NEW i \in D, i # recv_seq[p] PROVE Next1(G(i - 1), i) = G(i)
    OBVIOUS
  <2>1. PICK k \in Nat : k = i - 1 /\ Len(c) <= k /\ i = k + 1
    BY <1>1
  <2>2. PICK x : x = Mixed(c, m.ss, k)
    OBVIOUS
  <2>3. x \in Seq(V) /\ Len(x) = k /\ Append(x, m.ss) = Mixed(c, m.ss, i)
    <3>1. \A ss \in V : /\ Mixed(c, ss, k) \in Seq(V) /\ Len(Mixed(c, ss, k)) = k
                        /\ Append(Mixed(c, ss, k), ss) = Mixed(c, ss, k + 1)
      <4>. SUFFICES ASSUME NEW ss \in V
                    PROVE  /\ Mixed(c, ss, k) \in Seq(V) /\ Len(Mixed(c, ss, k)) = k
                           /\ Append(Mixed(c, ss, k), ss) = Mixed(c, ss, k + 1)
        OBVIOUS
      <4>. HIDE DEF D, G, Next1
      <4>1. Len(c) <= k
        BY <2>1
      <4>. QED BY ONLY <4>1, c \in Seq(V), ss \in V, k \in Nat, MixedNext
    <3>. QED BY <2>1, <2>2, <3>1
  <2>4. store_skipped_key(KeysOf(m.from, x), k, derive_message_key(m.from, x, m.ss))
        = KeysOf(m.from, Append(x, m.ss))
    BY <2>3, StoreAlong
  <2>. QED BY <2>1, <2>2, <2>3, <2>4
<1>4. g = Rec(g)
  <2>1. \A i \in D : g[i] = IF i = recv_seq[p]
                            THEN [chain |-> rcv[p], keys |-> skipped_keys[p]]
                            ELSE Next1(g[i - 1], i)
    <3>. SUFFICES ASSUME NEW i \in D
                  PROVE  g[i] = IF i = recv_seq[p]
                                THEN [chain |-> rcv[p], keys |-> skipped_keys[p]]
                                ELSE Next1(g[i - 1], i)
      OBVIOUS
    <3>1. CASE i = recv_seq[p]
      <4>. HIDE DEF G
      <4>. QED BY <3>1, <1>2
    <3>2. CASE i # recv_seq[p]
      <4>1. i - 1 \in D
        BY <3>2, <1>1
      <4>. HIDE DEF G, Next1
      <4>2. g[i - 1] = G(i - 1) /\ g[i] = G(i)
        BY <4>1
      <4>. QED BY <3>2, <4>2, <1>3
    <3>. QED BY <3>1, <3>2
  <2>. HIDE DEF G, Next1, D
  <2>. QED BY <2>1
<1>5. F = Rec(F)
  <2>. HIDE DEF Rec
  <2>. QED BY <1>4
<1>6. \A i \in D : F[i] = IF i = recv_seq[p]
                          THEN [chain |-> rcv[p], keys |-> skipped_keys[p]]
                          ELSE Next1(F[i - 1], i)
  <2>. HIDE DEF F, Next1, D
  <2>. QED BY ONLY <1>5 DEF Rec
<1>. HIDE DEF F
<1>7. \A i \in D : F[i] = g[i]
  <2>1. F[recv_seq[p]] = g[recv_seq[p]]
    <3>1. recv_seq[p] \in D
      BY <1>1
    <3>. HIDE DEF G, Next1, D
    <3>. QED BY <3>1, <1>2, <1>6
  <2>2. ASSUME NEW i \in D, i # recv_seq[p], F[i - 1] = g[i - 1]
        PROVE  F[i] = g[i]
    <3>1. i - 1 \in D
      BY <2>2, <1>1
    <3>. HIDE DEF G, Next1, D
    <3>2. g[i - 1] = G(i - 1) /\ g[i] = G(i)
      BY <3>1
    <3>. QED BY <2>2, <3>2, <1>3, <1>6
  <2>3. recv_seq[p] \in Nat /\ m.seq + 1 \in Nat
    BY <1>1
  <2>4. PICK S : S = {i \in D : F[i] = g[i]}
    OBVIOUS
  <2>5. recv_seq[p] \in S /\ \A i \in D : i # recv_seq[p] /\ i - 1 \in S => i \in S
    <3>1. recv_seq[p] \in D
      BY <1>1
    <3>. HIDE DEF g, D
    <3>. QED BY <3>1, <2>1, <2>2, <2>4
  <2>6. PICK a, b : a = recv_seq[p] /\ b = m.seq + 1
    OBVIOUS
  <2>7. /\ a \in Nat /\ b \in Nat /\ a \in S
        /\ \A i \in a..b : i # a /\ i - 1 \in S => i \in S
    BY ONLY <2>3, <2>5, <2>6
  <2>8. a..b \subseteq S
    BY ONLY <2>7, IntervalInSet
  <2>9. D = a..b
    BY ONLY <2>6
  <2>. HIDE DEF g, D
  <2>. QED BY <2>4, <2>8, <2>9
<1>8. F[m.seq + 1] = G(m.seq + 1)
  <2>1. m.seq + 1 \in D
    BY <1>1
  <2>. HIDE DEF G, D
  <2>. QED BY <2>1, <1>7
<1>9. Advanced(p, m) = F[m.seq + 1]
  <2>1. ~(m.seq < recv_seq[p])
    BY <1>1
  <2>. QED BY <2>1 DEF Advanced, F
<1>. QED BY <1>8, <1>9

LEMMA PeerFacts ==
    ASSUME NEW p \in Parties
    PROVE  /\ Peer(p) \in Parties /\ Peer(p) # p /\ Peer(Peer(p)) = p
           /\ \A r \in Parties : r = p \/ r = Peer(p)
<1>1. PICK a, b \in Parties : a # b /\ Parties = {a, b}
  BY PqAssumption
<1>2. \A r \in Parties : Peer(r) \in Parties /\ Peer(r) # r
  <2>. SUFFICES ASSUME NEW r \in Parties PROVE Peer(r) \in Parties /\ Peer(r) # r
    OBVIOUS
  <2>1. \E q \in Parties : q # r
    BY <1>1
  <2>. QED BY <2>1 DEF Peer
<1>. QED BY <1>1, <1>2

\* The key a list of a chain holds for a number.
LEMMA KeyFound ==
    ASSUME NEW q, NEW c, NEW i \in Kept(Len(c))
    PROVE  /\ HasKey(KeysOf(q, c), i)
           /\ get_message_key(KeysOf(q, c), i) = <<q, SubSeq(c, 1, i + 1)>>
<1>. DEFINE S == KeysOf(q, c)
<1>1. KeyAt(q, c, i) \in S /\ KeyAt(q, c, i).seq = i
  BY DEF KeysOf, KeyAt
<1>2. \A x \in S : x.seq = i => x = KeyAt(q, c, i)
  BY DEF KeysOf, KeyAt
<1>. HIDE DEF S
<1>3. HasKey(S, i)
  BY <1>1 DEF HasKey
<1>4. (CHOOSE x \in S : x.seq = i) = KeyAt(q, c, i)
  BY <1>1, <1>2
<1>5. get_message_key(S, i) = KeyAt(q, c, i).key
  BY <1>4 DEF get_message_key
<1>6. KeyAt(q, c, i).key = <<q, SubSeq(c, 1, i + 1)>>
  BY DEF KeyAt
<1>. QED BY <1>3, <1>5, <1>6 DEF S

LEMMA PqStart == PqInit => PqInv
<1>. SUFFICES ASSUME PqInit PROVE PqInv
  OBVIOUS
<1>1. <<>> \in Seq(Mixins) /\ Len(<<>>) = 0
  BY EmptySeq
<1>2. PqTypeOK
  BY <1>1 DEF PqInit, PqTypeOK
<1>3. ASSUME NEW p \in Parties, NEW q \in Parties PROVE ChainsAgree(p, q)
  <2>1. KeysOf(q, <<>>) = {}
    BY <1>1 DEF KeysOf, Kept
  <2>2. snd[q] = <<>> /\ rcv[p] = <<>> /\ send_seq[q] = 0 /\ recv_seq[p] = 0
        /\ skipped_keys[p] = {} /\ skipped_keys[q] = {} /\ sent = {}
    BY DEF PqInit
  <2>. QED BY <1>1, <2>1, <2>2 DEF ChainsAgree
<1>. QED BY <1>2, <1>3, PeerFacts DEF PqInv

\* The peer of a party has started a new epoch: nothing is said of it any more;
\* of the party's own chain nothing is said as a receiver.
LEMMA EpochKeeps ==
    ASSUME PqInv, NEW x \in Parties, ratchet_epoch(x)
    PROVE  PqInv'
<1>1. /\ snd' = [snd EXCEPT ![x] = Append(@, Epoch)]
      /\ UNCHANGED <<rcv, send_seq, recv_seq, skipped_keys, sent, inorder>>
  BY DEF ratchet_epoch
<1>2. snd \in [Parties -> Seq(Mixins)] /\ Epoch \in Mixins
  BY DEF PqInv, PqTypeOK, Mixins
<1>3. Append(snd[x], Epoch) \in Seq(Mixins) /\ Epoch \in ToSet(Append(snd[x], Epoch))
  <2>1. snd[x] \in Seq(Mixins)
    BY <1>2
  <2>2. /\ Append(snd[x], Epoch) \in Seq(Mixins)
        /\ Len(Append(snd[x], Epoch)) = Len(snd[x]) + 1
        /\ Append(snd[x], Epoch)[Len(snd[x]) + 1] = Epoch /\ Len(snd[x]) \in Nat
    BY <1>2, <2>1, AppendProperties, LenProperties
  <2>3. Len(snd[x]) + 1 \in DOMAIN Append(snd[x], Epoch)
    BY <2>2, LenProperties
  <2>. QED BY <2>2, <2>3 DEF ToSet
<1>4. /\ snd' \in [Parties -> Seq(Mixins)] /\ snd'[x] = Append(snd[x], Epoch)
      /\ \A r \in Parties : r # x => snd'[r] = snd[r]
  BY <1>1, <1>2, <1>3
<1>5. PqTypeOK'
  BY <1>1, <1>4 DEF PqInv, PqTypeOK
<1>6. ASSUME NEW p \in Parties, OneWay(p)' PROVE ChainsAgree(p, Peer(p))'
  <2>1. Peer(p) \in Parties /\ Peer(p) # x
    BY <1>3, <1>4, <1>6, PeerFacts DEF OneWay
  <2>2. OneWay(p)
    BY <1>1, <1>4, <1>6, <2>1 DEF OneWay
  <2>3. ChainsAgree(p, Peer(p))
    BY <2>2 DEF PqInv
  <2>. QED BY <1>1, <1>4, <2>1, <2>3 DEF ChainsAgree
<1>. QED BY <1>5, <1>6 DEF PqInv

\* A message is sent: the chain of its sender, its keys and the messages on
\* their way stay in step.
LEMMA EncryptKeeps ==
    ASSUME PqInv, NEW x \in Parties, NEW ss \in Secrets, encrypt_message(x, ss)
    PROVE  PqInv'
<1>. DEFINE n == send_seq[x]
            S == store_skipped_key(skipped_keys[x], n, derive_message_key(x, snd[x], ss))
            msg == [from |-> x, seq |-> n, ss |-> ss, key |-> get_message_key(S, n)]
<1>1. /\ skipped_keys' = [skipped_keys EXCEPT ![x] = S]
      /\ sent' = IF HasKey(S, n) THEN sent \cup {msg} ELSE sent
      /\ snd' = [snd EXCEPT ![x] = Append(@, ss)]
      /\ send_seq' = [send_seq EXCEPT ![x] = @ + 1]
      /\ UNCHANGED <<rcv, recv_seq, inorder>>
  BY DEF encrypt_message
<1>. HIDE DEF S
<1>2. /\ snd \in [Parties -> Seq(Mixins)] /\ ss \in Mixins
      /\ send_seq \in [Parties -> Nat] /\ recv_seq \in [Parties -> Nat]
      /\ skipped_keys = [p \in Parties |-> skipped_keys[p]]
      /\ \A m \in sent : m.from \in Parties /\ m.seq \in Nat /\ m.seq < send_seq[m.from]
  BY DEF PqInv, PqTypeOK, Mixins
<1>3. PICK d : d = Append(snd[x], ss)
  OBVIOUS
<1>4. /\ d \in Seq(Mixins) /\ Len(d) = Len(snd[x]) + 1 /\ snd[x] \in Seq(Mixins)
      /\ d[Len(snd[x]) + 1] = ss /\ Len(snd[x]) \in Nat
      /\ \A i \in 1..Len(snd[x]) : d[i] = snd[x][i]
  <2>1. snd[x] \in Seq(Mixins)
    BY <1>2
  <2>. QED BY <1>2, <1>3, <2>1, AppendProperties, LenProperties
<1>5. /\ snd' \in [Parties -> Seq(Mixins)] /\ snd'[x] = d
      /\ \A r \in Parties : r # x => snd'[r] = snd[r]
  BY <1>1, <1>2, <1>3, <1>4
<1>6. /\ send_seq' \in [Parties -> Nat] /\ send_seq'[x] = n + 1 /\ n \in Nat
      /\ \A r \in Parties : r # x => send_seq'[r] = send_seq[r]
  BY <1>1, <1>2
<1>7. /\ skipped_keys' = [p \in Parties |-> skipped_keys'[p]] /\ skipped_keys'[x] = S
      /\ \A r \in Parties : r # x => skipped_keys'[r] = skipped_keys[r]
  BY <1>1, <1>2
<1>8. \A m \in sent' : m \in sent \/ m = msg
  BY <1>1
<1>9. msg.from = x /\ msg.seq = n /\ msg.ss = ss /\ msg.key = get_message_key(S, n)
  OBVIOUS
<1>. HIDE DEF msg, n
<1>10. \A m \in sent' : m.from \in Parties /\ m.seq \in Nat /\ m.seq < send_seq'[m.from]
  <2>. SUFFICES ASSUME NEW m \in sent'
                PROVE  m.from \in Parties /\ m.seq \in Nat /\ m.seq < send_seq'[m.from]
    OBVIOUS
  <2>1. CASE m = msg
    BY <2>1, <1>6, <1>9
  <2>2. CASE m \in sent
    <3>1. m.from \in Parties /\ m.seq \in Nat /\ m.seq < send_seq[m.from]
      BY <2>2, <1>2
    <3>2. send_seq'[m.from] = send_seq[m.from] \/ send_seq'[m.from] = send_seq[m.from] + 1
      BY <3>1, <1>6 DEF n
    <3>. QED BY <3>1, <3>2, <1>2
  <2>. QED BY <2>1, <2>2, <1>8
<1>11. PqTypeOK'
  BY <1>1, <1>5, <1>6, <1>7, <1>10 DEF PqInv, PqTypeOK
<1>12. ASSUME NEW p \in Parties, OneWay(p)' PROVE ChainsAgree(p, Peer(p))'
  <2>1. p # x
    BY <1>6, <1>12 DEF OneWay
  <2>2. x = Peer(p)
    BY <2>1, PeerFacts
  <2>3. OneWay(p)
    <3>1. send_seq[p] = 0
      BY <1>6, <1>12, <2>1 DEF OneWay
    <3>2. \A i \in DOMAIN d : d[i] # Epoch
      BY <1>5, <1>12, <2>2 DEF OneWay, ToSet
    <3>3. DOMAIN snd[x] = 1..Len(snd[x]) /\ DOMAIN d = 1..(Len(snd[x]) + 1)
      BY <1>4, LenProperties
    <3>4. \A i \in DOMAIN snd[x] : i \in DOMAIN d /\ d[i] = snd[x][i]
      BY <3>3, <1>4
    <3>5. Epoch \notin ToSet(snd[x])
      BY <3>2, <3>4 DEF ToSet
    <3>. QED BY <3>1, <3>5, <2>2 DEF OneWay
  <2>4. ChainsAgree(p, x)
    BY <2>2, <2>3 DEF PqInv
  <2>5. Len(snd[x]) = n /\ recv_seq[p] <= n /\ recv_seq[p] \in Nat
        /\ Len(rcv[p]) = recv_seq[p]
    BY <2>4, <1>2 DEF ChainsAgree, n
  <2>6. S = KeysOf(x, d)
    <3>1. S = store_skipped_key(KeysOf(x, snd[x]), Len(snd[x]),
                                derive_message_key(x, snd[x], ss))
      BY <2>4, <2>5 DEF ChainsAgree, S
    <3>2. \A c \in Seq(Mixins) :
             store_skipped_key(KeysOf(x, c), Len(c), derive_message_key(x, c, ss))
             = KeysOf(x, Append(c, ss))
      BY <1>2, StoreAlong
    <3>. QED BY <3>1, <3>2, <1>3, <1>4
  <2>7. \A i \in 1..recv_seq[p] : \E j \in 1..(n + 1) : rcv[p][i] = d[j]
    <3>. SUFFICES ASSUME NEW i \in 1..recv_seq[p]
                  PROVE  \E j \in 1..(n + 1) : rcv[p][i] = d[j]
      OBVIOUS
    <3>1. PICK j \in 1..n : rcv[p][i] = snd[x][j]
      BY <2>4 DEF ChainsAgree, n
    <3>2. j \in 1..(n + 1) /\ d[j] = snd[x][j]
      BY <2>5, <1>4, <1>6
    <3>. QED BY <3>1, <3>2
  <2>8. inorder[p] => \A i \in 1..recv_seq[p] : rcv[p][i] = d[i]
    <3>1. \A i \in 1..recv_seq[p] : i \in 1..Len(snd[x])
      BY <2>5, <1>6
    <3>. QED BY <3>1, <2>4, <1>4 DEF ChainsAgree
  <2>9. ASSUME NEW m \in sent', m.from = x
        PROVE  m.ss = d[m.seq + 1] /\ m.key = <<x, SubSeq(d, 1, m.seq + 1)>>
    <3>1. CASE m = msg
      <4>1. n \in Kept(Len(d)) /\ n + 1 = Len(d)
        BY <2>5, <1>4, <1>6, PqAssumption DEF Kept
      <4>2. get_message_key(S, n) = <<x, SubSeq(d, 1, n + 1)>>
        BY <4>1, <2>6, KeyFound
      <4>. QED BY <3>1, <4>2, <1>4, <1>9, <2>5
    <3>2. CASE m \in sent
      <4>1. m.seq \in Nat /\ m.seq + 1 \in 1..Len(snd[x])
        BY <3>2, <2>9, <2>5, <1>2 DEF n
      <4>2. m.ss = snd[x][m.seq + 1] /\ m.key = <<x, SubSeq(snd[x], 1, m.seq + 1)>>
        BY <3>2, <2>9, <2>4 DEF ChainsAgree
      <4>3. \A k \in Nat : k <= Len(snd[x]) => SubSeq(d, 1, k) = SubSeq(snd[x], 1, k)
        BY <1>2, <1>3, <1>4, PrefixOfAppend
      <4>4. SubSeq(d, 1, m.seq + 1) = SubSeq(snd[x], 1, m.seq + 1)
        BY <4>1, <4>3
      <4>. QED BY <4>1, <4>2, <4>4, <1>4
    <3>. QED BY <3>1, <3>2, <1>8
  <2>10. /\ snd'[x] = d /\ send_seq'[x] = n + 1 /\ rcv'[p] = rcv[p]
         /\ recv_seq'[p] = recv_seq[p] /\ skipped_keys'[x] = KeysOf(x, d)
         /\ skipped_keys'[p] = skipped_keys[p] /\ inorder'[p] = inorder[p]
    BY <1>1, <1>5, <1>6, <1>7, <2>1, <2>6
  <2>11. Len(d) = n + 1 /\ recv_seq[p] <= n + 1
    BY <1>4, <1>6, <2>5
  <2>12. ChainsAgree(p, x)'
    BY <2>4, <2>7, <2>8, <2>9, <2>10, <2>11 DEF ChainsAgree
  <2>. QED BY <2>2, <2>12
<1>. QED BY <1>11, <1>12 DEF PqInv

\* The keys after a message has come, whether it advances the chain or not.
LEMMA DecryptResult ==
    ASSUME PqInv, NEW m \in sent, NEW p, p = Peer(m.from), OneWay(p)
    PROVE  \E c \in Seq(Mixins) :
             /\ Advanced(p, m) = [chain |-> c, keys |-> KeysOf(m.from, c)]
             /\ Len(c) = IF m.seq < recv_seq[p] THEN recv_seq[p] ELSE m.seq + 1
             /\ \A i \in 1..Len(c) : c[i] = IF i <= recv_seq[p] THEN rcv[p][i] ELSE m.ss
             /\ m.seq < recv_seq[p] => c = rcv[p]
<1>1. /\ m.from \in Parties /\ m.seq \in Nat /\ m.seq < send_seq[m.from]
      /\ snd \in [Parties -> Seq(Mixins)] /\ recv_seq \in [Parties -> Nat]
      /\ send_seq \in [Parties -> Nat]
  BY DEF PqInv, PqTypeOK
<1>2. p \in Parties /\ Peer(p) = m.from
  BY <1>1, PeerFacts
<1>3. ChainsAgree(p, m.from)
  BY <1>2 DEF PqInv
<1>4. /\ rcv[p] \in Seq(Mixins) /\ Len(rcv[p]) = recv_seq[p] /\ recv_seq[p] \in Nat
      /\ skipped_keys[p] = KeysOf(m.from, rcv[p])
      /\ Len(snd[m.from]) = send_seq[m.from] /\ snd[m.from] \in Seq(Mixins)
      /\ m.ss = snd[m.from][m.seq + 1]
  BY <1>1, <1>2, <1>3 DEF ChainsAgree
<1>5. m.ss \in Mixins
  <2>1. m.seq + 1 \in 1..Len(snd[m.from])
    BY <1>1, <1>4
  <2>. QED BY <1>4, <2>1, ElementOfSeq
<1>6. CASE m.seq < recv_seq[p]
  <2>1. Advanced(p, m) = [chain |-> rcv[p], keys |-> KeysOf(m.from, rcv[p])]
    BY <1>6, <1>4 DEF Advanced
  <2>2. \A i \in 1..Len(rcv[p]) : i <= recv_seq[p]
    BY <1>4
  <2>. QED BY <1>4, <1>6, <2>1, <2>2
<1>7. CASE ~(m.seq < recv_seq[p])
  <2>1. PICK r : r = rcv[p]
    OBVIOUS
  <2>2. r \in Seq(Mixins) /\ Len(r) <= m.seq /\ Len(r) = recv_seq[p]
    BY <2>1, <1>1, <1>4, <1>7
  <2>3. PICK c : c = Mixed(r, m.ss, m.seq + 1)
    OBVIOUS
  <2>4. Advanced(p, m) = [chain |-> c, keys |-> KeysOf(m.from, c)]
    BY <1>1, <1>4, <1>5, <2>1, <2>2, <2>3, AdvancedIs
  <2>5. c \in Seq(Mixins) /\ Len(c) = m.seq + 1
    <3>1. PICK k \in Nat : k = m.seq + 1
      BY <1>1
    <3>2. PICK ss \in Mixins : ss = m.ss
      BY <1>5
    <3>3. Len(r) <= k
      BY <2>2, <3>1, <1>1, <1>4
    <3>4. Mixed(r, ss, k) \in Seq(Mixins) /\ Len(Mixed(r, ss, k)) = k
      BY <2>2, <3>3, MixedNext
    <3>. QED BY <2>3, <3>1, <3>2, <3>4
  <2>6. \A i \in 1..Len(c) : c[i] = IF i <= recv_seq[p] THEN rcv[p][i] ELSE m.ss
    BY <2>1, <2>2, <2>3, <2>5 DEF Mixed
  <2>. QED BY <1>7, <2>4, <2>5, <2>6
<1>. QED BY <1>6, <1>7

\* A message comes, for the first time or again: the receiver's chain advances
\* along what its peer mixed in.
LEMMA DecryptKeeps ==
    ASSUME PqInv, NEW m \in sent, decrypt_message(m)
    PROVE  PqInv'
<1>. PICK p, q : p = Peer(m.from) /\ q = m.from
  OBVIOUS
<1>. DEFINE a == Advanced(p, m)
<1>1. /\ rcv' = [rcv EXCEPT ![p] = a.chain]
      /\ skipped_keys' = [skipped_keys EXCEPT ![p] = a.keys]
      /\ recv_seq' = [recv_seq EXCEPT ![p] = IF m.seq < @ THEN @ ELSE m.seq + 1]
      /\ inorder' = [inorder EXCEPT ![p] = @ /\ m.seq <= recv_seq[p]]
      /\ UNCHANGED <<snd, send_seq, sent>>
  BY DEF decrypt_message
<1>2. /\ q \in Parties /\ m.seq \in Nat /\ m.seq < send_seq[q]
      /\ snd \in [Parties -> Seq(Mixins)]
      /\ send_seq \in [Parties -> Nat] /\ recv_seq \in [Parties -> Nat]
      /\ rcv = [r \in Parties |-> rcv[r]]
      /\ skipped_keys = [r \in Parties |-> skipped_keys[r]]
      /\ inorder \in [Parties -> BOOLEAN]
  BY DEF PqInv, PqTypeOK
<1>3. p \in Parties /\ p # q /\ Peer(p) = q /\ \A r \in Parties : r = p \/ r = q
  BY <1>2, PeerFacts
<1>. HIDE DEF a
<1>4. /\ rcv' = [r \in Parties |-> rcv'[r]] /\ rcv'[p] = a.chain
      /\ \A r \in Parties : r # p => rcv'[r] = rcv[r]
  BY <1>1, <1>2, <1>3
<1>5. /\ skipped_keys' = [r \in Parties |-> skipped_keys'[r]] /\ skipped_keys'[p] = a.keys
      /\ \A r \in Parties : r # p => skipped_keys'[r] = skipped_keys[r]
  BY <1>1, <1>2, <1>3
<1>6. /\ recv_seq' \in [Parties -> Nat]
      /\ recv_seq'[p] = IF m.seq < recv_seq[p] THEN recv_seq[p] ELSE m.seq + 1
  BY <1>1, <1>2, <1>3
<1>7. /\ inorder' \in [Parties -> BOOLEAN]
      /\ inorder'[p] => inorder[p] /\ m.seq <= recv_seq[p]
  <2>1. PICK u \in BOOLEAN : u = (inorder[p] /\ m.seq <= recv_seq[p])
    OBVIOUS
  <2>2. inorder' = [inorder EXCEPT ![p] = u]
    BY <1>1, <2>1, Zenon
  <2>3. inorder' \in [Parties -> BOOLEAN] /\ inorder'[p] = u
    BY <1>2, <1>3, <2>2
  <2>. QED BY <2>1, <2>3, Zenon
<1>8. PqTypeOK'
  BY <1>1, <1>4, <1>5, <1>6, <1>7 DEF PqInv, PqTypeOK
<1>9. ASSUME OneWay(p)' PROVE ChainsAgree(p, q)'
  <2>1. OneWay(p)
    BY <1>1, <1>9 DEF OneWay
  <2>2. ChainsAgree(p, q)
    BY <1>3, <2>1 DEF PqInv
  <2>3. PICK c \in Seq(Mixins) :
             /\ a = [chain |-> c, keys |-> KeysOf(q, c)]
             /\ Len(c) = IF m.seq < recv_seq[p] THEN recv_seq[p] ELSE m.seq + 1
             /\ \A i \in 1..Len(c) : c[i] = IF i <= recv_seq[p] THEN rcv[p][i] ELSE m.ss
             /\ m.seq < recv_seq[p] => c = rcv[p]
    BY <2>1, DecryptResult DEF a
  <2>4. /\ rcv'[p] = c /\ skipped_keys'[p] = KeysOf(q, c) /\ Len(c) = recv_seq'[p]
        /\ skipped_keys'[q] = skipped_keys[q]
    BY <2>3, <1>2, <1>3, <1>4, <1>5, <1>6
  <2>5. recv_seq[p] \in Nat /\ recv_seq'[p] \in Nat /\ recv_seq[p] <= send_seq[q]
        /\ send_seq[q] \in Nat
        /\ m.ss = snd[q][m.seq + 1] /\ m.seq + 1 \in 1..send_seq[q]
    BY <1>2, <1>3, <1>6, <2>2 DEF ChainsAgree
  <2>6. recv_seq'[p] <= send_seq[q]
    BY <1>2, <1>6, <2>5
  <2>7. \A i \in 1..recv_seq'[p] : \E j \in 1..send_seq[q] : c[i] = snd[q][j]
    <3>. SUFFICES ASSUME NEW i \in 1..recv_seq'[p]
                  PROVE  \E j \in 1..send_seq[q] : c[i] = snd[q][j]
      OBVIOUS
    <3>1. CASE i <= recv_seq[p]
      <4>1. i \in 1..recv_seq[p] /\ c[i] = rcv[p][i]
        BY <3>1, <2>3, <2>4, <2>5
      <4>. QED BY <4>1, <2>2 DEF ChainsAgree
    <3>2. CASE ~(i <= recv_seq[p])
      <4>1. c[i] = m.ss
        BY <3>2, <2>3, <2>4
      <4>. QED BY <4>1, <2>5
    <3>. QED BY <3>1, <3>2
  <2>8. ASSUME inorder'[p] PROVE \A i \in 1..recv_seq'[p] : c[i] = snd[q][i]
    <3>. SUFFICES ASSUME NEW i \in 1..recv_seq'[p] PROVE c[i] = snd[q][i]
      OBVIOUS
    <3>1. inorder[p] /\ m.seq <= recv_seq[p]
      BY <2>8, <1>7
    <3>2. CASE i <= recv_seq[p]
      <4>1. i \in 1..recv_seq[p] /\ c[i] = rcv[p][i]
        BY <3>2, <2>3, <2>4, <2>5
      <4>. QED BY <4>1, <3>1, <2>2 DEF ChainsAgree
    <3>3. CASE ~(i <= recv_seq[p])
      <4>1. c[i] = m.ss
        BY <3>3, <2>3, <2>4
      <4>2. i = m.seq + 1
        BY <3>1, <3>3, <1>2, <1>6, <2>5
      <4>. QED BY <4>1, <4>2, <2>5
    <3>. QED BY <3>2, <3>3
  <2>. QED BY <1>1, <2>2, <2>4, <2>6, <2>7, <2>8 DEF ChainsAgree
<1>10. ~OneWay(q)'
  BY <1>1, <1>2 DEF OneWay
<1>11. ASSUME NEW r \in Parties, OneWay(r)' PROVE ChainsAgree(r, Peer(r))'
  <2>1. r = p
    BY <1>3, <1>10, <1>11
  <2>. QED BY <2>1, <1>3, <1>9, <1>11
<1>. QED BY <1>8, <1>11 DEF PqInv

LEMMA PqStep == PqInv /\ [PqNext]_pqvars => PqInv'
<1>. SUFFICES ASSUME PqInv, [PqNext]_pqvars PROVE PqInv'
  OBVIOUS
<1>1. ASSUME NEW p \in Parties, ratchet_epoch(p) PROVE PqInv'
  BY <1>1, EpochKeeps
<1>2. ASSUME NEW p \in Parties, NEW ss \in Secrets, encrypt_message(p, ss) PROVE PqInv'
  BY <1>2, EncryptKeeps
<1>3. ASSUME NEW m \in sent, decrypt_message(m) PROVE PqInv'
  BY <1>3, DecryptKeeps
<1>4. CASE UNCHANGED pqvars
  <2>1. UNCHANGED <<snd, rcv, send_seq, recv_seq, skipped_keys, sent, inorder>>
    BY <1>4 DEF pqvars
  <2>2. PqTypeOK'
    BY <2>1 DEF PqInv, PqTypeOK
  <2>3. ASSUME NEW p \in Parties, OneWay(p)' PROVE ChainsAgree(p, Peer(p))'
    <3>1. OneWay(p)
      BY <2>1, <2>3 DEF OneWay
    <3>2. ChainsAgree(p, Peer(p))
      BY <3>1 DEF PqInv
    <3>. QED BY <2>1, <3>2 DEF ChainsAgree
  <2>. QED BY <2>2, <2>3 DEF PqInv
<1>. QED BY <1>1, <1>2, <1>3, <1>4 DEF PqNext

\* The invariant opens every message that PqOpens speaks of.
LEMMA InvOpens == PqInv => PqOpens
<1>. SUFFICES ASSUME PqInv, NEW m \in sent, NEW p, NEW q, NEW s,
                     p = Peer(m.from), q = m.from, s = snd[q],
                     send_seq[p] = 0, Epoch \notin ToSet(s),
                     \/ \A i \in DOMAIN s : s[i] = m.ss
                     \/ inorder[p] /\ m.seq <= recv_seq[p],
                     recv_seq[p] <= m.seq + MAX_SKIPPED_KEYS
              PROVE  /\ HasKey(Advanced(p, m).keys, m.seq)
                     /\ get_message_key(Advanced(p, m).keys, m.seq) = m.key
  BY DEF PqOpens
<1>1. /\ q \in Parties /\ m.seq \in Nat /\ m.seq < send_seq[q]
      /\ snd \in [Parties -> Seq(Mixins)]
      /\ send_seq \in [Parties -> Nat] /\ recv_seq \in [Parties -> Nat]
  BY DEF PqInv, PqTypeOK
<1>2. p \in Parties /\ Peer(p) = q /\ OneWay(p)
  BY <1>1, PeerFacts DEF OneWay
<1>3. ChainsAgree(p, q)
  BY <1>2 DEF PqInv
<1>4. PICK c \in Seq(Mixins) :
             /\ Advanced(p, m) = [chain |-> c, keys |-> KeysOf(q, c)]
             /\ Len(c) = IF m.seq < recv_seq[p] THEN recv_seq[p] ELSE m.seq + 1
             /\ \A i \in 1..Len(c) : c[i] = IF i <= recv_seq[p] THEN rcv[p][i] ELSE m.ss
  <2>1. \E c \in Seq(Mixins) :
             /\ Advanced(p, m) = [chain |-> c, keys |-> KeysOf(m.from, c)]
             /\ Len(c) = IF m.seq < recv_seq[p] THEN recv_seq[p] ELSE m.seq + 1
             /\ \A i \in 1..Len(c) : c[i] = IF i <= recv_seq[p] THEN rcv[p][i] ELSE m.ss
             /\ m.seq < recv_seq[p] => c = rcv[p]
    <3>1. OneWay(p)
      BY <1>2
    <3>. QED BY ONLY <3>1, PqInv, m \in sent, p = Peer(m.from), DecryptResult
  <2>. QED BY <2>1, Zenon
<1>5. /\ recv_seq[p] \in Nat /\ send_seq[q] \in Nat /\ s \in Seq(Mixins)
      /\ Len(s) = send_seq[q] /\ DOMAIN s = 1..send_seq[q] /\ m.ss = s[m.seq + 1]
      /\ m.key = <<q, SubSeq(s, 1, m.seq + 1)>> /\ recv_seq[p] <= send_seq[q]
  <2>1. s \in Seq(Mixins) /\ Len(s) = send_seq[q]
    BY <1>1, <1>3 DEF ChainsAgree
  <2>2. DOMAIN s = 1..send_seq[q]
    BY <2>1, LenProperties
  <2>. QED BY <2>1, <2>2, <1>1, <1>2, <1>3 DEF ChainsAgree
<1>6. m.seq \in Kept(Len(c)) /\ m.seq + 1 <= Len(c) /\ Len(c) \in Nat
  <2>1. (Len(c) = recv_seq[p] /\ m.seq < recv_seq[p]) \/ Len(c) = m.seq + 1
    BY <1>4
  <2>2. /\ Len(c) \in Nat /\ m.seq < Len(c) /\ m.seq + 1 <= Len(c)
        /\ Len(c) <= m.seq + MAX_SKIPPED_KEYS
    <3>1. PICK k \in Nat, r \in Nat : k = m.seq /\ r = recv_seq[p] /\ r <= k + MAX_SKIPPED_KEYS
      BY <1>1, <1>5
    <3>2. PICK l : l = Len(c)
      OBVIOUS
    <3>3. (l = r /\ k < r) \/ l = k + 1
      BY <3>1, <3>2, <2>1
    <3>4. l \in Nat /\ k < l /\ k + 1 <= l /\ l <= k + MAX_SKIPPED_KEYS
      BY ONLY <3>1, <3>3, k \in Nat, r \in Nat, PqAssumption
    <3>. QED BY <3>1, <3>2, <3>4
  <2>. QED BY <2>2, <1>1 DEF Kept
<1>7. HasKey(KeysOf(q, c), m.seq)
      /\ get_message_key(KeysOf(q, c), m.seq) = <<q, SubSeq(c, 1, m.seq + 1)>>
  BY <1>6, KeyFound
<1>8. ASSUME NEW i \in 1..(m.seq + 1) PROVE c[i] = s[i]
  <2>1. i \in 1..Len(c) /\ i \in DOMAIN s
    BY <1>1, <1>5, <1>6
  <2>2. CASE i <= recv_seq[p]
    <3>1. i \in 1..recv_seq[p] /\ c[i] = rcv[p][i]
      BY <2>1, <2>2, <1>4, <1>5
    <3>2. CASE \A j \in DOMAIN s : s[j] = m.ss
      <4>1. PICK j \in 1..send_seq[q] : rcv[p][i] = s[j]
        BY <3>1, <1>3 DEF ChainsAgree
      <4>. QED BY <4>1, <3>1, <3>2, <2>1, <1>5
    <3>3. CASE inorder[p]
      BY <3>1, <3>3, <1>3 DEF ChainsAgree
    <3>. QED BY <3>2, <3>3
  <2>3. CASE ~(i <= recv_seq[p])
    <3>1. c[i] = m.ss
      BY <2>1, <2>3, <1>4
    <3>2. CASE \A j \in DOMAIN s : s[j] = m.ss
      BY <3>1, <3>2, <2>1
    <3>3. CASE m.seq <= recv_seq[p]
      <4>1. i = m.seq + 1
        BY <3>3, <2>3, <1>1, <1>5
      <4>. QED BY <3>1, <4>1, <1>5
    <3>. QED BY <3>2, <3>3
  <2>. QED BY <2>2, <2>3
<1>9. SubSeq(c, 1, m.seq + 1) = SubSeq(s, 1, m.seq + 1)
  <2>1. PICK k \in Nat : k = m.seq + 1 /\ k <= Len(c) /\ k <= Len(s)
    BY <1>1, <1>5, <1>6
  <2>2. SubSeq(c, 1, k) = [i \in 1..k |-> c[i]] /\ SubSeq(s, 1, k) = [i \in 1..k |-> s[i]]
    BY <2>1, <1>5
  <2>3. \A i \in 1..k : c[i] = s[i]
    BY <2>1, <1>8
  <2>. QED BY <2>1, <2>2, <2>3
<1>10. Advanced(p, m).keys = KeysOf(q, c)
  BY <1>4
<1>. QED BY <1>5, <1>7, <1>9, <1>10

\* Between two parties of which one only receives, every message that was sent
\* in the first epoch opens: up to MAX_SKIP_AHEAD early, MAX_SKIPPED_KEYS late,
\* once or again, if one secret was used or no message was skipped.  For every
\* set of secrets and both capacities.
THEOREM PqMessagesOpen == PqSpec => []PqOpens
<1>1. PqSpec => []PqInv
  BY PqStart, PqStep, PTL DEF PqSpec
<1>. QED BY <1>1, InvOpens, PTL

-----------------------------------------------------------------------------
(* The secure bootstrap kit.  Unless a start was cut off after its first    *)
(* write, the whole files hold shares of one key along one line.            *)

ShardOf(x) == {NoShard, TornShard} \cup {Shard(x, y) : y \in Bytes}

Starting == [state : {"writing", "up"}, key : Bytes, line : Lines, written : 0..3]

KitTypeOK ==
    /\ shard = [x \in 1..3 |-> shard[x]]
    /\ \A x \in 1..3 : shard[x] \in ShardOf(x)
    /\ kit \in Bytes /\ mixed \in BOOLEAN
    /\ boot = Down \/ boot \in Starting
    /\ boot.state = "writing" => boot.written < 3

\* The shards in S are the shares of a key along the line a.
OnLine(f, S, key, a) == \A x \in S : f[x] = split_key(key, a)[x]

\* The whole files hold shares of the kit along one line, unless a start has
\* written some; those it has written are shares of its key along its line.
KitInv ==
    /\ KitTypeOK
    /\ ~mixed /\ ~(boot.state = "writing" /\ boot.written > 0) =>
          Whole = {} \/ \E a \in Lines : OnLine(shard, Whole, kit, a)
    /\ boot.state = "writing" => OnLine(shard, 1..boot.written, boot.key, boot.line)

\* A share is a byte of its provider.
LEMMA ShareType ==
    ASSUME NEW key \in Bytes, NEW a \in Lines, NEW x \in 1..3
    PROVE  split_key(key, a)[x] \in ShardOf(x) /\ split_key(key, a)[x].st = "whole"
<1>1. split_key(key, a)[x] = Shard(x, Add(key, Mul(a, x)))
  BY DEF split_key
<1>2. Add(key, Mul(a, x)) \in Bytes
  BY FieldAssumption
<1>. QED BY <1>1, <1>2 DEF ShardOf, Shard

\* Two whole files are the first two.
LEMMA TwoFound ==
    ASSUME Cardinality(Whole) >= 2
    PROVE  First \in Whole /\ Second \in Whole /\ First # Second
<1>1. Whole \subseteq 1..3
  BY DEF Whole
<1>2. \A S \in SUBSET (1..3) : S # {} => Min(S) \in S
  <2>. SUFFICES ASSUME NEW S \in SUBSET (1..3), S # {} PROVE Min(S) \in S
    OBVIOUS
  <2>1. \E x \in S : \A y \in S : x <= y
    <3>1. S \in SUBSET Nat
      OBVIOUS
    <3>. QED BY <3>1, LeastNatural
  <2>. QED BY <2>1 DEF Min
<1>3. Whole # {}
  BY FS_EmptySet
<1>4. First \in Whole
  BY <1>1, <1>2, <1>3 DEF First
<1>5. Whole \ {First} # {}
  <2>. SUFFICES ASSUME Whole \ {First} = {} PROVE FALSE
    OBVIOUS
  <2>1. Whole = {First}
    BY <1>4
  <2>. QED BY <2>1, FS_Singleton
<1>6. Second \in Whole \ {First}
  BY <1>1, <1>2, <1>5 DEF Second
<1>. QED BY <1>4, <1>6

LEMMA KitStart == KitInit => KitInv
<1>. SUFFICES ASSUME KitInit PROVE KitInv
  OBVIOUS
<1>1. boot = Down /\ boot.state = "down" /\ 0 \in Bytes
  BY DEF KitInit, Down, Bytes
<1>2. \A x \in 1..3 : shard[x] = NoShard /\ shard[x].st # "whole"
  BY DEF KitInit, NoShard
<1>3. Whole = {}
  BY <1>2 DEF Whole
<1>4. KitTypeOK
  BY <1>1, <1>2 DEF KitInit, KitTypeOK, ShardOf
<1>. QED BY <1>1, <1>3, <1>4 DEF KitInv

\* The start that finds two shards has a byte; of one line, the key.
LEMMA Recovered ==
    ASSUME KitInv, Cardinality(Whole) >= 2
    PROVE  /\ reconstruct(shard[First], shard[Second]) \in Bytes
           /\ ~mixed /\ boot.state = "down" => reconstruct(shard[First], shard[Second]) = kit
<1>1. First \in Whole /\ Second \in Whole /\ First # Second
  BY TwoFound
<1>2. First \in 1..3 /\ Second \in 1..3
  BY <1>1 DEF Whole
<1>3. \A x \in Whole : \E y \in Bytes : shard[x] = Shard(x, y)
  BY DEF Whole, KitInv, KitTypeOK, ShardOf, NoShard, TornShard
<1>4. PICK y \in Bytes, z \in Bytes : shard[First] = Shard(First, y) /\ shard[Second] = Shard(Second, z)
  BY <1>1, <1>3
<1>5. reconstruct(shard[First], shard[Second])
      = Add(Mul(y, Weight(First, Second)), Mul(z, Weight(Second, First)))
  BY <1>4 DEF reconstruct, Shard
<1>6. reconstruct(shard[First], shard[Second]) \in Bytes
  BY <1>1, <1>2, <1>5, FieldAssumption
<1>7. ASSUME ~mixed, boot.state = "down"
      PROVE  reconstruct(shard[First], shard[Second]) = kit
  <2>1. PICK a \in Lines : OnLine(shard, Whole, kit, a)
    BY <1>1, <1>7 DEF KitInv
  <2>2. shard[First] = split_key(kit, a)[First] /\ shard[Second] = split_key(kit, a)[Second]
    BY <1>1, <2>1 DEF OnLine
  <2>3. kit \in Bytes
    BY DEF KitInv, KitTypeOK
  <2>. QED BY <1>1, <1>2, <2>2, <2>3, FieldAssumption
<1>. QED BY <1>6, <1>7

LEMMA StartKeeps ==
    ASSUME KitInv, Start
    PROVE  /\ KitInv'
           /\ Cardinality(Whole) >= 2 /\ ~mixed => boot'.key = kit
<1>1. PICK a \in Lines, key \in IF Cardinality(Whole) >= 2
                                THEN {reconstruct(shard[First], shard[Second])}
                                ELSE IF MayBootstrap THEN NewKeys ELSE {} :
         boot' = [state |-> "writing", key |-> key, line |-> a, written |-> 0]
  BY DEF Start
<1>2. boot.state = "down" /\ UNCHANGED <<shard, kit, mixed>>
  BY DEF Start
<1>3. key \in Bytes
  BY <1>1, Recovered, FieldAssumption
<1>4. boot' \in Starting /\ boot'.state = "writing" /\ boot'.written = 0 /\ boot'.key = key
  BY <1>1, <1>3 DEF Starting
<1>5. KitTypeOK'
  BY <1>2, <1>4 DEF KitInv, KitTypeOK
<1>6. Whole' = Whole
  BY <1>2 DEF Whole
<1>7. ~mixed => Whole = {} \/ \E b \in Lines : OnLine(shard, Whole, kit, b)
  BY <1>2 DEF KitInv
<1>8. OnLine(shard', 1..boot'.written, boot'.key, boot'.line)
  BY <1>4 DEF OnLine
<1>9. KitInv'
  BY <1>2, <1>4, <1>5, <1>6, <1>7, <1>8 DEF KitInv
<1>10. Cardinality(Whole) >= 2 /\ ~mixed => boot'.key = kit
  BY <1>1, <1>2, <1>4, Recovered
<1>. QED BY <1>9, <1>10

LEMMA WriteKeeps ==
    ASSUME KitInv, WriteShard
    PROVE  KitInv'
<1>1. /\ boot \in Starting /\ boot.state = "writing" /\ boot.written \in 0..2
      /\ shard = [y \in 1..3 |-> shard[y]]
  <2>1. boot.state = "writing" /\ Down.state = "down"
    BY DEF WriteShard, Down
  <2>2. boot \in Starting
    BY <2>1 DEF KitInv, KitTypeOK
  <2>. QED BY <2>1, <2>2 DEF KitInv, KitTypeOK, Starting
<1>2. PICK x \in 1..3 : x = boot.written + 1
  BY <1>1
<1>3. /\ shard' = [shard EXCEPT ![x] = split_key(boot.key, boot.line)[x]]
      /\ boot' = [boot EXCEPT !.written = x, !.state = IF x = 3 THEN "up" ELSE @]
      /\ kit' = IF x = 3 THEN boot.key ELSE kit
      /\ mixed' = IF x = 3 THEN FALSE ELSE mixed
  BY <1>2 DEF WriteShard
<1>4. boot.key \in Bytes /\ boot.line \in Lines
  BY <1>1 DEF Starting
<1>5. /\ boot' \in Starting /\ boot'.written = x /\ boot'.key = boot.key
      /\ boot'.line = boot.line /\ boot'.state = IF x = 3 THEN "up" ELSE "writing"
  <2>1. boot' = [state |-> IF x = 3 THEN "up" ELSE "writing", key |-> boot.key,
                 line |-> boot.line, written |-> x]
    BY <1>1, <1>3 DEF Starting
  <2>2. x \in 0..3
    OBVIOUS
  <2>. QED BY <2>1, <2>2, <1>4 DEF Starting
<1>6. /\ shard' = [y \in 1..3 |-> shard'[y]]
      /\ \A y \in 1..3 : shard'[y] = IF y = x THEN split_key(boot.key, boot.line)[x] ELSE shard[y]
  BY <1>1, <1>3
<1>7. \A y \in 1..3 : shard'[y] \in ShardOf(y)
  <2>1. split_key(boot.key, boot.line)[x] \in ShardOf(x)
    BY <1>4, ShareType
  <2>. QED BY <1>6, <2>1 DEF KitInv, KitTypeOK
<1>8. KitTypeOK'
  <2>1. kit' \in Bytes
    BY <1>3, <1>4 DEF KitInv, KitTypeOK
  <2>2. mixed' \in BOOLEAN
    BY <1>3 DEF KitInv, KitTypeOK
  <2>3. boot'.state = "writing" => boot'.written < 3
    BY <1>5
  <2>. QED BY <1>5, <1>6, <1>7, <2>1, <2>2, <2>3 DEF KitTypeOK
<1>9. OnLine(shard', 1..x, boot.key, boot.line)
  <2>. SUFFICES ASSUME NEW y \in 1..x PROVE shard'[y] = split_key(boot.key, boot.line)[y]
    BY DEF OnLine
  <2>1. CASE y = x
    BY <2>1, <1>6
  <2>2. CASE y # x
    <3>1. y \in 1..boot.written /\ y \in 1..3
      BY <2>2, <1>1, <1>2
    <3>. QED BY <2>2, <3>1, <1>1, <1>6 DEF KitInv, OnLine
  <2>. QED BY <2>1, <2>2
<1>10. CASE x = 3
  <2>1. OnLine(shard', Whole', kit', boot.line)
    BY <1>9, <1>3, <1>10 DEF OnLine, Whole
  <2>2. boot'.state = "up"
    BY <1>5, <1>10
  <2>. QED BY <2>1, <2>2, <1>4, <1>8 DEF KitInv
<1>11. CASE x # 3
  <2>1. boot'.state = "writing" /\ boot'.written > 0
    BY <1>2, <1>5, <1>11
  <2>2. OnLine(shard', 1..boot'.written, boot'.key, boot'.line)
    BY <1>5, <1>9
  <2>. QED BY <2>1, <2>2, <1>8 DEF KitInv
<1>. QED BY <1>10, <1>11

\* Files that were removed or torn leave the others on their line.
LEMMA FewerKeep ==
    ASSUME KitInv, boot'.state # "writing", boot' = Down,
           NEW x \in 1..3, NEW f \in {NoShard, TornShard},
           shard' = [shard EXCEPT ![x] = f] \/ shard' = shard,
           kit' = kit, mixed' \in BOOLEAN,
           ~mixed' => ~mixed /\ ~(boot.state = "writing" /\ boot.written > 0)
    PROVE  KitInv'
<1>1. shard = [y \in 1..3 |-> shard[y]] /\ \A y \in 1..3 : shard[y] \in ShardOf(y)
  BY DEF KitInv, KitTypeOK
<1>2. f \in ShardOf(x) /\ f.st # "whole"
  BY DEF ShardOf, NoShard, TornShard
<1>3. /\ shard' = [y \in 1..3 |-> shard'[y]]
      /\ \A y \in 1..3 : shard'[y] = shard[y] \/ (y = x /\ shard'[y] = f)
  BY <1>1
<1>4. KitTypeOK'
  BY <1>1, <1>2, <1>3 DEF KitInv, KitTypeOK
<1>5. Whole' \subseteq Whole /\ \A y \in Whole' : shard'[y] = shard[y]
  BY <1>2, <1>3 DEF Whole
<1>6. ~mixed' => Whole' = {} \/ \E a \in Lines : OnLine(shard', Whole', kit', a)
  <2>. SUFFICES ASSUME ~mixed', Whole' # {}
                PROVE  \E a \in Lines : OnLine(shard', Whole', kit', a)
    OBVIOUS
  <2>1. PICK a \in Lines : OnLine(shard, Whole, kit, a)
    BY <1>5 DEF KitInv
  <2>2. OnLine(shard', Whole', kit', a)
    BY <2>1, <1>5 DEF OnLine
  <2>. QED BY <2>2
<1>. QED BY <1>4, <1>6 DEF KitInv

LEMMA KitStep == KitInv /\ [KitNext]_kitvars => KitInv'
<1>. SUFFICES ASSUME KitInv, [KitNext]_kitvars PROVE KitInv'
  OBVIOUS
<1>0. Down.state = "down" /\ mixed \in BOOLEAN
  BY DEF Down, KitInv, KitTypeOK
<1>1. CASE Start
  BY <1>1, StartKeeps
<1>2. CASE WriteShard
  BY <1>2, WriteKeeps
<1>3. CASE KillStart
  <2>1. boot.state = "writing" /\ boot' = Down /\ kit' = kit
        /\ mixed' = (mixed \/ boot.written > 0)
    BY <1>3 DEF KillStart
  <2>2. boot.written + 1 \in 1..3
    <3>1. boot \in Starting /\ boot.written < 3
      BY <2>1, <1>0 DEF KitInv, KitTypeOK
    <3>. QED BY <3>1 DEF Starting
  <2>3. shard' = [shard EXCEPT ![boot.written + 1] = TornShard] \/ shard' = shard
    BY <1>3 DEF KillStart
  <2>4. mixed' \in BOOLEAN /\ (~mixed' => ~mixed /\ ~(boot.written > 0))
    BY <2>1, <1>0, Zenon
  <2>. QED BY <1>0, <2>1, <2>2, <2>3, <2>4, FewerKeep
<1>4. CASE Stop
  <2>1. boot.state = "up" /\ boot' = Down /\ UNCHANGED <<shard, kit, mixed>>
    BY <1>4 DEF Stop
  <2>. QED BY <1>0, <2>1, FewerKeep
<1>5. ASSUME NEW x \in 1..3, Lose(x) PROVE KitInv'
  <2>1. boot.state = "down" /\ shard' = [shard EXCEPT ![x] = NoShard] /\ UNCHANGED <<boot, kit, mixed>>
    BY <1>5 DEF Lose
  <2>2. boot = Down
    BY <2>1 DEF KitInv, KitTypeOK, Starting
  <2>. QED BY <1>0, <2>1, <2>2, FewerKeep
<1>6. CASE UNCHANGED kitvars
  BY <1>6 DEF kitvars, KitInv, KitTypeOK, Whole
<1>. QED BY <1>1, <1>2, <1>3, <1>4, <1>5, <1>6 DEF KitNext

\* A start that finds two shards has the key of the last start that ended, for
\* any arithmetic in which two shares of a line give the key back, any set of
\* lines and any number of starts, kills and lost files, as long as no start
\* was cut off after its first write (SecKit::recover_or_bootstrap).
THEOREM KeyComesBack == KitSpec => KeyKept
<1>. DEFINE Kept1 == boot.state = "down" /\ boot'.state = "writing"
                       /\ Cardinality(Whole) >= 2 /\ ~mixed => boot'.key = kit
<1>1. KitInv /\ [KitNext]_kitvars => [Kept1]_kitvars
  <2>. SUFFICES ASSUME KitInv, [KitNext]_kitvars PROVE Kept1 \/ UNCHANGED kitvars
    BY DEF Kept1
  <2>1. CASE Start
    BY <2>1, StartKeeps
  <2>2. CASE WriteShard
    <3>1. boot.state = "writing"
      BY <2>2 DEF WriteShard
    <3>. QED BY <3>1
  <2>3. CASE KillStart
    <3>1. boot.state = "writing"
      BY <2>3 DEF KillStart
    <3>. QED BY <3>1
  <2>4. CASE Stop
    <3>1. boot.state = "up"
      BY <2>4 DEF Stop
    <3>. QED BY <3>1
  <2>5. ASSUME NEW x \in 1..3, Lose(x) PROVE Kept1
    <3>1. boot' = boot
      BY <2>5 DEF Lose
    <3>. QED BY <3>1
  <2>. QED BY <2>1, <2>2, <2>3, <2>4, <2>5 DEF KitNext
<1>2. KitSpec => []KitInv
  BY KitStart, KitStep, PTL DEF KitSpec
<1>. QED BY <1>1, <1>2, PTL DEF KitSpec, KeyKept
=============================================================================
