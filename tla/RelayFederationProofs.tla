------------------------ MODULE RelayFederationProofs ------------------------
(***************************************************************************)
(* What holds of a federation of any number of relays, with any channels,  *)
(* intervals and lifetimes.                                                *)
(***************************************************************************)
EXTENDS RelayFederation, DataFacts

Kinds == {"receipt", "delete"}

-----------------------------------------------------------------------------
(* A receipt and its deletion take effect once at each relay.              *)

\* The record of kind k at relay r is no older than t.
Kept(r, k, t) == \E e \in nonces[r] : e.str = NonceStr(k) /\ e.at >= t

\* What an effect leaves behind: while the receipt is fresh, a record of its
\* own kind, made at or after its timestamp, unless the effect came before it;
\* such an early effect can happen again only after the timestamp.
Barred(r, k) ==
    /\ effects[r][k] \in 0..2
    /\ effects[r][k] = 1 => Kept(r, k, STAMP - TOLERANCE) \/ now > STAMP
    /\ effects[r][k] = 2 \/ (effects[r][k] = 1 /\ <<r, k>> \notin early)
          => Kept(r, k, STAMP) \/ now > STAMP + TOLERANCE
    /\ effects[r][k] = 2 => <<r, k>> \in early

Noted ==
    /\ now \in Nat
    /\ nonces = [r \in Relays |-> nonces[r]]
    /\ \A r \in Relays : \A e \in nonces[r] : e.at \in Nat
    /\ IsTable(Relays, Kinds, effects)
    /\ \A r \in Relays \ cut, k \in Kinds : Barred(r, k)

LEMMA NotedInit == Init => Noted
<1> SUFFICES ASSUME Init PROVE Noted
  OBVIOUS
<1>1. IsTable(Relays, Kinds, effects)
  BY DEF Init, IsTable, Kinds
<1>2. /\ nonces = [r \in Relays |-> nonces[r]] /\ now \in Nat
      /\ \A r \in Relays : nonces[r] = {}
  BY DEF Init
<1>3. \A r \in Relays, k \in Kinds : effects[r][k] = 0
  BY DEF Init, Kinds
<1>4. \A r \in Relays, k \in Kinds : Barred(r, k)
  BY <1>3 DEF Barred
<1> QED
  BY <1>1, <1>2, <1>4 DEF Noted

\* Time passes, and records older than the tolerance go.
LEMMA BarredStays ==
    ASSUME Noted, NEW r \in Relays \ cut, NEW k \in Kinds,
           now' \in Nat, now' >= now, effects'[r][k] = effects[r][k],
           <<r, k>> \in early' <=> <<r, k>> \in early,
           \A e \in nonces[r] : e \in nonces'[r] \/ e.at < now' - TOLERANCE
    PROVE  Barred(r, k)'
<1>1. Barred(r, k) /\ now \in Nat /\ \A e \in nonces[r] : e.at \in Nat
  BY DEF Noted
<1>2. TOLERANCE \in Nat /\ STAMP \in Nat
  BY FederationAssumption
<1>3. ASSUME Kept(r, k, STAMP) PROVE Kept(r, k, STAMP)' \/ now' > STAMP + TOLERANCE
  <2>1. PICK e \in nonces[r] : e.str = NonceStr(k) /\ e.at >= STAMP
    BY <1>3 DEF Kept
  <2>2. CASE e \in nonces'[r]
    BY <2>1, <2>2 DEF Kept
  <2>3. CASE e.at < now' - TOLERANCE
    BY <1>1, <1>2, <2>1, <2>3
  <2> QED
    BY <2>2, <2>3
<1>4. ASSUME Kept(r, k, STAMP - TOLERANCE) PROVE Kept(r, k, STAMP - TOLERANCE)' \/ now' > STAMP
  <2>1. PICK e \in nonces[r] : e.str = NonceStr(k) /\ e.at >= STAMP - TOLERANCE
    BY <1>4 DEF Kept
  <2>2. CASE e \in nonces'[r]
    BY <2>1, <2>2 DEF Kept
  <2>3. CASE e.at < now' - TOLERANCE
    BY <1>1, <1>2, <2>1, <2>3
  <2> QED
    BY <2>2, <2>3
<1> QED
  BY <1>1, <1>2, <1>3, <1>4 DEF Barred

LEMMA NotedSame ==
    ASSUME Noted, now' \in Nat, now' >= now, UNCHANGED <<nonces, effects, early, cut>>
    PROVE  Noted'
<1>1. \A r \in Relays \ cut, k \in Kinds : Barred(r, k)'
  BY BarredStays
<1> QED
  BY <1>1 DEF Noted

\* An effect at relay r: the record is new, so one of before is too old.
LEMMA BarredEffect ==
    ASSUME Noted, NEW r \in Relays \ cut, NEW kind \in Kinds, Recorded(r, kind), Fresh, now' = now,
           effects'[r][kind] = effects[r][kind] + 1,
           [str |-> NonceStr(kind), at |-> now] \in nonces'[r],
           early' = IF now < STAMP THEN early \cup {<<r, kind>>} ELSE early
    PROVE  Barred(r, kind)'
<1>1. Barred(r, kind) /\ now \in Nat
  BY DEF Noted
<1>2. /\ TOLERANCE \in Nat /\ STAMP \in Nat
      /\ now - STAMP <= TOLERANCE /\ STAMP - now <= TOLERANCE
  BY <1>1, FederationAssumption DEF Fresh
<1>3. \A t : ~Kept(r, kind, t)
  BY DEF Kept, Recorded
<1>4. effects[r][kind] \in 0..1 /\ (effects[r][kind] = 1 => <<r, kind>> \in early /\ now > STAMP)
  BY <1>1, <1>2, <1>3 DEF Barred
<1>5. now >= STAMP - TOLERANCE /\ (now >= STAMP \/ <<r, kind>> \in early')
  BY <1>1, <1>2
<1>6. \A t \in Int : now >= t => Kept(r, kind, t)'
  BY DEF Kept
<1>7. Kept(r, kind, STAMP - TOLERANCE)' /\ (now >= STAMP => Kept(r, kind, STAMP)')
  BY <1>2, <1>5, <1>6
<1>8. CASE effects[r][kind] = 0
  BY <1>5, <1>7, <1>8 DEF Barred
<1>9. CASE effects[r][kind] = 1
  BY <1>1, <1>2, <1>4, <1>7, <1>9 DEF Barred
<1> QED
  BY <1>4, <1>8, <1>9

\* Handle records the nonce before the effect, and refuses a recorded one.
LEMMA NotedHandle ==
    ASSUME Noted, NEW r \in Relays, NEW kind \in Kinds, Handle(r, kind), now' = now
    PROVE  Noted'
<1>0. now \in Nat
  BY DEF Noted
<1>1. CASE UNCHANGED <<nonces, effects, early, cut>>
  BY <1>0, <1>1, NotedSame
<1>2. CASE /\ Recorded(r, kind) /\ UNCHANGED cut
           /\ nonces' = [nonces EXCEPT ![r] = Recording(r, kind)]
           /\ \/ UNCHANGED <<effects, early>>
              \/ /\ Fresh /\ effects' = [effects EXCEPT ![r][kind] = @ + 1]
                 /\ early' = IF now < STAMP THEN early \cup {<<r, kind>>} ELSE early
  <2>1. /\ nonces = [q \in Relays |-> nonces[q]] /\ IsTable(Relays, Kinds, effects)
        /\ \A q \in Relays : \A e \in nonces[q] : e.at \in Nat
    BY DEF Noted
  <2>2. /\ nonces' = [q \in Relays |-> nonces'[q]]
        /\ \A q \in Relays : nonces'[q] = IF q = r THEN Recording(r, kind) ELSE nonces[q]
    BY <1>2, <2>1
  <2>3. /\ \A e \in Recording(r, kind) : e.at \in Nat
        /\ [str |-> NonceStr(kind), at |-> now] \in Recording(r, kind)
        /\ \A e \in nonces[r] : e \in Recording(r, kind) \/ e.at < now - TOLERANCE
    BY <1>0, <2>1, FederationAssumption DEF Recording, Retained
  <2>4. \A q \in Relays : \A e \in nonces'[q] : e.at \in Nat
    BY <2>1, <2>2, <2>3
  <2>5. \A q \in Relays : \A e \in nonces[q] : e \in nonces'[q] \/ e.at < now' - TOLERANCE
    BY <2>2, <2>3
  <2>6. CASE UNCHANGED <<effects, early>>
    <3>1. \A q \in Relays \ cut, k \in Kinds : Barred(q, k)'
      BY <1>0, <2>5, <2>6, BarredStays
    <3> QED
      BY <1>0, <1>2, <2>1, <2>2, <2>4, <2>6, <3>1 DEF Noted
  <2>7. CASE /\ Fresh /\ effects' = [effects EXCEPT ![r][kind] = @ + 1]
             /\ early' = IF now < STAMP THEN early \cup {<<r, kind>>} ELSE early
    <3>1. effects' = WithEntry(effects, r, kind, effects[r][kind] + 1)
      BY <2>7, Zenon DEF WithEntry
    <3>2. /\ IsTable(Relays, Kinds, effects')
          /\ \A q \in Relays, k \in Kinds :
                effects'[q][k] = IF q = r /\ k = kind THEN effects[r][kind] + 1 ELSE effects[q][k]
      BY ONLY <2>1, <3>1, ExceptTwo, r \in Relays
    <3>3. ASSUME NEW q \in Relays \ cut, NEW k \in Kinds
          PROVE  Barred(q, k)'
      <4>1. CASE q = r /\ k = kind
        BY <1>2, <2>2, <2>3, <2>7, <3>2, <4>1, BarredEffect
      <4>2. CASE ~(q = r /\ k = kind)
        <5>1. effects'[q][k] = effects[q][k] /\ (<<q, k>> \in early' <=> <<q, k>> \in early)
          BY <2>7, <3>2, <4>2
        <5> QED
          BY <1>0, <2>5, <5>1, BarredStays
      <4> QED
        BY <4>1, <4>2
    <3> QED
      BY <1>0, <1>2, <2>2, <2>4, <3>2, <3>3 DEF Noted
  <2> QED
    BY <1>2, <2>6, <2>7
<1> QED
  BY <1>1, <1>2 DEF Handle

\* Other requests drop old records, or take the relay out of the promise.
LEMMA NotedOther ==
    ASSUME Noted, NEW r \in Relays, other_requests(r)
    PROVE  Noted'
<1>1. PICK D \in SUBSET Retained(nonces[r]) :
          /\ nonces' = [nonces EXCEPT ![r] = Retained(@) \ D]
          /\ cut' = IF D = {} THEN cut ELSE cut \cup {r}
  BY DEF other_requests
<1>2. /\ now' = now /\ UNCHANGED <<effects, early>> /\ now \in Nat
      /\ nonces = [q \in Relays |-> nonces[q]] /\ IsTable(Relays, Kinds, effects)
      /\ \A q \in Relays : \A e \in nonces[q] : e.at \in Nat
  BY DEF other_requests, Noted
<1>3. /\ nonces' = [q \in Relays |-> nonces'[q]]
      /\ \A q \in Relays : nonces'[q] = IF q = r THEN Retained(nonces[r]) \ D ELSE nonces[q]
  BY <1>1, <1>2
<1>4. \A q \in Relays : nonces'[q] \subseteq nonces[q]
  BY <1>3 DEF Retained
<1>5. ASSUME NEW q \in Relays \ cut', NEW k \in Kinds
      PROVE  Barred(q, k)'
  <2>1. q \in Relays \ cut /\ (q = r => D = {})
    BY <1>1, <1>5
  <2>2. \A e \in nonces[q] : e \in nonces'[q] \/ e.at < now' - TOLERANCE
    BY <1>2, <1>3, <2>1, FederationAssumption DEF Retained
  <2> QED
    BY <1>2, <2>1, <2>2, BarredStays
<1> QED
  BY <1>2, <1>3, <1>4, <1>5 DEF Noted

LEMMA NotedNext == Noted /\ [Next]_vars => Noted'
<1> SUFFICES ASSUME Noted, [Next]_vars PROVE Noted'
  OBVIOUS
<1>0. now \in Nat
  BY DEF Noted
<1>1. ASSUME NEW r \in Relays, read_receipt(r)
      PROVE  Noted'
  BY <1>1, NotedHandle DEF read_receipt, Kinds
<1>2. ASSUME NEW r \in Relays, NEW p \in Relays, receive(r, p)
      PROVE  Noted'
  <2>1. CASE UNCHANGED <<nonces, effects, early, cut>>
    BY <1>0, <1>2, <2>1, NotedSame DEF receive
  <2>2. CASE \E k \in Kinds : Handle(p, k)
    BY <1>2, <2>2, NotedHandle DEF receive
  <2> QED
    BY <1>2, <2>1, <2>2 DEF receive, Kinds
<1>3. CASE (UNCHANGED now \/ now' = now + 1) /\ UNCHANGED <<nonces, effects, early, cut>>
  BY <1>0, <1>3, NotedSame
<1> QED
  BY <1>1, <1>2, <1>3, NotedOther DEF Next, hist, vars, mail, connect_to_peer, Break, gossip_task, FromOutside,
     route_advertise, peer_auth, peer_auth_reply, relay_forward, expire, onion, store,
     forward_task, Tick

\* However relays forward a receipt to each other, in whatever order channels
\* and spawned tasks run, and although check_and_record_nonce_str forgets with
\* age, it and its deletion take effect at most once at each relay; a second
\* time only where the first was before the timestamp, and nothing is promised
\* by a relay that had too many nonces.
THEOREM ReceiptsOnce == Spec => []ReceiptOnce
<1>1. ASSUME Noted PROVE ReceiptOnce
  <2> SUFFICES ASSUME NEW r \in Relays \ cut, NEW k \in Kinds
               PROVE  effects[r][k] <= IF <<r, k>> \in early THEN 2 ELSE 1
    BY DEF ReceiptOnce, Kinds
  <2>1. effects[r][k] \in 0..2 /\ (effects[r][k] = 2 => <<r, k>> \in early)
    BY <1>1 DEF Noted, Barred
  <2> QED
    BY <2>1
<1> QED
  BY <1>1, NotedInit, NotedNext, PTL DEF Spec

-----------------------------------------------------------------------------
(* Routes.                                                                 *)

Clocks ==
    /\ now \in Nat
    /\ gossiped \in [Relays -> Nat] /\ since \in [Relays -> Int]
    /\ local = [r \in Relays |-> local[r]] /\ routes = [r \in Relays |-> routes[r]]
    /\ \A r \in Relays :
          /\ gossiped[r] <= now /\ now <= gossiped[r] + GOSSIP
          /\ since[r] = -1 \/ since[r] \in 0..now
          /\ local[r] = {} => since[r] = -1

\* A round of gossip_task with a mailbox leaves live routes only, and routes
\* that come later live longer.
Cleaned ==
    \A r \in Relays : \A e \in routes[r] :
        /\ e.expires_at \in Nat
        /\ since[r] # -1 /\ since[r] < gossiped[r] => e.expires_at > gossiped[r]

LEMMA RoutesInit == Init => Clocks /\ Cleaned
<1> SUFFICES ASSUME Init PROVE Clocks /\ Cleaned
  OBVIOUS
<1>1. Clocks
  BY FederationAssumption DEF Init, Clocks
<1>2. Cleaned
  BY DEF Init, Cleaned
<1> QED
  BY <1>1, <1>2

LEMMA RoutesSame ==
    Clocks /\ Cleaned /\ UNCHANGED <<now, gossiped, since, local, routes>> => Clocks' /\ Cleaned'
BY DEF Clocks, Cleaned

LEMMA RoutesAdded ==
    ASSUME Clocks, Cleaned, NEW r \in Relays, NEW url, NEW nids,
           routes' = [routes EXCEPT ![r] = AddRoutes(@, nids, url, now)],
           UNCHANGED <<now, gossiped, since, local>>
    PROVE  Clocks' /\ Cleaned'
<1>1. /\ routes' = [q \in Relays |-> routes'[q]]
      /\ \A q \in Relays : routes'[q] = IF q = r THEN AddRoutes(routes[r], nids, url, now) ELSE routes[q]
  BY DEF Clocks
<1>2. Clocks'
  BY <1>1 DEF Clocks
<1>3. \A e \in AddRoutes(routes[r], nids, url, now) : e \in routes[r] \/ e.expires_at = now + ROUTE_TTL
  BY DEF AddRoutes
<1>4. now + ROUTE_TTL \in Nat /\ now + ROUTE_TTL > gossiped[r]
  BY FederationAssumption DEF Clocks
<1>5. Cleaned'
  BY <1>1, <1>3, <1>4 DEF Cleaned
<1> QED
  BY <1>2, <1>5

LEMMA RoutesGossip ==
    ASSUME Clocks, Cleaned, NEW r \in Relays, gossip_task(r)
    PROVE  Clocks' /\ Cleaned'
<1>1. UNCHANGED <<now, since, local>> /\ gossiped' = [gossiped EXCEPT ![r] = now]
  BY DEF gossip_task, mail
<1>2. /\ gossiped' \in [Relays -> Nat] /\ gossiped'[r] = now
      /\ \A q \in Relays : q # r => gossiped'[q] = gossiped[q]
  BY <1>1 DEF Clocks
<1>3. /\ routes' = [q \in Relays |-> routes'[q]]
      /\ \A q \in Relays : q # r => routes'[q] = routes[q]
      /\ routes'[r] \subseteq routes[r]
      /\ local[r] # {} => \A e \in routes'[r] : e.expires_at > now
  BY DEF gossip_task, Clocks, UnexpiredRoutes
<1>4. Clocks'
  BY <1>1, <1>2, <1>3, FederationAssumption DEF Clocks
<1>5. Cleaned'
  <2> SUFFICES ASSUME NEW q \in Relays, NEW e \in routes'[q]
               PROVE  /\ e.expires_at \in Nat
                      /\ since[q] # -1 /\ since[q] < gossiped'[q] => e.expires_at > gossiped'[q]
    BY <1>1 DEF Cleaned
  <2>1. CASE q = r
    BY <1>2, <1>3, <2>1 DEF Clocks, Cleaned
  <2>2. CASE q # r
    BY <1>2, <1>3, <2>2 DEF Cleaned
  <2> QED
    BY <2>1, <2>2
<1> QED
  BY <1>4, <1>5

\* A mailbox appears, or they all go.
LEMMA RoutesMail ==
    ASSUME Clocks, Cleaned, NEW r \in Relays, NEW here,
           local' = [local EXCEPT ![r] = here],
           since' = [since EXCEPT ![r] = IF here = {} THEN -1 ELSE IF local[r] = {} THEN now ELSE @],
           UNCHANGED <<now, gossiped, routes>>
    PROVE  Clocks' /\ Cleaned'
<1>1. /\ local' = [q \in Relays |-> local'[q]]
      /\ local'[r] = here /\ \A q \in Relays : q # r => local'[q] = local[q]
  BY DEF Clocks
<1>2. /\ since' \in [Relays -> Int]
      /\ since'[r] = IF here = {} THEN -1 ELSE IF local[r] = {} THEN now ELSE since[r]
      /\ \A q \in Relays : q # r => since'[q] = since[q]
  BY DEF Clocks
<1>3. Clocks'
  BY <1>1, <1>2 DEF Clocks
<1>4. Cleaned'
  BY <1>2 DEF Clocks, Cleaned
<1> QED
  BY <1>3, <1>4

LEMMA RoutesTick ==
    ASSUME Clocks, Cleaned, Tick
    PROVE  Clocks' /\ Cleaned'
<1>1. now' = now + 1 /\ UNCHANGED <<gossiped, since, local, routes>>
  BY DEF Tick, fed, mail
<1>2. \A r \in Relays : now < gossiped[r] + GOSSIP
  BY FederationAssumption DEF Tick, Clocks
<1>3. Clocks'
  BY <1>1, <1>2, FederationAssumption DEF Clocks
<1> QED
  BY <1>1, <1>3 DEF Cleaned

LEMMA RoutesNext == Clocks /\ Cleaned /\ [Next]_vars => Clocks' /\ Cleaned'
<1> SUFFICES ASSUME Clocks, Cleaned, [Next]_vars PROVE Clocks' /\ Cleaned'
  OBVIOUS
<1>1. ASSUME NEW r \in Relays, NEW x, NEW nids, route_advertise(r, x, nids)
      PROVE  Clocks' /\ Cleaned'
  BY <1>1, RoutesAdded DEF route_advertise, mail
<1>2. ASSUME NEW r \in Relays, NEW p \in Relays, receive(r, p)
      PROVE  Clocks' /\ Cleaned'
  <2> DEFINE m == Head(chan[r][p])
  <2>1. \/ UNCHANGED routes
        \/ routes' = [routes EXCEPT ![p] = AddRoutes(@, m.nids, r, now)]
    BY <1>2 DEF receive
  <2>2. UNCHANGED <<now, gossiped, since, local>>
    BY <1>2 DEF receive
  <2> QED
    BY <2>1, <2>2, RoutesAdded, RoutesSame
<1>3. ASSUME NEW r \in Relays, NEW n, \/ store(r, n)
                                      \/ \E x, via, hops : relay_forward(r, x, via, hops, n)
      PROVE  Clocks' /\ Cleaned'
  <2>1. /\ local' = [local EXCEPT ![r] = @ \cup {n}]
        /\ since' = [since EXCEPT ![r] = IF local[r] = {} THEN now ELSE @]
        /\ UNCHANGED <<now, gossiped, routes>>
    BY <1>3 DEF store, relay_forward, fed
  <2>2. PICK here : here = local[r] \cup {n}
    OBVIOUS
  <2>3. here # {} /\ local' = [local EXCEPT ![r] = here]
    BY <2>1, <2>2
  <2>4. since' = [since EXCEPT ![r] = IF here = {} THEN -1 ELSE IF local[r] = {} THEN now ELSE @]
    BY <2>1, <2>3
  <2> QED
    BY <2>1, <2>3, <2>4, RoutesMail
<1>4. ASSUME NEW r \in Relays, expire(r)
      PROVE  Clocks' /\ Cleaned'
  <2>1. /\ local' = [local EXCEPT ![r] = {}] /\ since' = [since EXCEPT ![r] = -1]
        /\ UNCHANGED <<now, gossiped, routes>>
    BY <1>4 DEF expire, fed
  <2>2. since' = [since EXCEPT ![r] = IF {} = {} THEN -1 ELSE IF local[r] = {} THEN now ELSE @]
    BY <2>1
  <2> QED
    BY <2>1, <2>2, RoutesMail
<1>5. CASE UNCHANGED <<now, gossiped, since, local, routes>>
  BY <1>5, RoutesSame
<1> QED
  BY <1>1, <1>2, <1>3, <1>4, <1>5, RoutesGossip, RoutesTick DEF Next, vars, fed, mail,
     connect_to_peer, Break, FromOutside, peer_auth, peer_auth_reply, read_receipt, onion,
     forward_task, other_requests

\* While a relay has mailboxes, no route is more than one gossip interval past
\* its end, so who-has names no relay that advertised the id longer ago than
\* ROUTE_TTL + GOSSIP, whatever peers and clients sent in between.
THEOREM RoutesAreCleaned == Spec => []RoutesExpire
<1>1. Clocks /\ Cleaned => RoutesExpire
  <2> SUFFICES ASSUME Clocks, Cleaned, NEW r \in Relays, since[r] # -1, now - since[r] > GOSSIP,
                      NEW e \in routes[r]
               PROVE  now < e.expires_at + GOSSIP
    BY DEF RoutesExpire
  <2>1. since[r] \in Int /\ gossiped[r] \in Nat /\ now \in Nat /\ now <= gossiped[r] + GOSSIP
    BY DEF Clocks
  <2>2. since[r] < gossiped[r]
    BY <2>1, FederationAssumption
  <2>3. e.expires_at \in Nat /\ e.expires_at > gossiped[r]
    BY <2>2 DEF Cleaned
  <2> QED
    BY <2>1, <2>3, FederationAssumption
<1> QED
  BY <1>1, RoutesInit, RoutesNext, PTL DEF Spec

=============================================================================
