-------------------------- MODULE RelayFederation --------------------------
(***************************************************************************)
(* Federation between relays (relay/src/main.rs): the outgoing connection  *)
(* to each configured peer, its bounded channel, gossip, the route table,  *)
(* peer authentication, and the propagation of read receipts and of the    *)
(* deletions they cause.                                                   *)
(*                                                                         *)
(* A relay stands for its URL (--url is what its peers configure).  The    *)
(* relays of `Relays' run this code.  `Outside' are federation peers of    *)
(* which only the messages are known; they send what the handlers parse.   *)
(* Requests of clients enter after admission (module RelayAdmission),      *)
(* except for the nonces of receipts and deletions, on which the           *)
(* propagation between relays rests.                                       *)
(***************************************************************************)
EXTENDS Integers, FiniteSets, Sequences

CONSTANTS
    Relays,        \* relays that run this code
    Outside,       \* URLs of other peers
    Nids,          \* keys of mailboxes: null ids, or blind tags with a secret
    Configured,    \* the --peer URLs of each relay
    Others,        \* other_relays of the read receipt
    Holders,       \* relays whose mailbox holds the message that is read
    HasSecret,     \* whether the relays share a secret
    CHANNEL,       \* capacity of the mpsc channel to a peer
    ROUTE_TTL,     \* FEDERATION_ROUTE_TTL_SECONDS, in ticks
    PEER_TIMEOUT,  \* FEDERATION_PEER_TIMEOUT_SECONDS, in ticks
    GOSSIP,        \* FEDERATION_GOSSIP_INTERVAL_SECONDS, in ticks
    CHALLENGE_TTL, \* lifetime of a pending challenge, in ticks
    TOLERANCE,     \* STORE_TIMESTAMP_TOLERANCE_SECS, in ticks
    STAMP,         \* timestamp of the read receipt, on the clock of the relays
    MAX_HOPS,      \* FEDERATION_MAX_RELAY_HOPS
    MaxTime,       \* bound: the clock stops here
    MaxBreaks,     \* bound: connections that break
    MaxInputs      \* bound: messages of outside peers and of clients

Urls == Relays \cup Outside

ASSUME FederationAssumption ==
    /\ Configured \in [Relays -> SUBSET Urls]
    /\ Others \subseteq Urls /\ Holders \subseteq Relays
    /\ HasSecret \in BOOLEAN
    /\ CHANNEL \in Nat \ {0} /\ ROUTE_TTL \in Nat \ {0}
    /\ PEER_TIMEOUT \in Nat \ {0} /\ GOSSIP \in Nat \ {0}
    /\ CHALLENGE_TTL \in Nat /\ TOLERANCE \in Nat /\ STAMP \in Nat /\ MAX_HOPS \in Nat
    /\ MaxTime \in Nat /\ MaxBreaks \in Nat /\ MaxInputs \in Nat

VARIABLES
    now,         \* the clock
    unconnected, \* per relay: configured peers not connected to yet
    peers,       \* per relay: FederationState.peers
    chan,        \* per relay and peer: messages on their way, oldest first
    tasks,       \* spawned forwards of receipts and deletions
    routes,      \* per relay: FederationState.remote_routes
    challenges,  \* per relay: pending_challenges
    local,       \* per relay: the keys of its mailboxes
    gossiped,    \* per relay: when gossip_task ran last
    since,       \* history, per relay: since when it has mailboxes
    nonces,      \* per relay: the records of the reader in seen_nonce_strs
    copies,      \* where the message that is read lies: relay, and memory or row
    effects,     \* history, per relay: effects of receipt and delete
    owed,        \* history: relays to which a deletion has been queued
    lost,        \* history: relays whose deletion was lost or came too late
    early,       \* history: effects of a relay before the timestamp
    cut,         \* history: relays that dropped nonces at MAX_NONCES_PER_SENDER
    breaks, told \* counters of the bounds

fed  == <<unconnected, peers, routes, challenges, gossiped>>
mail == <<local, since, copies, nonces, effects>>
hist == <<owed, lost, early, cut>>
vars == <<now, fed, chan, tasks, mail, hist, breaks, told>>

-----------------------------------------------------------------------------
(* FederationState.                                                        *)

\* open: the receiving half of the channel is still there.
PeerInfo == [url : Urls, last_seen : Nat, authenticated : BOOLEAN, open : BOOLEAN]

RouteEntry == [nid : Nids, relay_url : Urls, expires_at : Nat]

Challenge == [url : Urls, challenge : {0, 1}, created_at : Nat]

\* There is one read receipt, and the deletion made from it with its timestamp.
Message == [kind : {"advertise"}, nids : SUBSET Nids] \cup
           [kind : {"receipt", "delete", "forward"}]

\* add_route: a null id has one route, the newest.
AddRoutes(R, nids, url, t) ==
    {e \in R : e.nid \notin nids} \cup
    {[nid |-> n, relay_url |-> url, expires_at |-> t + ROUTE_TTL] : n \in nids}

\* lookup_route: the time is not looked at.
LookupRoute(R, n) == {e.relay_url : e \in {x \in R : x.nid = n}}

\* who-has: this relay if it has the mailbox, else what the table says.
WhoHas(r, n) == IF n \in local[r] THEN {r} ELSE LookupRoute(routes[r], n)

SeenNow(P, url, t) ==
    {IF p.url = url THEN [p EXCEPT !.last_seen = t] ELSE p : p \in P}

\* send_to_peer: try_send on the channel of a known peer.
CanSend(r, p) ==
    /\ \E q \in peers[r] : q.url = p /\ q.open
    /\ Len(chan[r][p]) < CHANNEL

\* Mutant of UnexpiredRoutes: routes never expire.
AllRoutes(R, t) == R

\* cleanup_expired_routes, which also drops silent peers.
UnexpiredRoutes(R, t) == {e \in R : e.expires_at > t}
HeardPeers(P, t) == {p \in P : t - p.last_seen < PEER_TIMEOUT}

-----------------------------------------------------------------------------
Init ==
    /\ now = 0
    /\ unconnected = Configured
    /\ peers = [r \in Relays |-> {}]
    /\ chan = [r \in Relays |-> [p \in Relays |-> <<>>]]
    /\ tasks = {}
    /\ routes = [r \in Relays |-> {}]
    /\ challenges = [r \in Relays |-> {}]
    /\ local = [r \in Relays |-> {}]
    /\ gossiped = [r \in Relays |-> 0]
    /\ since = [r \in Relays |-> -1]
    /\ nonces = [r \in Relays |-> {}]
    /\ copies = Holders \X {"memory", "row"}
    /\ effects = [r \in Relays |-> [k \in {"receipt", "delete"} |-> 0]]
    /\ owed = {} /\ lost = {} /\ early = {} /\ cut = {}
    /\ breaks = 0 /\ told = 0

\* connect_to_peer, tried once for each configured URL when the relay starts;
\* when it fails nobody tries again.
connect_to_peer(r, p) ==
    /\ p \in unconnected[r]
    /\ unconnected' = [unconnected EXCEPT ![r] = @ \ {p}]
    /\ \/ peers' = [peers EXCEPT ![r] = @ \cup
              {[url |-> p, last_seen |-> now, authenticated |-> FALSE, open |-> TRUE]}]
       \/ UNCHANGED peers
    /\ UNCHANGED <<now, chan, tasks, routes, challenges, gossiped, mail, hist, breaks, told>>

\* The connection breaks: the sender task ends and what it had is lost.  The
\* entry of the peer stays, with a closed channel.
Break(r, p) ==
    /\ breaks < MaxBreaks
    /\ \E q \in peers[r] : q.url = p /\ q.open
    /\ peers' = [peers EXCEPT ![r] =
           {IF q.url = p THEN [q EXCEPT !.open = FALSE] ELSE q : q \in @}]
    /\ chan' = IF p \in Relays THEN [chan EXCEPT ![r][p] = <<>>] ELSE chan
    /\ lost' = IF p \in Relays /\ \E i \in DOMAIN chan[r][p] : chan[r][p][i].kind = "delete"
               THEN lost \cup {p} ELSE lost
    /\ breaks' = breaks + 1
    /\ UNCHANGED <<now, unconnected, tasks, routes, challenges, gossiped, mail, owed, early, cut, told>>

\* gossip_task: nothing at all without local mailboxes; else advertise to
\* every peer that can be reached, then clean up.
gossip_task(r) ==
    /\ now - gossiped[r] >= GOSSIP
    /\ gossiped' = [gossiped EXCEPT ![r] = now]
    /\ IF local[r] = {}
       THEN UNCHANGED <<chan, routes, peers>>
       ELSE /\ chan' = [chan EXCEPT ![r] =
                   [p \in Relays |->
                       IF CanSend(r, p)
                       THEN Append(@[p], [kind |-> "advertise", nids |-> local[r]])
                       ELSE @[p]]]
            /\ routes' = [routes EXCEPT ![r] = UnexpiredRoutes(@, now)]
            /\ peers' = [peers EXCEPT ![r] = HeardPeers(@, now)]
    /\ UNCHANGED <<now, unconnected, challenges, tasks, mail, hist, breaks, told>>

-----------------------------------------------------------------------------
(* Messages of outside peers and of clients.                               *)

Tell == told < MaxInputs /\ told' = told + 1

\* route-advertise with all the fields of RouteAdvertise; route-advertise-ack
\* does the same and does not ask for a secret.
route_advertise(r, x, nids) ==
    /\ Tell
    /\ routes' = [routes EXCEPT ![r] = AddRoutes(@, nids, x, now)]
    /\ peers' = [peers EXCEPT ![r] = SeenNow(@, x, now)]
    /\ UNCHANGED <<now, unconnected, challenges, gossiped, chan, tasks, mail, hist, breaks>>

\* peer-auth: keep the challenge and answer it.
peer_auth(r, x, c) ==
    /\ HasSecret /\ Tell
    /\ challenges' = [challenges EXCEPT ![r] =
           {d \in @ : d.url # x} \cup {[url |-> x, challenge |-> c, created_at |-> now]}]
    /\ UNCHANGED <<now, unconnected, peers, routes, gossiped, chan, tasks, mail, hist, breaks>>

\* pending_challenges.remove(&url).
Consumed(C, x) == {d \in C : d.url # x}

\* peer-auth-reply: the pending challenge is consumed, whatever the answer.
peer_auth_reply(r, x, c) ==
    /\ HasSecret /\ Tell
    /\ challenges' = [challenges EXCEPT ![r] = Consumed(@, x)]
    /\ peers' = [peers EXCEPT ![r] =
           {[p EXCEPT !.authenticated =
                 @ \/ /\ p.url = x
                      /\ \E d \in challenges[r] :
                            /\ d.url = x /\ d.challenge = c
                            /\ now - d.created_at <= CHALLENGE_TTL] : p \in @}]
    /\ UNCHANGED <<now, unconnected, routes, gossiped, chan, tasks, mail, hist, breaks>>

\* relay-forward from outside, of a message for n: refused from a known peer
\* that is not authenticated, when we are on its path, or after too many hops.
relay_forward(r, x, via, hops, n) ==
    /\ HasSecret /\ Tell
    /\ \A p \in peers[r] : p.url = x => p.authenticated
    /\ r \notin via /\ hops < MAX_HOPS
    /\ local' = [local EXCEPT ![r] = @ \cup {n}]
    /\ since' = [since EXCEPT ![r] = IF local[r] = {} THEN now ELSE @]
    /\ UNCHANGED <<now, fed, chan, tasks, copies, nonces, effects, hist, breaks>>

\* onion-v1: the inner payload goes to the exit relay as a relay-forward
\* without sender, and the client is answered ok whether or not it was sent.
onion(r, exit) ==
    /\ Tell
    /\ chan' = IF exit \in Relays /\ CanSend(r, exit)
               THEN [chan EXCEPT ![r][exit] = Append(@, [kind |-> "forward"])]
               ELSE chan
    /\ UNCHANGED <<now, fed, tasks, mail, hist, breaks>>

-----------------------------------------------------------------------------
(* Read receipts and deletions.                                            *)


\* The two kinds record the nonce of the receipt under their own prefix.
NonceStr(kind) == IF kind = "receipt" THEN "read" ELSE kind

\* check_timestamp_freshness: the clock of the reader may be ahead.
Fresh == now - STAMP \in -TOLERANCE..TOLERANCE

\* Mutant of Recorded: a nonce that was seen is recorded and accepted again.
RecordedAgain(r, kind) == TRUE

\* check_and_record_nonce_str: a recorded nonce is refused, however old ...
Recorded(r, kind) == \A e \in nonces[r] : e.str # NonceStr(kind)

\* ... and a new one drops the records older than the tolerance.
Retained(R) == {e \in R : e.at >= now - TOLERANCE}

Recording(r, kind) == Retained(nonces[r]) \cup {[str |-> NonceStr(kind), at |-> now]}

\* A read receipt spawns, for each of other_relays, one task that forwards it
\* and one that sends the deletion.  Those for a URL that is no configured peer
\* (its own, as a rule) find no channel and end; they are left out.
Spawned(r) ==
    {[from |-> r, to |-> p, kind |-> k] : p \in Others \cap Configured[r], k \in {"receipt", "delete"}}

\* relay-delete looks in the mailbox under the raw null id, which is not the
\* key of a mailbox once the relay has a secret; its DELETE compares the blob
\* with the message id, so the row stays.
Removed(r) == IF HasSecret THEN {} ELSE {<<r, "memory">>}

Missed(r, kind) == IF kind = "delete" THEN lost \cup {r} ELSE lost

\* relay-read-receipt and relay-delete, whether they come from the client or
\* from a peer: nonce first, timestamp second, then the effect.  A signature
\* that cannot be verified (the lock of the key cache is held) is refused.
Handle(r, kind) ==
    /\ \/ /\ Recorded(r, kind)
          /\ nonces' = [nonces EXCEPT ![r] = Recording(r, kind)]
          /\ IF Fresh
             THEN /\ effects' = [effects EXCEPT ![r][kind] = @ + 1]
                  /\ early' = IF now < STAMP THEN early \cup {<<r, kind>>} ELSE early
                  /\ copies' = IF kind = "delete" THEN copies \ Removed(r) ELSE copies
                  /\ tasks' = IF kind = "receipt" THEN tasks \cup Spawned(r) ELSE tasks
                  /\ UNCHANGED lost
             ELSE lost' = Missed(r, kind) /\ UNCHANGED <<effects, early, copies, tasks>>
       \/ /\ ~Recorded(r, kind)
          /\ UNCHANGED <<nonces, effects, early, copies, tasks, lost>>
       \/ /\ lost' = Missed(r, kind)
          /\ UNCHANGED <<nonces, effects, early, copies, tasks>>
    /\ UNCHANGED cut

\* The reader sends the receipt, to any relay that has the message and again.
read_receipt(r) ==
    /\ Tell /\ r \in Holders
    /\ Handle(r, "receipt")
    /\ UNCHANGED <<now, fed, chan, local, since, owed, breaks>>

\* Other signed requests of the reader: each records its own nonce, and one
\* that finds MAX_NONCES_PER_SENDER records drops the older half (bound: one relay).
other_requests(r) ==
    /\ nonces[r] # {} /\ cut = {}
    /\ \E D \in SUBSET Retained(nonces[r]) :
          /\ \A d \in D, e \in Retained(nonces[r]) \ D : d.at <= e.at
          /\ nonces' = [nonces EXCEPT ![r] = Retained(@) \ D]
          /\ cut' = IF D = {} THEN cut ELSE cut \cup {r}
    /\ UNCHANGED <<now, fed, chan, tasks, local, since, copies, effects, owed, lost, early, breaks, told>>

\* Mutant of forward_task: a forward that cannot be sent is tried again.
ForwardUntilSent(t) ==
    /\ t.to \in Relays /\ CanSend(t.from, t.to)
    /\ tasks' = tasks \ {t}
    /\ chan' = [chan EXCEPT ![t.from][t.to] = Append(@, [kind |-> t.kind])]
    /\ owed' = IF t.kind = "delete" THEN owed \cup {t.to} ELSE owed
    /\ UNCHANGED <<now, fed, mail, lost, early, cut, breaks, told>>

\* forward_read_receipt, forward_delete_request: one try_send, no retry.
forward_task(t) ==
    /\ tasks' = tasks \ {t}
    /\ IF t.to \in Relays /\ CanSend(t.from, t.to)
       THEN /\ chan' = [chan EXCEPT ![t.from][t.to] = Append(@, [kind |-> t.kind])]
            /\ owed' = IF t.kind = "delete" THEN owed \cup {t.to} ELSE owed
       ELSE UNCHANGED <<chan, owed>>
    /\ UNCHANGED <<now, fed, mail, lost, early, cut, breaks, told>>

\* The fields RouteAdvertise asks for, and those gossip_task puts in.
RequiredFields == {"relay_url", "route_count", "ttl"}
GossipFields == {"relay_url", "null_ids"}

\* The head of the channel from r reaches handle_message of p.  The answer
\* goes to the receiver task of r, which ignores everything but
\* route-advertise, so r learns nothing from a route-advertise-ack.
receive(r, p) ==
    /\ chan[r][p] # <<>>
    /\ chan' = [chan EXCEPT ![r][p] = Tail(@)]
    /\ LET m == Head(chan[r][p])
       IN  \/ /\ m.kind \in {"receipt", "delete"}
              /\ Handle(p, m.kind)
              /\ UNCHANGED <<routes, peers>>
           \/ /\ m.kind = "advertise"
              /\ IF HasSecret /\ RequiredFields \subseteq GossipFields
                 THEN /\ routes' = [routes EXCEPT ![p] = AddRoutes(@, m.nids, r, now)]
                      /\ peers' = [peers EXCEPT ![p] = SeenNow(@, r, now)]
                 ELSE UNCHANGED <<routes, peers>>
              /\ UNCHANGED <<tasks, nonces, effects, copies, lost, early, cut>>
           \/ \* no sender, so its signature does not verify
              /\ m.kind = "forward"
              /\ UNCHANGED <<routes, peers, tasks, nonces, effects, copies, lost, early, cut>>
    /\ UNCHANGED <<now, unconnected, challenges, gossiped, local, since, owed, breaks, told>>

\* A client stores the first message for n; the mailbox of n appears.
store(r, n) ==
    /\ Tell /\ n \notin local[r]
    /\ local' = [local EXCEPT ![r] = @ \cup {n}]
    /\ since' = [since EXCEPT ![r] = IF local[r] = {} THEN now ELSE @]
    /\ UNCHANGED <<now, fed, chan, tasks, copies, nonces, effects, hist, breaks>>

\* cleanup_expired of the mailboxes removes the empty ones.
expire(r) ==
    /\ Tell /\ local[r] # {}
    /\ local' = [local EXCEPT ![r] = {}]
    /\ since' = [since EXCEPT ![r] = -1]
    /\ UNCHANGED <<now, fed, chan, tasks, copies, nonces, effects, hist, breaks>>

\* Time passes; gossip_task runs on its interval.
Tick ==
    /\ now < MaxTime
    /\ \A r \in Relays : now - gossiped[r] < GOSSIP
    /\ now' = now + 1
    /\ UNCHANGED <<fed, chan, tasks, mail, hist, breaks, told>>

FromOutside(r) ==
    \E x \in Outside :
        \/ \E nids \in SUBSET Nids : route_advertise(r, x, nids)
        \/ \E c \in {0, 1} : peer_auth(r, x, c) \/ peer_auth_reply(r, x, c)
        \/ \E via \in {{}, {r}}, hops \in {1, MAX_HOPS}, n \in Nids :
               relay_forward(r, x, via, hops, n)

Next ==
    \/ \E r \in Relays : \E p \in Urls : connect_to_peer(r, p) \/ Break(r, p)
    \/ \E r \in Relays : gossip_task(r) \/ FromOutside(r) \/ expire(r)
    \/ \E r \in Relays : read_receipt(r) \/ other_requests(r)
    \/ \E r \in Relays : \E p \in Urls : onion(r, p)
    \/ \E r \in Relays : \E n \in Nids : store(r, n)
    \/ \E t \in tasks : forward_task(t)
    \/ \E r \in Relays, p \in Relays : receive(r, p)
    \/ Tick

Spec == Init /\ [][Next]_vars

\* The executor runs spawned tasks and the connections deliver.
FairSpec ==
    /\ Spec
    /\ WF_vars(\E t \in tasks : forward_task(t))
    /\ \A r \in Relays, p \in Relays : WF_vars(receive(r, p))

-----------------------------------------------------------------------------
(* Properties.                                                             *)

\* Every variable has its type.
TypeOK ==
    /\ now \in Nat
    /\ unconnected \in [Relays -> SUBSET Urls]
    /\ \A r \in Relays : peers[r] \subseteq PeerInfo
    /\ \A r, p \in Relays : Len(chan[r][p]) <= CHANNEL
                            /\ \A i \in DOMAIN chan[r][p] : chan[r][p][i] \in Message
    /\ \A r \in Relays : routes[r] \subseteq RouteEntry
    /\ \A r \in Relays : challenges[r] \subseteq Challenge
    /\ local \in [Relays -> SUBSET Nids]
    /\ \A r \in Relays : \A e \in nonces[r] : e.str \in {"read", "delete"} /\ e.at \in 0..now
    /\ copies \subseteq Relays \X {"memory", "row"}

\* However relays pass a receipt on to each other (each forwards it to all of
\* other_relays, the sender included), it and the deletion made from it take
\* effect at most once at each relay: the nonce check ends the flood although
\* nonces are forgotten with age.  It takes effect a second time at most where
\* the first time was before its timestamp (the reader's clock was ahead), and
\* nothing is said of a relay that dropped nonces because it had too many.
ReceiptOnce ==
    \A r \in Relays \ cut : \A k \in {"receipt", "delete"} :
        effects[r][k] <= IF <<r, k>> \in early THEN 2 ELSE 1


\* The flood ends: in the end nobody has anything to forward.
FloodEnds == <>[](tasks = {})

\* While a relay has mailboxes, gossip_task removes a route at most one
\* interval after it expired, so who-has never names a relay that advertised
\* the null id longer than ROUTE_TTL + GOSSIP ago.
RoutesExpire ==
    \A r \in Relays :
        (since[r] # -1 /\ now - since[r] > GOSSIP)
            => \A e \in routes[r] : now < e.expires_at + GOSSIP
=============================================================================
